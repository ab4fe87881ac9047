-------------------------- MODULE MCSpScRingBuffer --------------------------
(***************************************************************************)
(* One producer and one consumer on a ring of three slots, two of them     *)
(* usable: five items make the indices go round the array more than once,  *)
(* and two kinds of item make every loss, repetition or exchange visible.  *)
(***************************************************************************)
EXTENDS SpScRingBuffer

CONSTANTS a, b, c1

MCItem == {a, b}
MCConsumers == {c1}
=============================================================================
