---------------------- MODULE MCSpScRingBufferConsumer ----------------------
(***************************************************************************)
(* Two threads, so one restart, on a ring of two places.                   *)
(***************************************************************************)
EXTENDS SpScRingBufferConsumer

\* The items are pushed as 1, 2, 3, ...: nothing looks at an item, so what is true of
\* items that all differ is true of any.
InTurn == ppc \in {"spin", "write", "publish"} => pitem = Len(accepted) + 1

\* What follows a start that came too soon is explored with one item only: threads that
\* overlap can take out far more than was pushed.
FewWhenTooSoon == tooSoon => Len(accepted) <= 1 /\ Len(delivered) <= 1
=============================================================================
