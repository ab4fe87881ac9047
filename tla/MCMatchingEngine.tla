-------------------------- MODULE MCMatchingEngine --------------------------
(***************************************************************************)
(* A pool of three slots and four orders: partial fills, a sweep over two  *)
(* resting orders, a resting order reused over several submissions, an     *)
(* exhausted pool and orders of quantity zero all happen.                  *)
(***************************************************************************)
EXTENDS MatchingEngine

CONSTANTS h1, h2, h3, x

MCHandle == {h1, h2, h3}
OneSymbol == {x}
OneBook == {0}
SameBook == [s \in Symbol |-> 0]
=============================================================================
