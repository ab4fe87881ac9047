---------------------------- MODULE BoundedFifo ----------------------------
(***************************************************************************)
(* What a single-producer single-consumer queue promises its two users: a  *)
(* first-in first-out channel that never holds more than Limit items.  An  *)
(* item is accepted once, and the items come out once each, in the order   *)
(* in which they were accepted.                                            *)
(*                                                                         *)
(* The abstract queue has no slots, no indices and no intermediate steps;  *)
(* SpScRingBuffer implements it.                                           *)
(***************************************************************************)
EXTENDS Naturals, Sequences

CONSTANTS Item,   \* what can be queued
          Limit   \* the number of items the queue can hold

VARIABLES accepted,   \* every item accepted so far, in order
          delivered   \* every item handed out so far, in order

vars == <<accepted, delivered>>

Init == accepted = <<>> /\ delivered = <<>>

Put(x) ==
    /\ Len(accepted) - Len(delivered) < Limit
    /\ accepted' = Append(accepted, x)
    /\ UNCHANGED delivered

Take ==
    /\ Len(delivered) < Len(accepted)
    /\ delivered' = Append(delivered, accepted[Len(delivered) + 1])
    /\ UNCHANGED accepted

Next == (\E x \in Item : Put(x)) \/ Take

Spec == Init /\ [][Next]_vars
=============================================================================
