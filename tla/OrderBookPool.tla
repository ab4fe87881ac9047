---------------------------- MODULE OrderBookPool ----------------------------
(***************************************************************************)
(* The free list of OrderBookPool in libs/match/OrderPool.h.  The free     *)
(* entries form a list that starts at _freeIndex and goes on through the   *)
(* entries' nextFreeIndex.  allocate takes the first, free puts an entry   *)
(* back in front and then resets it, which also resets its nextFreeIndex   *)
(* (OrderBookEntry::reset).  One thread uses the pool.                     *)
(***************************************************************************)
EXTENDS Integers

CONSTANTS
    MaxOrders,      \* the number of entries (template parameter MaxOrders)
    NO_FREE_INDEX,  \* SIZE_MAX
    MaxFrees        \* bound: calls of free in a behaviour

Index == 0 .. MaxOrders - 1

VARIABLES
    nextFreeIndex,  \* of each entry
    freeIndex,      \* _freeIndex
    held,           \* the entries the callers have allocated and not freed
    frees           \* the calls of free so far

vars == <<nextFreeIndex, freeIndex, held, frees>>

\* The constructor links all the entries in order.
Init ==
    /\ nextFreeIndex = [k \in Index |-> IF k = MaxOrders - 1 THEN NO_FREE_INDEX ELSE k + 1]
    /\ freeIndex = 0
    /\ held = {}
    /\ frees = 0

\* allocate; it changes nothing when it returns NO_FREE_INDEX.
Allocate ==
    /\ freeIndex # NO_FREE_INDEX
    /\ held' = held \cup {freeIndex}
    /\ freeIndex' = nextFreeIndex[freeIndex]
    /\ UNCHANGED <<nextFreeIndex, frees>>

\* OrderBookEntry::reset, as far as the free list goes.
Reset(next, idx) == [next EXCEPT ![idx] = 0]

\* free links the entry in front and then resets it.
Free(idx) ==
    /\ idx \in held
    /\ frees < MaxFrees
    /\ frees' = frees + 1
    /\ nextFreeIndex' = Reset([nextFreeIndex EXCEPT ![idx] = freeIndex], idx)
    /\ freeIndex' = idx
    /\ held' = held \ {idx}

Next == Allocate \/ \E idx \in Index : Free(idx)

Spec == Init /\ [][Next]_vars

\* "Allocate an entry, return index or NO_FREE_INDEX": an entry that allocate
\* returns is not one that a caller already holds.  It does not hold once an entry
\* has been freed, because reset makes entry 0 its successor in the free list.
AllocatesFreeEntry == freeIndex # NO_FREE_INDEX => freeIndex \notin held
=============================================================================
