---------------------------- MODULE PriceLevels ----------------------------
(***************************************************************************)
(* One side of a book, libs/match/PriceLevels.h: an array of price levels, *)
(* each the head and the tail of a singly linked list of pool entries and  *)
(* the sum of their quantities.  The links, the quantities and the level   *)
(* of an entry are fields of the entry, in a pool that is external here.   *)
(*                                                                         *)
(* One thread uses the book.  unlinkFromLevel walks the list, so it is a   *)
(* run of steps: UnlinkStart, a UnlinkNext for each entry passed, and      *)
(* UnlinkFound or UnlinkMissing.  Its callers hand in any entry; those of  *)
(* appendToLevel one that is in no list, those of reduceQuantity one that  *)
(* is in a list and no more than its quantity.                             *)
(*                                                                         *)
(* The machine's widths are parameters, so that small instances overflow:  *)
(* QtyMod and PriceMod stand for 2^32 and IndexMod for 2^16.               *)
(***************************************************************************)
EXTENDS Integers, Sequences, SequencesExt, FiniteSetsExt

CONSTANTS
    Entry,        \* the indices of the pool
    NONE,         \* 0xFFFF, the end of a list
    MaxLevels,    \* the number of levels, a power of two
    Quantity,     \* the quantities of the orders appended
    QtyMod,       \* the number of values of a quantity
    PriceMod,     \* the number of values of a price
    IndexMod,     \* the number of values of a level index
    RefPrice,     \* the reference prices set
    TickSize      \* the tick sizes set

ASSUME EntryAssumption == NONE \notin Entry
ASSUME WidthAssumption ==
    /\ MaxLevels \in Nat \ {0} /\ QtyMod \in Nat \ {0} /\ PriceMod \in Nat \ {0, 1}
    /\ IndexMod \in Nat \ {0} /\ IndexMod % MaxLevels = 0 /\ MaxLevels <= PriceMod
ASSUME AmountAssumption ==
    /\ Quantity \subseteq 0 .. QtyMod - 1
    /\ RefPrice \subseteq 0 .. PriceMod - 1
    /\ TickSize \subseteq 0 .. PriceMod - 1

Level == 0 .. MaxLevels - 1

VARIABLES
    head, tail, totalQty,           \* the fields of _levels
    nextIndex, levelIndex, quantity,  \* the fields of the pool's entries
    refPrice, tickSize,             \* _refPrice, _tickSize
    target, prev, idx,              \* unlinkFromLevel's poolIdx (or NONE), prev and idx
    emptied,                        \* what unlinkFromLevel last returned
    queue                           \* history: the entries of each level, oldest first

levelVars == <<head, tail, totalQty>>
entryVars == <<nextIndex, levelIndex, quantity>>
priceVars == <<refPrice, tickSize>>
walkVars == <<target, prev, idx>>
vars == <<levelVars, entryVars, priceVars, walkVars, emptied, queue>>

Linked == UNION {ToSet(queue[l]) : l \in Level}

NoLevels ==
    /\ head' = [l \in Level |-> NONE]
    /\ tail' = [l \in Level |-> NONE]
    /\ totalQty' = [l \in Level |-> 0]

Init ==
    /\ head = [l \in Level |-> NONE]
    /\ tail = [l \in Level |-> NONE]
    /\ totalQty = [l \in Level |-> 0]
    /\ nextIndex = [e \in Entry |-> NONE]
    /\ levelIndex = [e \in Entry |-> 0]
    /\ quantity = [e \in Entry |-> 0]
    /\ refPrice = 0 /\ tickSize = 1
    /\ target = NONE /\ prev = NONE /\ idx = NONE
    /\ emptied = FALSE
    /\ queue = [l \in Level |-> <<>>]

-----------------------------------------------------------------------------
(* Prices and levels. *)

PriceToLevelNoTick(price) == (((price - refPrice) % PriceMod) % IndexMod) % MaxLevels

\* priceToLevel: unsigned subtraction, division by the tick, truncation, mask.  With a
\* tick size of 0, which setTickSize accepts, the division is undefined.
PriceToLevel(price) ==
    ((((price - refPrice) % PriceMod) \div tickSize) % IndexMod) % MaxLevels

\* levelToPrice
LevelToPrice(l) == (refPrice + l * tickSize) % PriceMod

SetReferencePrice(p) ==
    /\ target = NONE
    /\ refPrice' = p
    /\ UNCHANGED <<tickSize, levelVars, entryVars, walkVars, emptied, queue>>

SetTickSize(t) ==
    /\ target = NONE
    /\ tickSize' = t
    /\ UNCHANGED <<refPrice, levelVars, entryVars, walkVars, emptied, queue>>

\* reset forgets every list and the reference price, and keeps the tick size.
Reset ==
    /\ target = NONE
    /\ NoLevels
    /\ refPrice' = 0
    /\ queue' = [l \in Level |-> <<>>]
    /\ UNCHANGED <<entryVars, tickSize, walkVars, emptied>>

-----------------------------------------------------------------------------
(* appendToLevel *)

LinkKeepsNext(l, e) ==
    /\ nextIndex' = IF tail[l] # NONE THEN [nextIndex EXCEPT ![tail[l]] = e] ELSE nextIndex
    /\ head' = IF tail[l] # NONE THEN head ELSE [head EXCEPT ![l] = e]
    /\ tail' = [tail EXCEPT ![l] = e]

\* The entry becomes the last of the level's list.
Link(l, e) ==
    /\ nextIndex' = IF tail[l] # NONE THEN [nextIndex EXCEPT ![e] = NONE, ![tail[l]] = e]
                                      ELSE [nextIndex EXCEPT ![e] = NONE]
    /\ head' = IF tail[l] # NONE THEN head ELSE [head EXCEPT ![l] = e]
    /\ tail' = [tail EXCEPT ![l] = e]

AddToTotalWide(l, q) == totalQty' = [totalQty EXCEPT ![l] = @ + q]

\* lvl._totalQty += entry._quantity
AddToTotal(l, q) == totalQty' = [totalQty EXCEPT ![l] = (@ + q) % QtyMod]

\* The caller has set the entry's quantity to q.
AppendToLevel(l, e, q) ==
    /\ target = NONE
    /\ e \notin Linked
    /\ quantity' = [quantity EXCEPT ![e] = q]
    /\ levelIndex' = [levelIndex EXCEPT ![e] = l]
    /\ Link(l, e)
    /\ AddToTotal(l, q)
    /\ queue' = [queue EXCEPT ![l] = Append(@, e)]
    /\ UNCHANGED <<priceVars, walkVars, emptied>>

-----------------------------------------------------------------------------
(* unlinkFromLevel *)

UnlinkStart(e) ==
    /\ target = NONE
    /\ target' = e
    /\ prev' = NONE
    /\ idx' = head[levelIndex[e]]
    /\ UNCHANGED <<levelVars, entryVars, priceVars, emptied, queue>>

\* prev = idx; idx = pool[idx]._nextIndex
UnlinkNext ==
    /\ target # NONE
    /\ idx \notin {NONE, target}
    /\ prev' = idx
    /\ idx' = nextIndex[idx]
    /\ UNCHANGED <<target, levelVars, entryVars, priceVars, emptied, queue>>

UnlinkDone ==
    /\ target' = NONE
    /\ prev' = NONE
    /\ idx' = NONE

KeepTail(l) == UNCHANGED tail

\* if (lvl._tail == idx) lvl._tail = prev
MendTail(l) == tail' = [tail EXCEPT ![l] = IF @ = idx THEN prev ELSE @]

TakeNothing(l, qty) == UNCHANGED totalQty

\* lvl._totalQty -= qty
TakeFromTotal(l, qty) == totalQty' = [totalQty EXCEPT ![l] = (@ - qty) % QtyMod]

EmptiedByTail(l) == tail'[l] = idx

\* return lvl._head == 0xFFFF
Emptied(l) == head'[l] = NONE

\* The entry is taken out of its list.
UnlinkFound ==
    LET l == levelIndex[target]
    IN /\ target # NONE
       /\ idx = target
       /\ head' = IF prev = NONE THEN [head EXCEPT ![l] = nextIndex[idx]] ELSE head
       /\ nextIndex' = IF prev = NONE
                         THEN [nextIndex EXCEPT ![idx] = NONE]
                         ELSE [nextIndex EXCEPT ![prev] = nextIndex[idx], ![idx] = NONE]
       /\ MendTail(l)
       /\ TakeFromTotal(l, quantity[idx])
       /\ emptied' = Emptied(l)
       /\ queue' = [queue EXCEPT ![l] = RemoveFirst(@, target)]
       /\ UnlinkDone
       /\ UNCHANGED <<levelIndex, quantity, priceVars>>

\* The entry is not in the list of its level.
UnlinkMissing ==
    /\ target # NONE
    /\ idx = NONE
    /\ emptied' = FALSE
    /\ UnlinkDone
    /\ UNCHANGED <<levelVars, entryVars, priceVars, queue>>

-----------------------------------------------------------------------------
\* reduceQuantity
ReduceQuantity(e, qty) ==
    /\ target = NONE
    /\ e \in Linked
    /\ qty <= quantity[e]
    /\ quantity' = [quantity EXCEPT ![e] = @ - qty]
    /\ TakeFromTotal(levelIndex[e], qty)
    /\ UNCHANGED <<head, tail, nextIndex, levelIndex, priceVars, walkVars, emptied, queue>>

Unlink == UnlinkNext \/ UnlinkFound \/ UnlinkMissing

Next ==
    \/ Reset
    \/ \E p \in RefPrice : SetReferencePrice(p)
    \/ \E t \in TickSize : SetTickSize(t)
    \/ \E l \in Level, e \in Entry, q \in Quantity : AppendToLevel(l, e, q)
    \/ \E e \in Entry : UnlinkStart(e)
    \/ Unlink
    \/ \E e \in Entry, q \in Quantity : ReduceQuantity(e, q)

Spec == Init /\ [][Next]_vars

\* A walk that has begun goes on.
FairSpec == Spec /\ WF_vars(Unlink)

-----------------------------------------------------------------------------
(* Properties. *)

Pointer == Entry \cup {NONE}

\* Every link, index and amount is one its machine type and its array can hold, whatever
\* overflows on the way.
TypeOK ==
    /\ head \in [Level -> Pointer] /\ tail \in [Level -> Pointer]
    /\ totalQty \in [Level -> 0 .. QtyMod - 1]
    /\ nextIndex \in [Entry -> Pointer]
    /\ levelIndex \in [Entry -> Level]
    /\ quantity \in [Entry -> 0 .. QtyMod - 1]
    /\ refPrice \in 0 .. PriceMod - 1 /\ tickSize \in 0 .. PriceMod - 1
    /\ target \in Pointer /\ prev \in Pointer /\ idx \in Pointer
    /\ emptied \in BOOLEAN
    /\ queue \in [Level -> Seq(Entry)]

\* Whatever was appended and unlinked, in whatever order, each level's links lead
\* from its head through its entries in order of arrival to its tail, and an entry
\* is in at most one list, once.
ListsMatchQueues ==
    \A l \in Level :
        LET q == queue[l]
        IN /\ head[l] = IF q = <<>> THEN NONE ELSE q[1]
           /\ tail[l] = IF q = <<>> THEN NONE ELSE q[Len(q)]
           /\ \A n \in 1 .. Len(q) :
                 /\ nextIndex[q[n]] = IF n = Len(q) THEN NONE ELSE q[n + 1]
                 /\ levelIndex[q[n]] = l
           /\ \A m, n \in 1 .. Len(q) : q[m] = q[n] => m = n

\* _totalQty is the sum of the quantities in the level, in the arithmetic of its
\* width: an overflow on the way does not make it wrong for good.
TotalsMatch ==
    \A l \in Level :
        totalQty[l] = MapThenSumSet(LAMBDA e : quantity[e], ToSet(queue[l])) % QtyMod

\* unlinkFromLevel returns true exactly when it took out the last entry of a level,
\* and leaves the lists alone when the entry was in none.
EmptiedIsRight ==
    [][target # NONE /\ target' = NONE =>
         /\ emptied' <=> target \in Linked /\ queue'[levelIndex[target]] = <<>>
         /\ Linked' = Linked \ {target}]_vars

\* On-tick prices less than MaxLevels ticks above the reference price have levels of
\* their own, and levelToPrice gives the price back, wherever they lie in the range
\* of prices, unless the tick size was set to 0.
PricesRoundTrip ==
    tickSize # 0 =>
        \A l \in Level :
            l * tickSize < PriceMod /\ l < IndexMod => PriceToLevel(LevelToPrice(l)) = l

\* The walk of unlinkFromLevel ends: the list it follows has no cycle.
UnlinkReturns == target # NONE ~> target = NONE
=============================================================================
