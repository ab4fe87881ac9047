--------------------------- MODULE MatchingEngine ---------------------------
(***************************************************************************)
(* The matching engine of libs/match/MatchingEngine.h: submitOrder copies  *)
(* the order into a slot of the pool and matchOrder trades it against the  *)
(* orders resting on the other side of its book, one resting order per     *)
(* round of the loop, before what is left of it comes to rest.             *)
(*                                                                         *)
(* One thread runs the engine, so a submission is a run of steps that no   *)
(* other submission interleaves with: Accept, a Fill for each round of the *)
(* loop, and EndMatch unless the order was filled.                         *)
(*                                                                         *)
(* The pool is an external component, known by its use here: acquire       *)
(* returns some free slot, or none when there is none; release frees a     *)
(* slot.  A symbol is only ever hashed, and the hash picks the book; Hash  *)
(* stands for the 64-bit FNV-1a hash modulo the number of books.           *)
(***************************************************************************)
EXTENDS Integers, Sequences, SequencesExt, FiniteSetsExt

CONSTANTS
    Handle,       \* the slots of the pool (Order*)
    NoHandle,     \* the null pointer
    Symbol,       \* Order::symbol
    Book,         \* the indices of _books
    Hash,         \* hashSymbol, a function from Symbol to Book
    Price,        \* the prices submitted
    Quantity,     \* the quantities submitted
    MaxOrders,    \* bound: orders accepted in a behaviour
    MaxDropped    \* bound: orders dropped in a behaviour

ASSUME HandleAssumption == NoHandle \notin Handle
ASSUME HashAssumption == Hash \in [Symbol -> Book]
ASSUME AmountAssumption == Price \subseteq Int /\ Quantity \subseteq Nat
ASSUME BoundAssumption == MaxOrders \in Nat /\ MaxDropped \in Nat

Side == {"buy", "sell"}

Opposite(side) == IF side = "buy" THEN "sell" ELSE "buy"

\* What a caller submits; isBuy is the side.
Ticket == [symbol : Symbol, side : Side, price : Price, quantity : Quantity]

VARIABLES
    order,       \* the contents of the pool's slots
    free,        \* the slots that acquire may return
    books,       \* _books: the slots resting in each book, by side, in order
    incoming,    \* the order being matched, or NoHandle between submissions
    i,           \* matchOrder's index, counted from 1
    accepted,    \* history: the tickets accepted; a ticket's place is its orderId
    filled,      \* history: what the execution reports say of each order, summed
    dropped      \* the orders dropped

vars == <<order, free, books, incoming, i, accepted, filled, dropped>>

Init ==
    /\ order = [h \in Handle |-> [id |-> 0]]
    /\ free = Handle
    /\ books = [b \in Book |-> [side \in Side |-> <<>>]]
    /\ incoming = NoHandle
    /\ i = 1
    /\ accepted = <<>> /\ filled = <<>>
    /\ dropped = 0

-----------------------------------------------------------------------------
(* submitOrder *)

\* The pool is exhausted: the order is dropped without a report.
Drop ==
    /\ incoming = NoHandle
    /\ free = {}
    /\ dropped < MaxDropped
    /\ dropped' = dropped + 1
    /\ UNCHANGED <<order, free, books, incoming, i, accepted, filled>>

\* acquire returns h, the order is copied into it, and matchOrder begins.
Accept(t, h) ==
    /\ incoming = NoHandle
    /\ h \in free
    /\ Len(accepted) < MaxOrders
    /\ free' = free \ {h}
    /\ order' = [order EXCEPT ![h] =
                   [id |-> Len(accepted) + 1, symbol |-> t.symbol, side |-> t.side,
                    price |-> t.price, quantity |-> t.quantity]]
    /\ incoming' = h
    /\ i' = 1
    /\ accepted' = Append(accepted, t)
    /\ filled' = Append(filled, 0)
    /\ UNCHANGED <<books, dropped>>

-----------------------------------------------------------------------------
(* matchOrder *)

BookOf(o) == Hash[o.symbol]

\* oppositeSide, of the book that the incoming order hashes to.
OppositeSide == books[BookOf(order[incoming])][Opposite(order[incoming].side)]

Crosses(in, resting) ==
    \/ in.side = "buy" /\ in.price >= resting.price
    \/ in.side = "sell" /\ in.price <= resting.price

\* The loop goes on: there is a resting order at i and the prices cross.
CanFill ==
    /\ i <= Len(OppositeSide)
    /\ Crosses(order[incoming], order[OppositeSide[i]])

FillQtyLarger(in, resting) == Max({in.quantity, resting.quantity})

FillQty(in, resting) == Min({in.quantity, resting.quantity})

TakeFromRestingOnly(r, qty) == [order EXCEPT ![r].quantity = @ - qty]

\* The quantities left to both orders after a fill.
TakeFromBoth(r, qty) ==
    [order EXCEPT ![incoming].quantity = @ - qty, ![r].quantity = @ - qty]

ReportIncomingOnly(r, qty) == [filled EXCEPT ![order[incoming].id] = @ + qty]

\* The execution reports to both owners.
ReportToBoth(r, qty) ==
    [filled EXCEPT ![order[incoming].id] = @ + qty, ![order[r].id] = @ + qty]

EraseNothing(s, n) == s

\* oppositeSide.erase(oppositeSide.begin() + i)
Erase(s, n) == RemoveAt(s, n)

\* One round of the loop with crossing prices.  A resting order that is used up
\* goes back to the pool and leaves the book; an incoming order that is used up
\* goes back to the pool and the submission is over.
Fill ==
    /\ incoming # NoHandle
    /\ CanFill
    /\ LET r == OppositeSide[i]
           qty == FillQty(order[incoming], order[r])
           left == TakeFromBoth(r, qty)
           restingDone == left[r].quantity = 0
           incomingDone == left[incoming].quantity = 0
       IN /\ order' = left
          /\ filled' = ReportToBoth(r, qty)
          /\ free' = free \cup {h \in {r, incoming} : left[h].quantity = 0}
          /\ books' = IF restingDone
                        THEN [books EXCEPT ![BookOf(order[incoming])]
                                             [Opposite(order[incoming].side)] = Erase(@, i)]
                        ELSE books
          /\ i' = IF restingDone THEN i ELSE i + 1
          /\ incoming' = IF incomingDone THEN NoHandle ELSE incoming
    /\ UNCHANGED <<accepted, dropped>>

PushFront(s, h) == <<h>> \o s

\* sameSide.push_back(incoming)
PushBack(s, h) == Append(s, h)

LoopEndsAtEndOnly == i > Len(OppositeSide)

\* The loop ends at the end of the opposite side or at the first resting order
\* whose price the incoming order does not cross.
LoopEnds == ~CanFill

\* What is left of the order comes to rest.  An order submitted with quantity zero
\* that meets no crossing order is neither put in the book nor released.
EndMatch ==
    /\ incoming # NoHandle
    /\ LoopEnds
    /\ books' = IF order[incoming].quantity > 0
                  THEN [books EXCEPT ![BookOf(order[incoming])][order[incoming].side] =
                                       PushBack(@, incoming)]
                  ELSE books
    /\ incoming' = NoHandle
    /\ UNCHANGED <<order, free, i, accepted, filled, dropped>>

-----------------------------------------------------------------------------
MatchOrder == Fill \/ EndMatch

Next ==
    \/ Drop
    \/ \E t \in Ticket, h \in Handle : Accept(t, h)
    \/ MatchOrder

Spec == Init /\ [][Next]_vars

\* The thread that runs matchOrder goes on running it; nothing is assumed of the
\* callers.
FairSpec == Spec /\ WF_vars(MatchOrder)

-----------------------------------------------------------------------------
(* Properties. *)

\* The slots resting in book b on a side.
Resting(b, side) == ToSet(books[b][side])

AllResting == UNION {Resting(b, side) : b \in Book, side \in Side}

\* An order in the pool.
OrderType ==
    [id : Nat \ {0}, symbol : Symbol, side : Side, price : Price, quantity : Nat]

\* Quantities never go below zero, which would be a wrap to 2^64 in the code, and
\* no report is made of an order that does not exist.
TypeOK ==
    /\ free \in SUBSET Handle
    /\ \A h \in Handle : order[h] \in OrderType \/ order[h] = [id |-> 0]
    /\ \A b \in Book, side \in Side : books[b][side] \in Seq(Handle)
    /\ incoming \in Handle \cup {NoHandle}
    /\ i \in Nat \ {0}
    /\ accepted \in Seq(Ticket)
    /\ filled \in Seq(Nat) /\ Len(filled) = Len(accepted)
    /\ dropped \in Nat

\* No slot is both free and in use, in two places, or in a wrong place: a resting
\* slot is in one place of one book, on the side and in the book of its order, with
\* a quantity left.  The only slots that are in use and that nothing points to any
\* more hold orders submitted with quantity zero (EndMatch leaks them).
PoolAccounted ==
    /\ \A b \in Book, side \in Side :
          /\ IsInjective(books[b][side])
          /\ \A h \in Resting(b, side) :
                /\ BookOf(order[h]) = b
                /\ order[h].side = side
                /\ order[h].quantity > 0
    /\ AllResting \cap free = {}
    /\ incoming \notin AllResting \cup free
    /\ \A h \in Handle \ (AllResting \cup free \cup {incoming}) :
          accepted[order[h].id].quantity = 0

\* No quantity is lost or invented: what an order was submitted with is what its
\* execution reports say was filled plus what is left of it in the pool, and no two
\* slots in use hold the same order.
QuantityConserved ==
    \A n \in 1 .. Len(accepted) :
        LET slots == {h \in Handle \ free : order[h].id = n}
        IN \/ slots = {} /\ filled[n] = accepted[n].quantity
           \/ \E h \in slots : /\ slots = {h}
                               /\ filled[n] + order[h].quantity = accepted[n].quantity

\* Every share bought is a share sold: after any sequence of submissions the
\* execution reports of the buyers and those of the sellers add up to the same.
BuysEqualSells ==
    LET Total(side) == MapThenSumSet(LAMBDA n : filled[n],
                                     {n \in 1 .. Len(accepted) : accepted[n].side = side})
    IN Total("buy") = Total("sell")

\* Time priority: the resting order that a fill uses is the one that has waited
\* longest on its side of the book, and the incoming order's price reaches its price.
OldestFilledFirst ==
    [][\A n \in DOMAIN filled :
          filled'[n] # filled[n] /\ n # order[incoming].id =>
              /\ \A h \in ToSet(OppositeSide) : n <= order[h].id
              /\ Crosses(accepted[order[incoming].id], accepted[n])]_vars

\* Every submission returns: matchOrder's loop ends although it advances its index
\* only over resting orders that it leaves in the book.
SubmissionsReturn == incoming # NoHandle ~> incoming = NoHandle

\* "break; // price does not cross" followed by "If not fully filled, add to book":
\* between submissions no resting buy reaches the price of a resting sell in the
\* same book.  It does not hold: the resting orders are in order of arrival, not of
\* price, and the loop stops at the first that does not cross.
NoCrossedBook ==
    incoming = NoHandle =>
        \A b \in Book : \A h \in Resting(b, "buy"), k \in Resting(b, "sell") :
            order[h].price < order[k].price
=============================================================================
