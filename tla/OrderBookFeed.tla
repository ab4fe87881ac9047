--------------------------- MODULE OrderBookFeed ---------------------------
(***************************************************************************)
(* The full-depth book of libs/market-data/OrderBookFeed.h: two sorted     *)
(* vectors of orders and a mutex.  upsert and remove hold the mutex from   *)
(* their first access to the book until the update callback has returned;  *)
(* so an update is one step, that takes the mutex if there is a callback,  *)
(* and the return of the callback, which gives it back, is another.        *)
(*                                                                         *)
(* An order is its id and price.  std::sort is not stable: orders at one   *)
(* price come out in any order.  The callback (external) is registered     *)
(* before the first update, touches nothing of the book and returns.       *)
(***************************************************************************)
EXTENDS Integers, Sequences, SequencesExt, FiniteSetsExt

CONSTANTS
    Nobody,     \* the mutex is free
    MaxLevels   \* _maxLevels

ASSUME MaxLevelsAssumption == MaxLevels \in Nat

VARIABLES
    book,     \* _bids and _asks
    mutex,    \* the thread that holds _mutex, or Nobody
    callback  \* a callback is registered

feed == <<book, mutex, callback>>

Side == {"bid", "ask"}

FeedInit ==
    /\ book = [side \in Side |-> <<>>]
    /\ mutex = Nobody
    /\ callback \in BOOLEAN

\* The comparison of the sort: a comes before b on this side.
Before(side, a, b) == IF side = "bid" THEN a.price > b.price ELSE a.price < b.price

InOrder(side, s) ==
    \A i, j \in DOMAIN s : i < j => ~Before(side, s[j], s[i])

PushedBack(s, o) == Append(s, o)

\* The order of that id is replaced, or the order is added at the end.
Put(s, o) ==
    LET i == SelectInSeq(s, LAMBDA x : x.id = o.id)
    IN IF i > 0 THEN [s EXCEPT ![i] = o] ELSE Append(s, o)

\* The results the sort may have.
Sorted(side, s) == {r \in SetToSeqs(ToSet(s)) : InOrder(side, r)}

TruncateFront(s) == SubSeq(s, Max({1, Len(s) - MaxLevels + 1}), Len(s))

\* resize(_maxLevels)
Truncate(s) == SubSeq(s, 1, Min({Len(s), MaxLevels}))

\* erase(remove_if(...)) of that id
Without(s, id) == FlattenSeq([i \in DOMAIN s |-> IF s[i].id = id THEN <<>> ELSE <<s[i]>>])

\* "if (_callback) _callback()", with the mutex held; without a callback the update
\* is over.
Notify(c) ==
    /\ mutex' = IF callback THEN c ELSE Nobody
    /\ UNCHANGED callback

CallbackKeepsLock(c) ==
    /\ mutex = c
    /\ UNCHANGED <<book, mutex, callback>>

CallbackReturns(c) ==
    /\ mutex = c
    /\ mutex' = Nobody
    /\ UNCHANGED <<book, callback>>

Upsert(c, side, o) ==
    /\ mutex = Nobody
    /\ \E s \in Sorted(side, Put(book[side], o)) :
          book' = [book EXCEPT ![side] = Truncate(s)]
    /\ Notify(c)

RemoveOrder(c, side, id) ==
    /\ mutex = Nobody
    /\ book' = [book EXCEPT ![side] = Without(@, id)]
    /\ Notify(c)

\* What snapshot() returns; it waits for the mutex.
CanSnapshot == mutex = Nobody
Snapshot == book

-----------------------------------------------------------------------------
(* Properties. *)

\* The book is what its users take it for after any sequence of updates: sorted from
\* the best price, one entry per order id, and never deeper than the limit.
BookSound ==
    \A side \in Side :
        /\ InOrder(side, book[side])
        /\ \A i, j \in DOMAIN book[side] : book[side][i].id = book[side][j].id => i = j
        /\ Len(book[side]) <= MaxLevels
=============================================================================
