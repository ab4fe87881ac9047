------------------------ MODULE MatchingEngineProofs ------------------------
(***************************************************************************)
(* Theorems about MatchingEngine, for any pool, symbols, books, prices and *)
(* quantities and any number of orders: no quantity is lost, no slot of the*)
(* pool is in two places, and a fill uses the oldest resting order.        *)
(***************************************************************************)
EXTENDS MatchingEngine, DataTheorems

InUse == Handle \ free

\* The shapes of the variables.
Shape ==
    /\ free \subseteq Handle
    /\ order \in [Handle -> OrderType \cup {[id |-> 0]}]
    /\ books \in [Book -> [Side -> Seq(Handle)]]
    /\ incoming \in Handle \cup {NoHandle}
    /\ i \in Nat \ {0}
    /\ accepted \in Seq(Ticket)
    /\ filled \in Seq(Nat) /\ Len(filled) = Len(accepted)
    /\ dropped \in Nat

\* A slot in use holds what is left of an accepted order.
HoldsOrder(h) ==
    LET n == order[h].id
    IN /\ order[h] \in OrderType
       /\ n \in 1 .. Len(accepted)
       /\ order[h].symbol = accepted[n].symbol
       /\ order[h].side = accepted[n].side
       /\ order[h].price = accepted[n].price
       /\ filled[n] + order[h].quantity = accepted[n].quantity

SlotsHoldOrders ==
    /\ \A h \in InUse : HoldsOrder(h)
    /\ \A h, k \in InUse : order[h].id = order[k].id => h = k

\* An order that no slot holds any more has been filled.
GoneIsFilled ==
    \A n \in 1 .. Len(accepted) :
        (\A h \in InUse : order[h].id # n) => filled[n] = accepted[n].quantity

\* The order being matched is the youngest, and the index stays at the front: a
\* resting order that is left in the book uses up the incoming one.
IncomingSound ==
    incoming # NoHandle =>
        /\ incoming \in InUse
        /\ i = 1
        /\ order[incoming].id = Len(accepted)
        /\ order[incoming].quantity = 0 => accepted[Len(accepted)].quantity = 0

\* The slot at a place of a book is in use, and there by right.
RestsAt(b, side, p) ==
    LET h == books[b][side][p]
    IN /\ h \in InUse /\ h # incoming
       /\ Hash[order[h].symbol] = b /\ order[h].side = side
       /\ order[h].quantity > 0

BooksSound ==
    \A b \in Book, side \in Side :
        /\ \A p \in 1 .. Len(books[b][side]) : RestsAt(b, side, p)
        /\ \A p, q \in 1 .. Len(books[b][side]) :
              p < q => order[books[b][side][p]].id < order[books[b][side][q]].id

\* A slot in use that no book holds and that is not being matched is a leaked one.
Leaked(h) == accepted[order[h].id].quantity = 0

SlotsAccounted ==
    \A h \in InUse :
        \/ h = incoming \/ Leaked(h)
        \/ \E b \in Book, side \in Side : \E p \in 1 .. Len(books[b][side]) :
              books[b][side][p] = h

\* The inductive invariant.
IInv ==
    /\ Shape /\ SlotsHoldOrders /\ GoneIsFilled /\ IncomingSound /\ BooksSound
    /\ SlotsAccounted
-----------------------------------------------------------------------------
\* Erasing the first place of a sequence moves the others up by one.
LEMMA EraseFirst ==
  ASSUME NEW S, NEW s \in Seq(S), Len(s) >= 1
  PROVE  /\ Erase(s, 1) \in Seq(S)
         /\ Len(Erase(s, 1)) = Len(s) - 1
         /\ \A j \in 1 .. Len(s) - 1 : Erase(s, 1)[j] = s[j + 1]
<1> DEFINE rest == SubSeq(s, 2, Len(s))
<1>1. SubSeq(s, 1, 0) = <<>>
  BY SubSeqEmpty
<1>2. \A j \in 2 .. Len(s) : s[j] \in S
  BY ElementOfSeq
<1>3. /\ rest \in Seq(S) /\ Len(rest) = Len(s) - 1
      /\ \A j \in 1 .. Len(s) - 1 : rest[j] = s[j + 1]
  <2>1. Len(s) \in Nat /\ 2 \in Int
    OBVIOUS
  <2>2. /\ rest \in Seq(S)
        /\ Len(rest) = IF 2 <= Len(s) THEN Len(s) - 2 + 1 ELSE 0
        /\ \A j \in 1 .. Len(s) - 2 + 1 : rest[j] = s[2 + j - 1]
    BY <1>2, <2>1, SubSeqProperties
  <2>3. \A j \in 1 .. Len(s) - 1 : j \in 1 .. Len(s) - 2 + 1 /\ 2 + j - 1 = j + 1
    BY <2>1
  <2> HIDE DEF rest
  <2>4. Len(rest) = Len(s) - 1
    <3>1. CASE Len(s) = 1
      BY <2>2, <3>1
    <3>2. CASE Len(s) >= 2
      BY <2>1, <2>2, <3>2
    <3>3. PICK n \in Nat : n = Len(s) /\ n >= 1
      BY <2>1
    <3>4. n = 1 \/ n >= 2
      BY <3>3
    <3>5. QED
      BY <3>1, <3>2, <3>3, <3>4, Zenon
  <2>5. ASSUME NEW j \in 1 .. Len(s) - 1 PROVE rest[j] = s[j + 1]
    <3>1. rest[j] = s[2 + j - 1] /\ 2 + j - 1 = j + 1
      BY <2>2, <2>3
    <3>2. QED
      BY <3>1
  <2>6. QED
    BY <2>2, <2>4, <2>5
<1>4. Erase(s, 1) = <<>> \o rest
  BY <1>1 DEF Erase, RemoveAt
<1>5. Erase(s, 1) = rest
  BY <1>3, <1>4, ConcatEmptySeq
<1>6. QED
  BY <1>3, <1>5

\* FillQty is the smaller of the two quantities.
LEMMA FillQtyProperties ==
  ASSUME NEW in, NEW resting, in.quantity \in Nat, resting.quantity \in Nat
  PROVE  /\ FillQty(in, resting) \in Nat
         /\ FillQty(in, resting) <= in.quantity
         /\ FillQty(in, resting) <= resting.quantity
         /\ FillQty(in, resting) = in.quantity \/ FillQty(in, resting) = resting.quantity
<1> DEFINE a == in.quantity
           b == resting.quantity
<1>1. \E x \in {a, b} : \A y \in {a, b} : x =< y
  OBVIOUS
<1>2. QED
  BY <1>1 DEF FillQty, Min

\* The invariant holds in an engine that has just been constructed.
LEMMA InitIInv == Init => IInv
<1>1. SUFFICES ASSUME Init PROVE IInv
  OBVIOUS
<1>2. books \in [Book -> [Side -> Seq(Handle)]] /\ accepted = <<>> /\ filled = <<>>
  BY <1>1 DEF Init
<1>3. Shape
  BY <1>1, <1>2 DEF Init, Shape
<1>4. SlotsHoldOrders /\ GoneIsFilled /\ IncomingSound /\ SlotsAccounted
  BY <1>1 DEF Init, SlotsHoldOrders, GoneIsFilled, IncomingSound, SlotsAccounted, InUse
<1>5. BooksSound
  BY <1>1 DEF Init, BooksSound
<1>6. QED
  BY <1>3, <1>4, <1>5 DEF IInv

\* A dropped order leaves no trace.
LEMMA DropIInv ==
  ASSUME IInv, Drop
  PROVE  IInv'
<1>1. dropped' \in Nat /\ UNCHANGED <<order, free, books, incoming, i, accepted, filled>>
  BY DEF Drop, IInv, Shape
<1>2. QED
  BY <1>1 DEF IInv, Shape, SlotsHoldOrders, GoneIsFilled, IncomingSound, BooksSound,
              SlotsAccounted, InUse, HoldsOrder, RestsAt, Leaked

\* submitOrder puts the youngest order into a slot that was free.
LEMMA AcceptIInv ==
  ASSUME IInv, NEW t \in Ticket, NEW h \in Handle, Accept(t, h)
  PROVE  IInv'
<1> DEFINE n == Len(accepted) + 1
           new == [id |-> n, symbol |-> t.symbol, side |-> t.side,
                   price |-> t.price, quantity |-> t.quantity]
<1>1. /\ incoming = NoHandle /\ h \in free /\ free' = free \ {h}
      /\ order' = [order EXCEPT ![h] = new]
      /\ incoming' = h /\ i' = 1
      /\ accepted' = Append(accepted, t) /\ filled' = Append(filled, 0)
      /\ UNCHANGED <<books, dropped>>
  BY DEF Accept
<1>2. Len(accepted) \in Nat /\ n \in Nat \ {0}
  BY DEF IInv, Shape
<1>3. new \in OrderType
  BY <1>2, AmountAssumption DEF OrderType, Ticket
<1>4. /\ accepted' \in Seq(Ticket) /\ filled' \in Seq(Nat)
      /\ Len(accepted') = n /\ Len(filled') = n
      /\ accepted'[n] = t /\ filled'[n] = 0
      /\ \A m \in 1 .. Len(accepted) : accepted'[m] = accepted[m] /\ filled'[m] = filled[m]
  BY <1>1 DEF IInv, Shape
<1>5. order'[h] = new /\ \A k \in Handle \ {h} : order'[k] = order[k]
  BY <1>1 DEF IInv, Shape
<1>6. InUse' = InUse \cup {h} /\ h \notin InUse
  BY <1>1 DEF InUse
<1>7. Shape'
  BY <1>1, <1>2, <1>3, <1>4 DEF IInv, Shape
<1>8. \A k \in InUse : HoldsOrder(k) /\ order'[k] = order[k] /\ order[k].id \in 1 .. Len(accepted)
  BY <1>5, <1>6 DEF IInv, SlotsHoldOrders, HoldsOrder, InUse
<1>9. SlotsHoldOrders'
  <2>1. \A k \in InUse : HoldsOrder(k)'
    BY <1>2, <1>4, <1>8, SMTT(60) DEF HoldsOrder
  <2>2. HoldsOrder(h)'
    <3>1. t.quantity \in Nat
      BY AmountAssumption DEF Ticket
    <3>2. /\ order'[h].id = n /\ order'[h].symbol = t.symbol /\ order'[h].side = t.side
          /\ order'[h].price = t.price /\ order'[h].quantity = t.quantity
          /\ order'[h] \in OrderType
      BY <1>3, <1>5
    <3>3. QED
      BY <1>2, <1>4, <3>1, <3>2 DEF HoldsOrder
  <2>3. \A k \in InUse : order'[k].id # order'[h].id
    BY <1>2, <1>5, <1>8
  <2>4. QED
    BY <1>6, <1>8, <2>1, <2>2, <2>3 DEF IInv, SlotsHoldOrders
<1>10. GoneIsFilled'
  <2>1. SUFFICES ASSUME NEW m \in 1 .. n, \A k \in InUse' : order'[k].id # m
                 PROVE  filled'[m] = accepted'[m].quantity
    BY <1>4 DEF GoneIsFilled
  <2>2. m # n
    BY <1>5, <1>6, <2>1
  <2>3. m \in 1 .. Len(accepted)
    BY <1>2, <2>2
  <2>4. \A k \in InUse : order[k].id # m
    BY <1>6, <1>8, <2>1
  <2>5. QED
    BY <1>4, <2>3, <2>4 DEF IInv, GoneIsFilled
<1>11. IncomingSound'
  BY <1>1, <1>4, <1>5, <1>6 DEF IncomingSound
<1>12. BooksSound'
  BY <1>1, <1>6, <1>8 DEF IInv, BooksSound, RestsAt
<1>13. SlotsAccounted'
  <2>1. \A k \in InUse : k # incoming /\ (Leaked(k) => Leaked(k)')
    BY <1>1, <1>4, <1>8, HandleAssumption DEF Leaked, InUse
  <2>2. QED
    BY <1>1, <1>6, <2>1 DEF IInv, SlotsAccounted
<1>14. QED
  BY <1>7, <1>9, <1>10, <1>11, <1>12, <1>13 DEF IInv

\* What is left of the order comes to rest behind the older ones.
LEMMA EndMatchIInv ==
  ASSUME IInv, EndMatch
  PROVE  IInv'
<1>1. PICK h \in InUse, b \in Book, side \in Side :
        h = incoming /\ b = BookOf(order[h]) /\ side = order[h].side
  <2>1. incoming \in InUse /\ order[incoming] \in OrderType
    BY DEF EndMatch, IInv, IncomingSound, SlotsHoldOrders, HoldsOrder
  <2>2. QED
    BY <2>1, HashAssumption DEF OrderType, BookOf
<1>2. /\ h # NoHandle /\ incoming' = NoHandle
      /\ UNCHANGED <<order, free, i, accepted, filled, dropped>>
      /\ books' = IF order[h].quantity > 0
                    THEN [books EXCEPT ![b][side] = Append(@, h)] ELSE books
  BY <1>1 DEF EndMatch, PushBack
<1>3. /\ h \in Handle /\ order[h].id = Len(accepted)
      /\ order[h].quantity = 0 => Leaked(h)
  BY <1>1, <1>2 DEF IInv, IncomingSound, Leaked, InUse
<1>4. order[h].quantity \in Nat
  BY <1>1 DEF IInv, SlotsHoldOrders, HoldsOrder, OrderType
<1>5. books[b][side] \in Seq(Handle)
  BY DEF IInv, Shape
<1>6. InUse' = InUse
  BY <1>2 DEF InUse
<1>7. SlotsHoldOrders' /\ GoneIsFilled'
  BY <1>2, <1>6 DEF IInv, SlotsHoldOrders, HoldsOrder, GoneIsFilled
<1>8. IncomingSound'
  BY <1>2 DEF IncomingSound
<1>0. ASSUME NEW c \in Book, NEW sd \in Side,
             NEW p \in 1 .. Len(books[c][sd]), books'[c][sd][p] = books[c][sd][p]
      PROVE  RestsAt(c, sd, p)'
  <2>1. RestsAt(c, sd, p)
    BY DEF IInv, BooksSound
  <2>2. QED
    BY <1>0, <1>2, <1>6, <2>1, HandleAssumption DEF RestsAt, InUse
<1>9. CASE order[h].quantity = 0
  <2>1. books' = books
    BY <1>2, <1>9
  <2>2. Shape'
    BY <1>2, <2>1 DEF IInv, Shape
  <2>3. BooksSound'
    BY <1>0, <1>2, <2>1 DEF IInv, BooksSound
  <2>4. SlotsAccounted'
    BY <1>1, <1>2, <1>3, <1>6, <1>9, <2>1 DEF IInv, SlotsAccounted, Leaked
  <2>5. QED
    BY <1>7, <1>8, <2>2, <2>3, <2>4 DEF IInv
<1>10. CASE order[h].quantity > 0
  <2>1. books' = [books EXCEPT ![b][side] = Append(@, h)]
    BY <1>2, <1>10
  <2>2. /\ Append(books[b][side], h) \in Seq(Handle)
        /\ Len(Append(books[b][side], h)) = Len(books[b][side]) + 1
        /\ Append(books[b][side], h)[Len(books[b][side]) + 1] = h
        /\ \A p \in 1 .. Len(books[b][side]) :
              Append(books[b][side], h)[p] = books[b][side][p]
    BY <1>3, <1>5
  <2>3. books'[b][side] = Append(books[b][side], h)
    BY <2>1 DEF IInv, Shape
  <2>4. \A c \in Book, sd \in Side : c # b \/ sd # side => books'[c][sd] = books[c][sd]
    BY <2>1 DEF IInv, Shape
  <2>5. Shape'
    BY <1>2, <2>1, <2>2 DEF IInv, Shape
  <2>6. Len(books[b][side]) \in Nat
    BY <1>5
  <2>7. BooksSound'
    <3>2. ASSUME NEW c \in Book, NEW sd \in Side, c # b \/ sd # side
          PROVE  /\ \A p \in 1 .. Len(books'[c][sd]) : RestsAt(c, sd, p)'
                 /\ \A p, q \in 1 .. Len(books'[c][sd]) :
                      p < q => order'[books'[c][sd][p]].id < order'[books'[c][sd][q]].id
      <4>1. books'[c][sd] = books[c][sd] /\ order' = order
        BY <1>2, <2>4, <3>2
      <4>2. QED
        BY <1>0, <4>1 DEF IInv, BooksSound
    <3>3. \A p \in 1 .. Len(books'[b][side]) : RestsAt(b, side, p)'
      <4>1. SUFFICES ASSUME NEW p \in 1 .. Len(books'[b][side])
                     PROVE  RestsAt(b, side, p)'
        OBVIOUS
      <4>2. CASE p = Len(books[b][side]) + 1
        <5>1. books'[b][side][p] = h
          BY <2>2, <2>3, <4>2
        <5>2. QED
          <6>1. /\ h \in InUse' /\ h # incoming' /\ order' = order
                /\ Hash[order[h].symbol] = b /\ order[h].side = side
            BY <1>1, <1>2, <1>6 DEF BookOf
          <6>2. QED
            BY <1>10, <5>1, <6>1 DEF RestsAt
      <4>3. CASE p # Len(books[b][side]) + 1
        <5>1. p \in 1 .. Len(books[b][side])
          BY <2>2, <2>3, <2>6, <4>3
        <5>2. QED
          BY <1>0, <2>2, <2>3, <5>1
      <4>4. QED
        BY <4>2, <4>3
    <3>4. ASSUME NEW p \in 1 .. Len(books'[b][side]), NEW q \in 1 .. Len(books'[b][side]),
                 p < q
          PROVE  order'[books'[b][side][p]].id < order'[books'[b][side][q]].id
      <4>1. p \in 1 .. Len(books[b][side]) /\ books'[b][side][p] = books[b][side][p]
        BY <2>2, <2>3, <2>6, <3>4
      <4>2. CASE q = Len(books[b][side]) + 1
        <5>1. books'[b][side][q] = h
          BY <2>2, <2>3, <4>2
        <5>2. books[b][side][p] \in InUse /\ books[b][side][p] # h
          BY <1>1, <4>1 DEF IInv, BooksSound, RestsAt
        <5>3. order[books[b][side][p]].id # order[h].id
          BY <1>1, <5>2 DEF IInv, SlotsHoldOrders
        <5>4. order[books[b][side][p]].id \in 1 .. Len(accepted)
          BY <5>2 DEF IInv, SlotsHoldOrders, HoldsOrder
        <5>5. QED
          BY <1>2, <1>3, <4>1, <5>1, <5>3, <5>4, SMTT(60) DEF IInv, Shape
      <4>3. CASE q # Len(books[b][side]) + 1
        <5>1. q \in 1 .. Len(books[b][side]) /\ books'[b][side][q] = books[b][side][q]
          BY <2>2, <2>3, <2>6, <4>3
        <5>2. QED
          BY <1>2, <3>4, <4>1, <5>1 DEF IInv, BooksSound
      <4>4. QED
        BY <4>2, <4>3
    <3>5. QED
      BY <3>2, <3>3, <3>4 DEF BooksSound
  <2>8. SlotsAccounted'
    <3>1. SUFFICES ASSUME NEW k \in InUse
                   PROVE  \/ k = incoming' \/ Leaked(k)'
                          \/ \E c \in Book, sd \in Side :
                               \E p \in 1 .. Len(books'[c][sd]) : books'[c][sd][p] = k
      BY <1>6 DEF SlotsAccounted
    <3>2. CASE k = h
      <4>1. /\ Len(books[b][side]) + 1 \in 1 .. Len(books'[b][side])
            /\ books'[b][side][Len(books[b][side]) + 1] = k
        BY <2>2, <2>3, <2>6, <3>2
      <4>2. QED
        BY <4>1
    <3>3. CASE Leaked(k)
      BY <1>2, <3>3 DEF Leaked
    <3>4. CASE \E c \in Book, sd \in Side : \E p \in 1 .. Len(books[c][sd]) : books[c][sd][p] = k
      <4>1. PICK c \in Book, sd \in Side : \E p \in 1 .. Len(books[c][sd]) : books[c][sd][p] = k
        BY <3>4
      <4>2. PICK p \in 1 .. Len(books[c][sd]) : books[c][sd][p] = k
        BY <4>1
      <4>3. p \in 1 .. Len(books'[c][sd]) /\ books'[c][sd][p] = k
        <5>1. CASE c = b /\ sd = side
          BY <2>2, <2>3, <2>6, <4>2, <5>1, SMTT(60)
        <5>2. CASE c # b \/ sd # side
          BY <2>4, <4>2, <5>2
        <5>3. QED
          BY <5>1, <5>2
      <4>4. QED
        BY <4>3
    <3>5. QED
      BY <1>1, <3>2, <3>3, <3>4 DEF IInv, SlotsAccounted
  <2>9. QED
    BY <1>7, <1>8, <2>5, <2>7, <2>8 DEF IInv
<1>11. QED
  BY <1>4, <1>9, <1>10

\* A round of the loop, with its values named: in is filled by r with q shares.  r is
\* the first order on side sd of book b.
FillOf(in, r, q, b, sd) ==
    /\ in = incoming /\ b = BookOf(order[in]) /\ sd = Opposite(order[in].side)
    /\ Len(books[b][sd]) >= 1 /\ r = books[b][sd][1]
    /\ Crosses(order[in], order[r])
    /\ q <= order[in].quantity /\ q <= order[r].quantity
    /\ q = order[in].quantity \/ q = order[r].quantity
    /\ order' = [order EXCEPT ![in].quantity = @ - q, ![r].quantity = @ - q]
    /\ filled' = [filled EXCEPT ![order[in].id] = @ + q, ![order[r].id] = @ + q]
    /\ free' = free \cup {h \in {r, in} : order[h].quantity = q}
    /\ books' = IF order[r].quantity = q THEN [books EXCEPT ![b][sd] = Erase(@, 1)] ELSE books
    /\ i' = IF order[r].quantity = q THEN 1 ELSE 2
    /\ incoming' = IF order[in].quantity = q THEN NoHandle ELSE in
    /\ UNCHANGED <<accepted, dropped>>

\* Every fill is such a round: the index is at the front, and the two orders differ.
LEMMA FillNamed ==
  ASSUME IInv, Fill
  PROVE  \E in \in InUse, r \in InUse, q \in Nat, b \in Book, sd \in Side :
            r # in /\ FillOf(in, r, q, b, sd)
<1>1. PICK in \in InUse : in = incoming
  BY DEF Fill, IInv, IncomingSound
<1>2. in \in Handle /\ order[in] \in OrderType /\ i = 1
  BY <1>1 DEF Fill, IInv, IncomingSound, SlotsHoldOrders, HoldsOrder, InUse
<1>3. PICK b \in Book, sd \in Side : b = BookOf(order[in]) /\ sd = Opposite(order[in].side)
  BY <1>2, HashAssumption DEF OrderType, BookOf, Opposite, Side
<1>4. OppositeSide = books[b][sd]
  BY <1>1, <1>3 DEF OppositeSide
<1>5. Len(books[b][sd]) >= 1 /\ Crosses(order[in], order[books[b][sd][1]])
  BY <1>1, <1>2, <1>4 DEF Fill, CanFill
<1>6. PICK r \in InUse : r = books[b][sd][1] /\ r # in
  BY <1>1, <1>5 DEF IInv, Shape, BooksSound, RestsAt
<1>7. order[r] \in OrderType /\ r \in Handle
  BY DEF IInv, SlotsHoldOrders, HoldsOrder, InUse
<1>8. order[in].quantity \in Nat /\ order[r].quantity \in Nat
  BY <1>2, <1>7 DEF OrderType
<1>9. PICK q \in Nat : q = FillQty(order[in], order[r])
  BY <1>8, FillQtyProperties
<1>10. /\ q <= order[in].quantity /\ q <= order[r].quantity
       /\ q = order[in].quantity \/ q = order[r].quantity
  BY <1>8, <1>9, FillQtyProperties
<1> DEFINE left == [order EXCEPT ![in].quantity = @ - q, ![r].quantity = @ - q]
<1>11. TakeFromBoth(r, q) = left
  BY <1>1 DEF TakeFromBoth
<1>12. left[in].quantity = order[in].quantity - q /\ left[r].quantity = order[r].quantity - q
  BY <1>2, <1>6, <1>7 DEF IInv, Shape, OrderType
<1>13. /\ left[in].quantity = 0 <=> order[in].quantity = q
       /\ left[r].quantity = 0 <=> order[r].quantity = q
  BY <1>8, <1>12
<1> HIDE DEF left
<1>14. /\ order' = left
       /\ filled' = ReportToBoth(r, q)
       /\ free' = free \cup {h \in {r, in} : left[h].quantity = 0}
       /\ books' = IF left[r].quantity = 0
                     THEN [books EXCEPT ![b][sd] = Erase(@, 1)] ELSE books
       /\ i' = IF left[r].quantity = 0 THEN 1 ELSE 2
       /\ incoming' = IF left[in].quantity = 0 THEN NoHandle ELSE in
       /\ UNCHANGED <<accepted, dropped>>
  <2>1. /\ OppositeSide[i] = r /\ i = 1 /\ incoming = in
        /\ BookOf(order[incoming]) = b /\ Opposite(order[incoming].side) = sd
        /\ FillQty(order[in], order[r]) = q
    BY <1>1, <1>2, <1>3, <1>4, <1>6, <1>9
  <2>2. order' = left /\ filled' = ReportToBoth(r, q) /\ UNCHANGED <<accepted, dropped>>
    BY <1>11, <2>1 DEF Fill
  <2>3. free' = free \cup {h \in {r, in} : left[h].quantity = 0}
    BY <1>11, <2>1 DEF Fill
  <2>4. books' = IF left[r].quantity = 0
                   THEN [books EXCEPT ![b][sd] = Erase(@, 1)] ELSE books
    BY <1>11, <2>1 DEF Fill
  <2>5. /\ i' = IF left[r].quantity = 0 THEN 1 ELSE 2
        /\ incoming' = IF left[in].quantity = 0 THEN NoHandle ELSE in
    BY <1>11, <2>1 DEF Fill
  <2>6. QED
    BY <2>2, <2>3, <2>4, <2>5
<1>15. filled' = [filled EXCEPT ![order[in].id] = @ + q, ![order[r].id] = @ + q]
  BY <1>1, <1>14 DEF ReportToBoth
<1>16. {h \in {r, in} : left[h].quantity = 0} = {h \in {r, in} : order[h].quantity = q}
  BY <1>13, SMTT(60)
<1>17. FillOf(in, r, q, b, sd)
  BY <1>1, <1>3, <1>5, <1>6, <1>10, <1>13, <1>14, <1>15, <1>16, Zenon DEF FillOf, left
<1>18. QED
  BY <1>6, <1>17

\* A fill keeps the invariant.
LEMMA FillIInv ==
  ASSUME IInv, Fill
  PROVE  IInv'
<1>1. PICK in \in InUse, r \in InUse, q \in Nat, b \in Book, sd \in Side :
        r # in /\ FillOf(in, r, q, b, sd)
  BY FillNamed
<1>2. /\ in \in Handle /\ r \in Handle /\ HoldsOrder(in) /\ HoldsOrder(r)
      /\ order[in] \in OrderType /\ order[r] \in OrderType
  BY DEF IInv, SlotsHoldOrders, HoldsOrder, InUse
<1>3. PICK m \in 1 .. Len(accepted), n \in 1 .. Len(accepted) :
        m = order[in].id /\ n = order[r].id /\ m # n
  BY <1>1, <1>2, SMTT(60) DEF IInv, SlotsHoldOrders, HoldsOrder
<1>0. /\ in = incoming /\ Len(books[b][sd]) >= 1 /\ r = books[b][sd][1]
      /\ q <= order[in].quantity /\ q <= order[r].quantity
      /\ q = order[in].quantity \/ q = order[r].quantity
      /\ incoming' = IF order[in].quantity = q THEN NoHandle ELSE in
      /\ i' = IF order[r].quantity = q THEN 1 ELSE 2
      /\ UNCHANGED <<accepted, dropped>>
  BY <1>1, Zenon DEF FillOf
<1>4. order[in].quantity \in Nat /\ order[r].quantity \in Nat /\ order[r].quantity > 0
  <2>1. 1 \in 1 .. Len(books[b][sd])
    BY <1>0 DEF IInv, Shape
  <2>2. RestsAt(b, sd, 1)
    BY <2>1 DEF IInv, BooksSound
  <2>3. QED
    BY <1>0, <1>2, <2>2, SMTT(60) DEF RestsAt, OrderType
<1>5. /\ \A h \in Handle \ {in, r} : order'[h] = order[h]
      /\ \A h \in {in, r} :
            /\ order'[h] \in OrderType
            /\ order'[h].id = order[h].id /\ order'[h].symbol = order[h].symbol
            /\ order'[h].side = order[h].side /\ order'[h].price = order[h].price
            /\ order'[h].quantity = order[h].quantity - q
  <2>1. order' = [order EXCEPT ![in].quantity = @ - q, ![r].quantity = @ - q]
    BY <1>1, Zenon DEF FillOf
  <2>2. /\ \A h \in Handle \ {in, r} : order'[h] = order[h]
        /\ \A h \in {in, r} : order'[h] = [order[h] EXCEPT !.quantity = @ - q]
    BY <1>1, <1>2, <2>1 DEF IInv, Shape
  <2>3. order[in].quantity - q \in Nat /\ order[r].quantity - q \in Nat
    BY <1>0, <1>4, SMTT(60)
  <2>4. ASSUME NEW h \in {in, r}
        PROVE  /\ order'[h] \in OrderType
               /\ order'[h].id = order[h].id /\ order'[h].symbol = order[h].symbol
               /\ order'[h].side = order[h].side /\ order'[h].price = order[h].price
               /\ order'[h].quantity = order[h].quantity - q
    <3>1. order[h] \in OrderType /\ order[h].quantity - q \in Nat
      BY <1>2, <2>3
    <3>2. order'[h] = [order[h] EXCEPT !.quantity = @ - q]
      BY <2>2
    <3>3. QED
      BY <3>1, <3>2 DEF OrderType
  <2>5. QED
    BY <2>2, <2>4
<1>6. /\ filled' \in Seq(Nat) /\ Len(filled') = Len(filled) /\ accepted' = accepted
      /\ filled'[m] = filled[m] + q /\ filled'[n] = filled[n] + q
      /\ \A k \in 1 .. Len(accepted) : k # m /\ k # n => filled'[k] = filled[k]
  <2> DEFINE one == [filled EXCEPT ![m] = filled[m] + q]
  <2>1. filled \in Seq(Nat) /\ m \in 1 .. Len(filled) /\ n \in 1 .. Len(filled)
    BY <1>3 DEF IInv, Shape
  <2>2. filled[m] + q \in Nat /\ filled[n] + q \in Nat
    BY <2>1
  <2>3. /\ one \in Seq(Nat) /\ Len(one) = Len(filled)
        /\ \A k \in 1 .. Len(filled) : one[k] = IF k = m THEN filled[m] + q ELSE filled[k]
    BY <2>1, <2>2, ExceptSeq, SMTT(60)
  <2>4. filled' = [filled EXCEPT ![m] = @ + q, ![n] = @ + q]
    BY <1>1, <1>3, Zenon DEF FillOf
  <2>5. filled' = [one EXCEPT ![n] = filled[n] + q]
    BY <1>3, <2>1, <2>4
  <2> HIDE DEF one
  <2>6. /\ filled' \in Seq(Nat) /\ Len(filled') = Len(one)
        /\ \A k \in 1 .. Len(one) : filled'[k] = IF k = n THEN filled[n] + q ELSE one[k]
    <3>1. n \in 1 .. Len(one)
      BY <2>1, <2>3
    <3>2. QED
      BY <2>2, <2>3, <2>5, <3>1, ExceptSeq, SMTT(60)
  <2>7. Len(filled) = Len(accepted) /\ accepted' = accepted
    BY <1>0 DEF IInv, Shape
  <2>8. QED
    BY <1>3, <2>1, <2>3, <2>6, <2>7
<1>7. /\ InUse' = InUse \ {h \in {r, in} : order[h].quantity = q}
      /\ free' \subseteq Handle
  BY <1>1, <1>2, Zenon DEF FillOf, InUse, IInv, Shape
<1>8. /\ InUse' \subseteq InUse
      /\ \A h \in Handle : order'[h].id = order[h].id
  BY <1>5, <1>7
<1>9. /\ books[b][sd] \in Seq(Handle) /\ Len(books[b][sd]) >= 1 /\ r = books[b][sd][1]
      /\ Erase(books[b][sd], 1) \in Seq(Handle)
      /\ Len(Erase(books[b][sd], 1)) = Len(books[b][sd]) - 1
      /\ \A j \in 1 .. Len(books[b][sd]) - 1 : Erase(books[b][sd], 1)[j] = books[b][sd][j + 1]
  <2>1. books[b][sd] \in Seq(Handle) /\ Len(books[b][sd]) >= 1 /\ r = books[b][sd][1]
    BY <1>1, Zenon DEF FillOf, IInv, Shape
  <2>2. QED
    BY <2>1, EraseFirst, Zenon
<1>10. Shape'
  <2>1. order' \in [Handle -> OrderType \cup {[id |-> 0]}]
    BY <1>1, <1>2, <1>5, ZenonT(60) DEF FillOf, IInv, Shape
  <2>2. books' \in [Book -> [Side -> Seq(Handle)]]
    BY <1>1, <1>9, Zenon DEF FillOf, IInv, Shape
  <2>3. incoming' \in Handle \cup {NoHandle} /\ i' \in Nat \ {0} /\ dropped' \in Nat
    BY <1>0, <1>2 DEF IInv, Shape
  <2>4. QED
    BY <1>6, <1>7, <2>1, <2>2, <2>3, SMTT(60) DEF IInv, Shape
<1>11. SlotsHoldOrders'
  <2>1. ASSUME NEW h \in InUse PROVE HoldsOrder(h)'
    <3>1. HoldsOrder(h) /\ h \in Handle
      BY <2>1 DEF IInv, SlotsHoldOrders, InUse
    <3>2. CASE h = in
      <4>1. (filled[m] + q) + (order[in].quantity - q) = accepted[m].quantity
        BY <1>2, <1>3, <1>4, SMTT(60) DEF HoldsOrder, IInv, Shape
      <4>2. QED
        BY <1>3, <1>5, <1>6, <3>1, <3>2, <4>1 DEF HoldsOrder
    <3>3. CASE h = r
      <4>1. (filled[n] + q) + (order[r].quantity - q) = accepted[n].quantity
        BY <1>2, <1>3, <1>4, SMTT(60) DEF HoldsOrder, IInv, Shape
      <4>2. QED
        BY <1>3, <1>5, <1>6, <3>1, <3>3, <4>1 DEF HoldsOrder
    <3>4. CASE h \notin {in, r}
      <4>1. order'[h] = order[h] /\ order[h].id # m /\ order[h].id # n
        BY <1>1, <1>3, <1>5, <3>1, <3>4 DEF IInv, SlotsHoldOrders
      <4>2. QED
        BY <1>6, <3>1, <4>1 DEF HoldsOrder
    <3>5. QED
      BY <3>2, <3>3, <3>4
  <2>2. \A h, k \in InUse' : order'[h].id = order'[k].id => h = k
    BY <1>8 DEF IInv, SlotsHoldOrders, InUse
  <2>3. QED
    BY <1>8, <2>1, <2>2 DEF SlotsHoldOrders
<1>12. GoneIsFilled'
  <2>1. SUFFICES ASSUME NEW k \in 1 .. Len(accepted), \A h \in InUse' : order'[h].id # k
                 PROVE  filled'[k] = accepted[k].quantity
    BY <1>6 DEF GoneIsFilled
  <2>2. CASE k = m
    <3>1. in \notin InUse'
      BY <1>3, <1>8, <2>1, <2>2, <1>2
    <3>2. order[in].quantity = q
      BY <1>1, <1>7, <3>1
    <3>3. QED
      BY <1>2, <1>3, <1>6, <2>2, <3>2 DEF HoldsOrder
  <2>3. CASE k = n
    <3>1. r \notin InUse'
      BY <1>3, <1>8, <2>1, <2>3, <1>2
    <3>2. order[r].quantity = q
      BY <1>1, <1>7, <3>1
    <3>3. QED
      BY <1>2, <1>3, <1>6, <2>3, <3>2 DEF HoldsOrder
  <2>4. CASE k # m /\ k # n
    <3>1. \A h \in InUse : order[h].id # k
      BY <1>3, <1>7, <1>8, <2>1, <2>4 DEF InUse
    <3>2. QED
      BY <1>6, <2>4, <3>1 DEF IInv, GoneIsFilled
  <2>5. QED
    BY <2>2, <2>3, <2>4
<1>13. IncomingSound'
  <2>1. SUFFICES ASSUME incoming' # NoHandle PROVE IncomingSound'
    BY DEF IncomingSound
  <2>2. incoming' = in /\ order[in].quantity # q
    BY <1>0, <2>1
  <2>3. order[r].quantity = q /\ i' = 1
    BY <1>0, <2>2
  <2>4. in \in InUse' /\ order'[in].quantity > 0
    BY <1>0, <1>4, <1>5, <1>7, <2>2
  <2>5. order'[in].id = Len(accepted')
    <3>1. in # NoHandle
      BY <1>2, HandleAssumption
    <3>2. QED
      BY <1>0, <1>2, <1>8, <3>1 DEF IInv, IncomingSound
  <2>6. QED
    BY <1>4, <1>5, <2>2, <2>3, <2>4, <2>5 DEF IncomingSound
<1>14. ASSUME NEW c \in Book, NEW side \in Side, NEW p \in 1 .. Len(books[c][side]),
              books[c][side][p] # r \/ order[r].quantity # q
       PROVE  /\ books[c][side][p] \in InUse' /\ books[c][side][p] # incoming'
              /\ Hash[order'[books[c][side][p]].symbol] = c
              /\ order'[books[c][side][p]].side = side
              /\ order'[books[c][side][p]].quantity > 0
  <2>1. RestsAt(c, side, p)
    BY DEF IInv, BooksSound
  <2>2. PICK h \in InUse : h = books[c][side][p]
    BY <2>1, SMTT(60) DEF RestsAt
  <2>3. h # in /\ in = incoming /\ h \in Handle
    BY <1>1, <2>1, <2>2, Zenon DEF RestsAt, FillOf, InUse
  <2>4. h \in InUse' /\ h # incoming'
    BY <1>0, <1>7, <1>14, <2>2, <2>3, HandleAssumption
  <2>5. CASE h = r
    <3>1. order'[r].quantity > 0
      BY <1>0, <1>4, <1>5, <1>14, <2>2, <2>5, SMTT(60)
    <3>2. QED
      BY <1>5, <2>1, <2>2, <2>4, <2>5, <3>1 DEF RestsAt
  <2>6. CASE h # r
    BY <1>5, <2>1, <2>2, <2>3, <2>4, <2>6 DEF RestsAt
  <2>7. QED
    BY <2>5, <2>6
<1>15. CASE order[r].quantity # q
  <2>1. books' = books
    BY <1>1, <1>15, Zenon DEF FillOf
  <2>2. BooksSound'
    <3>1. ASSUME NEW c \in Book, NEW side \in Side, NEW p \in 1 .. Len(books[c][side])
          PROVE  RestsAt(c, side, p)'
      BY <1>14, <1>15, <2>1 DEF RestsAt
    <3>2. ASSUME NEW c \in Book, NEW side \in Side,
                 NEW p \in 1 .. Len(books[c][side]), NEW k \in 1 .. Len(books[c][side]), p < k
          PROVE  order'[books[c][side][p]].id < order'[books[c][side][k]].id
      <4>1. books[c][side][p] \in Handle /\ books[c][side][k] \in Handle
        BY DEF IInv, BooksSound, RestsAt, InUse
      <4>2. QED
        BY <1>8, <3>2, <4>1 DEF IInv, BooksSound
    <3>3. QED
      BY <2>1, <3>1, <3>2 DEF BooksSound
  <2>3. SlotsAccounted'
    <3>1. ASSUME NEW h \in InUse' PROVE h \in InUse /\ (h = incoming => h = incoming')
      BY <1>0, <1>7, <1>8
    <3>2. ASSUME NEW h \in InUse, Leaked(h) PROVE Leaked(h)'
      BY <1>6, <1>8, <3>2, SMTT(60) DEF Leaked, InUse
    <3>3. QED
      BY <2>1, <3>1, <3>2 DEF IInv, SlotsAccounted
  <2>4. QED
    BY <1>10, <1>11, <1>12, <1>13, <2>2, <2>3, SMTT(60) DEF IInv
<1>16. CASE order[r].quantity = q
  <2>1. books' = [books EXCEPT ![b][sd] = Erase(@, 1)]
    BY <1>1, <1>16, Zenon DEF FillOf
  <2>2. /\ books'[b][sd] = Erase(books[b][sd], 1)
        /\ \A c \in Book, side \in Side :
              c # b \/ side # sd => books'[c][side] = books[c][side]
    BY <2>1 DEF IInv, Shape
  <2>3. order[r].side = sd /\ Hash[order[r].symbol] = b
    BY <1>9 DEF IInv, BooksSound, RestsAt
  <2>4. ASSUME NEW c \in Book, NEW side \in Side, NEW p \in 1 .. Len(books'[c][side])
        PROVE  \E k \in 1 .. Len(books[c][side]) :
                  /\ books'[c][side][p] = books[c][side][k] /\ books[c][side][k] # r
                  /\ k = IF c = b /\ side = sd THEN p + 1 ELSE p
    <3>1. CASE c = b /\ side = sd
      <4>1. /\ p + 1 \in 1 .. Len(books[c][side]) /\ p + 1 > 1
            /\ books'[c][side][p] = books[c][side][p + 1]
        BY <1>9, <2>2, <3>1
      <4>2. order[books[b][sd][1]].id < order[books[b][sd][p + 1]].id
        BY <1>9, <3>1, <4>1 DEF IInv, BooksSound
      <4>3. books[c][side][p + 1] # r
        BY <1>3, <1>9, <3>1, <4>2
      <4>4. QED
        BY <3>1, <4>1, <4>3
    <3>2. CASE c # b \/ side # sd
      <4>1. p \in 1 .. Len(books[c][side]) /\ books'[c][side][p] = books[c][side][p]
        BY <2>2, <3>2
      <4>2. RestsAt(c, side, p)
        BY <4>1 DEF IInv, BooksSound
      <4>3. books[c][side][p] # r
        BY <2>3, <3>2, <4>2 DEF RestsAt
      <4>4. QED
        BY <3>2, <4>1, <4>3
    <3>3. QED
      BY <3>1, <3>2
  <2>5. BooksSound'
    <3>1. ASSUME NEW c \in Book, NEW side \in Side, NEW p \in 1 .. Len(books'[c][side])
          PROVE  RestsAt(c, side, p)'
      <4>1. PICK k \in 1 .. Len(books[c][side]) :
              books'[c][side][p] = books[c][side][k] /\ books[c][side][k] # r
        BY <2>4, Zenon
      <4>2. QED
        BY <1>14, <4>1 DEF RestsAt
    <3>2. ASSUME NEW c \in Book, NEW side \in Side, NEW p \in 1 .. Len(books'[c][side]),
                 NEW k \in 1 .. Len(books'[c][side]), p < k
          PROVE  order'[books'[c][side][p]].id < order'[books'[c][side][k]].id
      <4>1. PICK p2 \in 1 .. Len(books[c][side]) :
              /\ books'[c][side][p] = books[c][side][p2]
              /\ p2 = IF c = b /\ side = sd THEN p + 1 ELSE p
        BY <2>4, SMTT(60)
      <4>2. PICK k2 \in 1 .. Len(books[c][side]) :
              /\ books'[c][side][k] = books[c][side][k2]
              /\ k2 = IF c = b /\ side = sd THEN k + 1 ELSE k
        BY <2>4, ZenonT(60)
      <4>3. p2 < k2
        BY <3>2, <4>1, <4>2
      <4>4. books[c][side][p2] \in Handle /\ books[c][side][k2] \in Handle
        BY DEF IInv, BooksSound, RestsAt, InUse
      <4>5. QED
        BY <1>8, <4>1, <4>2, <4>3, <4>4, ZenonT(60) DEF IInv, BooksSound
    <3>3. QED
      BY <3>1, <3>2 DEF BooksSound
  <2>6. SlotsAccounted'
    <3>1. SUFFICES ASSUME NEW h \in InUse'
                   PROVE  \/ h = incoming' \/ Leaked(h)'
                          \/ \E c \in Book, side \in Side :
                               \E p \in 1 .. Len(books'[c][side]) : books'[c][side][p] = h
      BY DEF SlotsAccounted
    <3>2. h \in InUse /\ h # r /\ h \in Handle
      BY <1>7, <1>8, <1>16 DEF InUse
    <3>3. CASE h = incoming
      BY <1>1, <1>7, <3>2, <3>3, Zenon DEF FillOf
    <3>4. CASE Leaked(h)
      BY <1>6, <1>8, <3>2, <3>4 DEF Leaked
    <3>5. CASE \E c \in Book, side \in Side :
                 \E p \in 1 .. Len(books[c][side]) : books[c][side][p] = h
      <4>1. PICK c \in Book, side \in Side :
              \E p \in 1 .. Len(books[c][side]) : books[c][side][p] = h
        BY <3>5
      <4>2. PICK p \in 1 .. Len(books[c][side]) : books[c][side][p] = h
        BY <4>1
      <4>3. CASE c = b /\ side = sd
        <5>1. p # 1
          BY <1>9, <3>2, <4>2, <4>3
        <5>2. p - 1 \in 1 .. Len(books[b][sd]) - 1 /\ (p - 1) + 1 = p
          BY <1>9, <4>2, <4>3, <5>1
        <5>3. p - 1 \in 1 .. Len(books'[b][sd]) /\ books'[b][sd][p - 1] = h
          BY <1>9, <2>2, <4>2, <4>3, <5>2
        <5>4. QED
          BY <5>3
      <4>4. CASE c # b \/ side # sd
        BY <2>2, <4>2, <4>4
      <4>5. QED
        BY <4>3, <4>4
    <3>6. QED
      BY <3>2, <3>3, <3>4, <3>5 DEF IInv, SlotsAccounted
  <2>7. QED
    BY <1>10, <1>11, <1>12, <1>13, <2>5, <2>6 DEF IInv
<1>17. QED
  BY <1>15, <1>16

\* Every step keeps the invariant.
LEMMA NextIInv == IInv /\ [Next]_vars => IInv'
<1>1. SUFFICES ASSUME IInv, [Next]_vars PROVE IInv'
  OBVIOUS
<1>2. CASE Drop
  BY <1>1, <1>2, DropIInv
<1>3. CASE \E t \in Ticket, h \in Handle : Accept(t, h)
  BY <1>1, <1>3, AcceptIInv
<1>4. CASE Fill
  BY <1>1, <1>4, FillIInv
<1>5. CASE EndMatch
  BY <1>1, <1>5, EndMatchIInv
<1>6. CASE UNCHANGED vars
  BY <1>1, <1>6 DEF vars, IInv, Shape, SlotsHoldOrders, GoneIsFilled, IncomingSound, BooksSound,
                    SlotsAccounted, InUse, HoldsOrder, RestsAt, Leaked
<1>7. QED
  BY <1>1, <1>2, <1>3, <1>4, <1>5, <1>6 DEF Next, MatchOrder

\* What the invariant says of the books, in terms of the sets of resting slots.
LEMMA RestingSlots ==
  ASSUME IInv
  PROVE  /\ \A b \in Book, side \in Side :
              /\ books[b][side] \in Seq(Handle)
              /\ \A h \in Resting(b, side) :
                    \E p \in 1 .. Len(books[b][side]) : h = books[b][side][p]
         /\ \A h \in AllResting : h \in InUse /\ h # incoming
<1>1. ASSUME NEW b \in Book, NEW side \in Side
      PROVE  /\ books[b][side] \in Seq(Handle)
             /\ \A h \in Resting(b, side) :
                   \E p \in 1 .. Len(books[b][side]) : h = books[b][side][p]
  <2>1. books[b][side] \in Seq(Handle)
    BY DEF IInv, Shape
  <2>2. DOMAIN books[b][side] = 1 .. Len(books[b][side])
    BY <2>1
  <2>3. QED
    BY <2>1, <2>2 DEF Resting, ToSet
<1>2. ASSUME NEW h \in AllResting PROVE h \in InUse /\ h # incoming
  <2>1. PICK b \in Book, side \in Side : h \in Resting(b, side)
    BY DEF AllResting
  <2>2. PICK p \in 1 .. Len(books[b][side]) : h = books[b][side][p]
    BY <1>1, <2>1
  <2>3. QED
    BY <2>2 DEF IInv, BooksSound, RestsAt
<1>3. QED
  BY <1>1, <1>2

-----------------------------------------------------------------------------
\* The inductive invariant holds for every engine and any sequence of submissions.
THEOREM EngineInvariant == Spec => []IInv
  BY InitIInv, NextIInv, PTL DEF Spec

\* No quantity ever wraps below zero, and reports are of orders that exist.
THEOREM EngineTypeCorrect == Spec => []TypeOK
<1>1. IInv => TypeOK
  BY DEF IInv, Shape, TypeOK
<1>2. QED
  BY <1>1, EngineInvariant, PTL

\* What is filled and what is left of an order always make up what was submitted.
THEOREM NothingLost == Spec => []QuantityConserved
<1>1. ASSUME IInv PROVE QuantityConserved
  <2>1. SUFFICES ASSUME NEW n \in 1 .. Len(accepted)
                 PROVE  LET slots == {h \in Handle \ free : order[h].id = n}
                        IN \/ slots = {} /\ filled[n] = accepted[n].quantity
                           \/ \E h \in slots :
                                /\ slots = {h}
                                /\ filled[n] + order[h].quantity = accepted[n].quantity
    BY DEF QuantityConserved
  <2>2. CASE \A h \in InUse : order[h].id # n
    BY <1>1, <2>2 DEF IInv, GoneIsFilled, InUse
  <2>3. CASE \E h \in InUse : order[h].id = n
    <3>1. PICK h \in InUse : order[h].id = n
      BY <2>3
    <3>2. \A k \in InUse : order[k].id = n => k = h
      BY <1>1, <3>1 DEF IInv, SlotsHoldOrders
    <3>3. filled[n] + order[h].quantity = accepted[n].quantity
      BY <1>1, <3>1 DEF IInv, SlotsHoldOrders, HoldsOrder
    <3>4. {k \in Handle \ free : order[k].id = n} = {h}
      BY <3>1, <3>2 DEF InUse
    <3>5. QED
      BY <3>3, <3>4
  <2>4. QED
    BY <2>2, <2>3
<1>2. QED
  BY <1>1, EngineInvariant, PTL

\* Every slot of the pool is free, in one place of one book, being matched, or leaked
\* by an order of quantity zero.
THEOREM SlotsKept == Spec => []PoolAccounted
<1>1. ASSUME IInv PROVE PoolAccounted
  <2>1. ASSUME NEW b \in Book, NEW side \in Side
        PROVE  IsInjective(books[b][side])
    <3>1. books[b][side] \in Seq(Handle) /\ DOMAIN books[b][side] = 1 .. Len(books[b][side])
      BY <1>1, RestingSlots
    <3>2. ASSUME NEW p \in 1 .. Len(books[b][side]), NEW k \in 1 .. Len(books[b][side]),
                 books[b][side][p] = books[b][side][k]
          PROVE  p = k
      <4>1. books[b][side][p] \in InUse
        BY <1>1 DEF IInv, BooksSound, RestsAt
      <4>2. order[books[b][side][p]].id \in Nat
        BY <1>1, <4>1 DEF IInv, SlotsHoldOrders, HoldsOrder
      <4>3. ~(p < k) /\ ~(k < p)
        BY <1>1, <3>2, <4>2 DEF IInv, BooksSound
      <4>4. QED
        BY <3>1, <4>3
    <3>3. QED
      BY <3>1, <3>2 DEF IsInjective
  <2>2. ASSUME NEW b \in Book, NEW side \in Side, NEW h \in Resting(b, side)
        PROVE  BookOf(order[h]) = b /\ order[h].side = side /\ order[h].quantity > 0
    <3>1. PICK p \in 1 .. Len(books[b][side]) : h = books[b][side][p]
      BY <1>1, RestingSlots
    <3>2. QED
      BY <1>1, <3>1 DEF IInv, BooksSound, RestsAt, BookOf
  <2>3. AllResting \cap free = {} /\ incoming \notin AllResting
    BY <1>1, RestingSlots DEF InUse
  <2>4. incoming \notin free
    BY <1>1, HandleAssumption DEF IInv, Shape, IncomingSound, InUse
  <2>5. ASSUME NEW h \in Handle \ (AllResting \cup free \cup {incoming})
        PROVE  accepted[order[h].id].quantity = 0
    <3>1. h \in InUse /\ h # incoming
      BY DEF InUse
    <3>2. ~\E b \in Book, side \in Side : \E p \in 1 .. Len(books[b][side]) :
             books[b][side][p] = h
      <4>1. SUFFICES ASSUME NEW b \in Book, NEW side \in Side,
                            NEW p \in 1 .. Len(books[b][side]), books[b][side][p] = h
                     PROVE  FALSE
        OBVIOUS
      <4>2. p \in DOMAIN books[b][side]
        BY <1>1, RestingSlots
      <4>3. h \in Resting(b, side)
        BY <4>1, <4>2 DEF Resting, ToSet
      <4>4. QED
        BY <4>3 DEF AllResting
    <3>3. QED
      BY <1>1, <3>1, <3>2 DEF IInv, SlotsAccounted, Leaked
  <2>6. QED
    BY <2>1, <2>2, <2>3, <2>4, <2>5 DEF PoolAccounted
<1>2. QED
  BY <1>1, EngineInvariant, PTL

\* A fill uses the resting order that has waited longest on its side of the book, at
\* a price that the incoming order reaches.
THEOREM TimePriority == Spec => OldestFilledFirst
<1>1. ASSUME IInv, [Next]_vars
      PROVE  [\A n \in DOMAIN filled :
                 filled'[n] # filled[n] /\ n # order[incoming].id =>
                    /\ \A h \in ToSet(OppositeSide) : n <= order[h].id
                    /\ Crosses(accepted[order[incoming].id], accepted[n])]_vars
  <2>1. SUFFICES ASSUME Next, NEW n \in DOMAIN filled, filled'[n] # filled[n],
                        n # order[incoming].id
                 PROVE  /\ \A h \in ToSet(OppositeSide) : n <= order[h].id
                        /\ Crosses(accepted[order[incoming].id], accepted[n])
    BY <1>1
  <2>2. filled \in Seq(Nat) /\ n \in 1 .. Len(filled)
    BY <1>1 DEF IInv, Shape
  <2>3. ~\E t \in Ticket, h \in Handle : Accept(t, h)
    <3>1. Append(filled, 0)[n] = filled[n]
      BY <2>2
    <3>2. QED
      BY <2>1, <3>1, Zenon DEF Accept
  <2>4. ~Drop /\ ~EndMatch
    BY <2>1 DEF Drop, EndMatch
  <2>5. Fill
    BY <2>1, <2>3, <2>4 DEF Next, MatchOrder
  <2>6. PICK in \in InUse, r \in InUse, q \in Nat, b \in Book, sd \in Side :
          r # in /\ FillOf(in, r, q, b, sd)
    BY <1>1, <2>5, FillNamed, SMTT(60)
  <2>7. /\ in = incoming /\ OppositeSide = books[b][sd]
        /\ Len(books[b][sd]) >= 1 /\ r = books[b][sd][1]
        /\ Crosses(order[in], order[r])
        /\ filled' = [filled EXCEPT ![order[in].id] = @ + q, ![order[r].id] = @ + q]
    BY <2>6, Zenon DEF FillOf, OppositeSide
  <2>8. n = order[r].id
    BY <2>1, <2>2, <2>7, SMTT(60)
  <2>9. HoldsOrder(in) /\ HoldsOrder(r)
    BY <1>1, <2>6 DEF IInv, SlotsHoldOrders
  <2>10. Crosses(accepted[order[incoming].id], accepted[n])
    BY <2>7, <2>8, <2>9, Zenon DEF HoldsOrder, Crosses
  <2>11. ASSUME NEW h \in ToSet(OppositeSide) PROVE n <= order[h].id
    <3>1. h \in Resting(b, sd) /\ books[b][sd] \in Seq(Handle)
      BY <1>1, <2>7, RestingSlots DEF Resting
    <3>2. PICK p \in 1 .. Len(books[b][sd]) : h = books[b][sd][p]
      BY <1>1, <3>1, RestingSlots
    <3>3. CASE p = 1
      BY <2>2, <2>7, <2>8, <3>2, <3>3
    <3>4. CASE p # 1
      <4>1. 1 \in 1 .. Len(books[b][sd]) /\ 1 < p
        BY <3>1, <3>2, <3>4
      <4>2. order[books[b][sd][1]].id < order[books[b][sd][p]].id
        BY <1>1, <3>2, <4>1 DEF IInv, BooksSound
      <4>3. h \in InUse
        BY <1>1, <3>2 DEF IInv, BooksSound, RestsAt
      <4>4. order[h].id \in Nat
        BY <1>1, <4>3 DEF IInv, SlotsHoldOrders, HoldsOrder
      <4>5. QED
        BY <2>2, <2>7, <2>8, <3>2, <4>2, <4>4, SMTT(60)
    <3>5. QED
      BY <3>3, <3>4
  <2>12. QED
    BY <2>10, <2>11
<1>2. QED
  BY <1>1, EngineInvariant, PTL DEF Spec, OldestFilledFirst

-----------------------------------------------------------------------------
(* Buyers and sellers. *)

\* The orders accepted on a side.
Ids(side) == {n \in 1 .. Len(accepted) : accepted[n].side = side}

\* What was filled on a side.
FilledOn(side) == SumOver(filled, Ids(side))

FilledEqually == FilledOn("buy") = FilledOn("sell")

LEMMA FilledAre == FilledEqually => BuysEqualSells
  BY DEF BuysEqualSells, FilledEqually, FilledOn, SumOver, Ids

LEMMA IdsFinite ==
  ASSUME Shape, NEW side
  PROVE  /\ IsFiniteSet(Ids(side)) /\ Ids(side) \subseteq 1 .. Len(accepted)
         /\ \A n \in Ids(side) : filled[n] \in Int
         /\ FilledOn(side) \in Int
<1>1. Ids(side) \subseteq 1 .. Len(accepted)
  BY DEF Ids
<1>2. IsFiniteSet(1 .. Len(accepted)) /\ Len(accepted) \in Nat
  BY FS_Interval DEF Shape
<1>3. IsFiniteSet(Ids(side))
  BY <1>1, <1>2, FS_Subset
<1>4. \A n \in Ids(side) : filled[n] \in Int
  BY <1>1 DEF Shape
<1>5. QED
  BY <1>1, <1>3, <1>4, SumInt DEF FilledOn

\* A new order is not filled yet.
LEMMA AcceptFilled ==
  ASSUME Shape, Shape', NEW t \in Ticket, NEW h \in Handle, Accept(t, h), NEW side
  PROVE  FilledOn(side)' = FilledOn(side)
<1>1. PICK n \in Nat : n = Len(accepted)
  BY DEF Shape
<1>2. accepted \in Seq(Ticket) /\ filled \in Seq(Nat) /\ Len(filled) = n
  BY <1>1 DEF Shape
<1>3. accepted' = Append(accepted, t) /\ filled' = Append(filled, 0)
  BY DEF Accept
<1>4. /\ Len(accepted') = n + 1 /\ accepted'[n + 1] = t
      /\ \A m \in 1 .. n : accepted'[m] = accepted[m]
  BY <1>1, <1>2, <1>3, AppendProperties
<1>5. /\ filled'[n + 1] = 0
      /\ \A m \in 1 .. n : filled'[m] = filled[m]
  BY <1>2, <1>3, AppendProperties
<1>6. n + 1 \notin Ids(side)
  BY <1>1 DEF Ids
<1>7. /\ IsFiniteSet(Ids(side)) /\ \A m \in Ids(side) : m \in 1 .. n
      /\ FilledOn(side) \in Int
  BY <1>1, IdsFinite
<1>8. SumOver(filled', Ids(side)) = FilledOn(side)
  BY <1>5, <1>7, SumSame DEF FilledOn
<1>9. CASE t.side = side
  <2>1. Ids(side)' = Ids(side) \cup {n + 1}
    BY <1>1, <1>4, <1>9 DEF Ids
  <2>2. IsFiniteSet(Ids(side)') /\ \A m \in Ids(side)' : filled'[m] \in Int
    <3>1. IsFiniteSet(Ids(side)')
      BY <1>7, <2>1, FS_AddElement
    <3>2. \A m \in Ids(side)' : m \in 1 .. Len(accepted')
      BY DEF Ids
    <3>3. QED
      BY <3>1, <3>2 DEF Shape
  <2>3. n + 1 \in Ids(side)' /\ Ids(side)' \ {n + 1} = Ids(side)
    BY <1>6, <2>1
  <2>4. SumOver(filled', Ids(side)') = filled'[n + 1] + SumOver(filled', Ids(side))
    BY <2>2, <2>3, SumRemove
  <2>5. QED
    BY <1>5, <1>7, <1>8, <2>4 DEF FilledOn
<1>10. CASE t.side # side
  <2>1. Ids(side)' = Ids(side)
    BY <1>1, <1>4, <1>10 DEF Ids
  <2>2. QED
    BY <1>8, <2>1 DEF FilledOn
<1>11. QED
  BY <1>9, <1>10

\* A fill adds the same quantity on both sides.
LEMMA FillFilled ==
  ASSUME IInv, Fill
  PROVE  \E q \in Nat : \A side \in Side : FilledOn(side)' = FilledOn(side) + q
<1>1. PICK in \in InUse, r \in InUse, q \in Nat, b \in Book, sd \in Side :
        r # in /\ FillOf(in, r, q, b, sd)
  BY FillNamed, SMTT(60)
<1>2. /\ in = incoming /\ sd = Opposite(order[in].side)
      /\ Len(books[b][sd]) >= 1 /\ r = books[b][sd][1]
      /\ filled' = [filled EXCEPT ![order[in].id] = @ + q, ![order[r].id] = @ + q]
      /\ accepted' = accepted
  BY <1>1, Zenon DEF FillOf
<1>3. HoldsOrder(in) /\ HoldsOrder(r)
  BY <1>1 DEF IInv, SlotsHoldOrders
<1>4. PICK k, l \in 1 .. Len(accepted) : k = order[in].id /\ l = order[r].id
  BY <1>3 DEF HoldsOrder
<1>5. order[r].side = sd
  <2>1. 1 \in 1 .. Len(books[b][sd])
    <3>1. books[b][sd] \in Seq(Handle)
      BY DEF IInv, Shape
    <3>2. Len(books[b][sd]) \in Nat
      BY <3>1
    <3>3. QED
      BY <1>2, <3>2
  <2>2. RestsAt(b, sd, 1)
    BY <2>1 DEF IInv, BooksSound
  <2>3. QED
    BY <1>2, <2>2 DEF RestsAt
<1>6. accepted[k].side \in Side /\ accepted[l].side = sd /\ sd = Opposite(accepted[k].side)
  <2>1. accepted[k].side = order[in].side /\ accepted[l].side = order[r].side
    BY <1>3, <1>4 DEF HoldsOrder
  <2>2. order[in].side \in Side
    BY <1>3 DEF HoldsOrder, OrderType
  <2>3. QED
    BY <1>2, <1>5, <2>1, <2>2
<1>7. k # l
  BY <1>6 DEF Side, Opposite
<1>8. filled \in Seq(Nat) /\ Len(filled) = Len(accepted) /\ Shape
  BY DEF IInv, Shape
<1>9. /\ filled'[k] = filled[k] + q /\ filled'[l] = filled[l] + q
      /\ \A m \in 1 .. Len(accepted) : m # k /\ m # l => filled'[m] = filled[m]
  <2>1. PICK f : f = filled
    OBVIOUS
  <2>2. filled' = [f EXCEPT ![k] = @ + q, ![l] = @ + q] /\ DOMAIN f = 1 .. Len(accepted)
    BY <1>2, <1>4, <1>8, <2>1
  <2>3. /\ filled'[k] = f[k] + q /\ filled'[l] = f[l] + q
        /\ \A m \in 1 .. Len(accepted) : m # k /\ m # l => filled'[m] = f[m]
    BY <1>7, <2>2
  <2>4. QED
    BY <2>1, <2>3
<1>10. ASSUME NEW side \in Side PROVE FilledOn(side)' = FilledOn(side) + q
  <2>1. Ids(side)' = Ids(side)
    BY <1>2 DEF Ids
  <2>2. PICK e \in Ids(side) : filled'[e] = filled[e] + q /\ \A m \in Ids(side) \ {e} : filled'[m] = filled[m]
    <3>1. CASE accepted[k].side = side
      <4>1. k \in Ids(side) /\ l \notin Ids(side)
        BY <1>4, <1>6, <3>1 DEF Ids, Side, Opposite
      <4>2. QED
        BY <1>9, <4>1 DEF Ids
    <3>2. CASE accepted[k].side # side
      <4>1. l \in Ids(side) /\ k \notin Ids(side)
        BY <1>4, <1>6, <3>2 DEF Ids, Side, Opposite
      <4>2. QED
        BY <1>9, <4>1 DEF Ids
    <3>3. QED
      BY <3>1, <3>2
  <2>3. IsFiniteSet(Ids(side)) /\ \A n \in Ids(side) : filled[n] \in Int
    BY <1>8, IdsFinite
  <2>4. SumOver(filled', Ids(side)) = SumOver(filled, Ids(side)) + q
    BY <2>2, <2>3, SumGrows
  <2>5. QED
    BY <2>1, <2>4 DEF FilledOn
<1>11. QED
  BY <1>10

\* Whatever was bought was sold, over all books and all orders.
THEOREM BothSidesFilled == Spec => []BuysEqualSells
<1>1. Init => FilledEqually
  <2>1. SUFFICES ASSUME Init PROVE FilledEqually
    OBVIOUS
  <2>2. Ids("buy") = {} /\ Ids("sell") = {}
    <3>1. Len(accepted) = 0
      BY <2>1 DEF Init
    <3>2. QED
      BY <3>1 DEF Ids
  <2>3. FilledOn("buy") = 0 /\ FilledOn("sell") = 0
    BY <2>2, SumEmpty DEF FilledOn
  <2>4. QED
    BY <2>3 DEF FilledEqually
<1>2. ASSUME IInv, IInv', FilledEqually, [Next]_vars PROVE FilledEqually'
  <2>1. FilledOn("buy") = FilledOn("sell") /\ Shape /\ Shape'
    BY <1>2 DEF IInv, FilledEqually
  <2>2. CASE UNCHANGED <<accepted, filled>>
    BY <1>2, <2>2 DEF FilledEqually, FilledOn, Ids
  <2>3. ASSUME NEW t \in Ticket, NEW h \in Handle, Accept(t, h) PROVE FilledEqually'
    <3>1. FilledOn("buy")' = FilledOn("buy") /\ FilledOn("sell")' = FilledOn("sell")
      BY <2>1, <2>3, AcceptFilled
    <3>2. FilledOn("buy")' = FilledOn("sell")'
      BY <2>1, <3>1
    <3>3. QED
      BY <3>2 DEF FilledEqually
  <2>4. CASE Fill
    <3>1. PICK q \in Nat : \A side \in Side : FilledOn(side)' = FilledOn(side) + q
      BY <1>2, <2>4, FillFilled
    <3>2. FilledOn("buy")' = FilledOn("sell")'
      BY <2>1, <3>1 DEF Side
    <3>3. QED
      BY <3>2 DEF FilledEqually
  <2>5. QED
    BY <1>2, <2>2, <2>3, <2>4 DEF Next, MatchOrder, Drop, EndMatch, vars
<1>3. QED
  BY <1>1, <1>2, EngineInvariant, FilledAre, PTL DEF Spec
=============================================================================
