-------------------------- MODULE MarketDataProofs --------------------------
(***************************************************************************)
(* Theorems about MarketData, for any depth of the book, any numbers of    *)
(* levels and any drift of the price: the book stays sorted and unique     *)
(* whoever writes it, a full book gives up its worst order, and a snapshot *)
(* of the injector's stream crosses by at most a tick.                     *)
(***************************************************************************)
EXTENDS MarketData, ServiceThreadProofs, DataTheorems

Order == [id : Nat, price : Int]

Unique(s) == \A i, j \in DOMAIN s : s[i].id = s[j].id => i = j

\* What is true of one side of the book between updates.
SideSound(side, s) ==
    /\ s \in Seq(Order)
    /\ InOrder(side, s) /\ Unique(s)
    /\ Len(s) <= MaxLevels

-----------------------------------------------------------------------------
(* The operations on a side of the book. *)

\* Replacing or adding an order leaves the other ids alone.
LEMMA PutIs ==
  ASSUME NEW s \in Seq(Order), NEW o \in Order, Unique(s)
  PROVE  /\ Put(s, o) \in Seq(Order) /\ Unique(Put(s, o))
         /\ ToSet(Put(s, o)) = {o} \cup {x \in ToSet(s) : x.id # o.id}
         /\ (\E x \in ToSet(s) : x.id = o.id) => Len(Put(s, o)) = Len(s)
<1> DEFINE I == {i \in 1 .. Len(s) : s[i].id = o.id}
<1>0. /\ Len(s) \in Nat /\ \A i \in 1 .. Len(s) : s[i] \in Order
      /\ ToSet(s) = {s[n] : n \in 1 .. Len(s)}
  BY SeqElements
<1>1. CASE I = {}
  <2>1. SelectInSeq(s, LAMBDA x : x.id = o.id) = 0
    BY <1>1 DEF SelectInSeq
  <2>2. PICK r : r = Append(s, o)
    OBVIOUS
  <2>3. Put(s, o) = r
    BY <2>1, <2>2 DEF Put
  <2>4. /\ r \in Seq(Order) /\ Len(r) = Len(s) + 1 /\ r[Len(s) + 1] = o
        /\ \A i \in 1 .. Len(s) : r[i] = s[i]
    BY <2>2, AppendProperties
  <2>5. Unique(r)
    BY <1>0, <1>1, <2>4 DEF Unique
  <2>6. ToSet(r) = {r[n] : n \in 1 .. Len(s) + 1}
    BY <2>4, SeqElements
  <2>7. ToSet(r) = {o} \cup {x \in ToSet(s) : x.id # o.id}
    BY <1>0, <1>1, <2>4, <2>6
  <2>8. ~\E x \in ToSet(s) : x.id = o.id
    BY <1>0, <1>1
  <2>9. QED
    BY <2>3, <2>4, <2>5, <2>7, <2>8
<1>2. CASE I # {}
  <2>1. PICK k \in I : TRUE
    BY <1>2
  <2>2. I = {k}
    BY <2>1 DEF Unique
  <2>3. Min(I) = k
    BY <2>2 DEF Min
  <2>4. SelectInSeq(s, LAMBDA x : x.id = o.id) = k
    BY <2>2, <2>3 DEF SelectInSeq
  <2>5. PICK r : r = [s EXCEPT ![k] = o]
    OBVIOUS
  <2>6. k \in 1 .. Len(s) /\ s[k].id = o.id /\ k > 0
    BY <2>1
  <2>7. Put(s, o) = r
    BY <2>4, <2>5, <2>6 DEF Put
  <2>8. /\ r \in Seq(Order) /\ Len(r) = Len(s)
        /\ \A i \in 1 .. Len(s) : r[i] = IF i = k THEN o ELSE s[i]
    BY <2>5, <2>6
  <2>9. Unique(r)
    BY <1>0, <2>2, <2>8 DEF Unique
  <2>10. ToSet(r) = {r[n] : n \in 1 .. Len(s)}
    BY <2>8, SeqElements
  <2>11. ToSet(r) = {o} \cup {x \in ToSet(s) : x.id # o.id}
    <3>1. \A i \in 1 .. Len(s) : s[i].id = o.id <=> i = k
      BY <2>2
    <3>2. QED
      BY <1>0, <2>6, <2>8, <2>10, <3>1
  <2>12. QED
    BY <2>7, <2>8, <2>9, <2>11
<1>3. QED
  BY <1>1, <1>2

\* Whatever order the sort leaves equal prices in, it returns the same orders.
LEMMA SortedIs ==
  ASSUME NEW side, NEW s \in Seq(Order), Unique(s), NEW r \in Sorted(side, s)
  PROVE  /\ r \in Seq(Order) /\ Len(r) <= Len(s)
         /\ ToSet(r) = ToSet(s)
         /\ InOrder(side, r) /\ Unique(r)
<1> DEFINE S == ToSet(s)
           D == 1 .. Cardinality(S)
<1>0. /\ IsFiniteSet(S) /\ S \subseteq Order /\ S = {s[n] : n \in 1 .. Len(s)}
      /\ Len(s) \in Nat
  BY SeqElements
<1>1. Cardinality(S) \in Nat
  BY <1>0, FS_CardinalityType
<1>2. /\ r \in [D -> S] /\ InOrder(side, r)
      /\ \A i, j \in D : i # j => r[i] # r[j]
  BY DEF Sorted, SetToSeqs
<1>3. r \in Seq(Order) /\ Len(r) = Cardinality(S)
  <2>1. PICK n \in Nat : n = Cardinality(S)
    BY <1>1
  <2>2. r \in [1 .. n -> Order]
    BY <1>0, <1>2, <2>1
  <2>3. r \in Seq(Order) /\ Len(r) = n
    BY <2>2
  <2>4. QED
    BY <2>1, <2>3
<1>4. r \in Injection(D, S)
  BY <1>2 DEF Injection, IsInjective
<1>5. Cardinality(D) = Cardinality(S)
  BY <1>1, FS_Interval
<1>6. r \in Surjection(D, S)
  BY <1>0, <1>4, <1>5, FS_Injection
<1>7. ToSet(r) = S
  BY <1>2, <1>6, ZenonT(60) DEF Surjection, ToSet
<1>8. Len(r) <= Len(s)
  <2>1. IsFiniteSet(1 .. Len(s)) /\ Cardinality(1 .. Len(s)) = Len(s)
    <3>1. PICK n \in Nat : n = Len(s)
      BY <1>0
    <3>2. IsFiniteSet(1 .. n) /\ Cardinality(1 .. n) = n
      BY FS_Interval
    <3>3. QED
      BY <3>1, <3>2, Zenon
  <2>2. s \in Surjection(1 .. Len(s), S)
    BY <1>0 DEF Surjection
  <2>3. QED
    BY <1>3, <2>1, <2>2, FS_Surjection
<1>9. Unique(r)
  <2>1. SUFFICES ASSUME NEW i \in D, NEW j \in D, r[i].id = r[j].id PROVE i = j
    BY <1>2 DEF Unique
  <2>2. PICK k \in 1 .. Len(s) : r[i] = s[k]
    BY <1>0, <1>2
  <2>3. PICK l \in 1 .. Len(s) : r[j] = s[l]
    BY <1>0, <1>2
  <2>4. k = l
    BY <2>1, <2>2, <2>3 DEF Unique
  <2>5. QED
    BY <1>2, <2>2, <2>3, <2>4
<1>10. QED
  BY <1>2, <1>3, <1>7, <1>8, <1>9

\* resize keeps the front.
LEMMA TruncateIs ==
  ASSUME NEW s \in Seq(Order)
  PROVE  /\ Truncate(s) \in Seq(Order)
         /\ Len(Truncate(s)) = IF Len(s) <= MaxLevels THEN Len(s) ELSE MaxLevels
         /\ \A i \in 1 .. Len(Truncate(s)) : i <= Len(s) /\ Truncate(s)[i] = s[i]
<1>1. Len(s) \in Nat /\ MaxLevels \in Nat
  BY MaxLevelsAssumption
<1>2. PICK m \in Int : m = IF Len(s) <= MaxLevels THEN Len(s) ELSE MaxLevels
  BY <1>1
<1>3. Min({Len(s), MaxLevels}) = m
  BY <1>1, <1>2 DEF Min
<1>4. Truncate(s) = SubSeq(s, 1, m)
  BY <1>3 DEF Truncate
<1>5. /\ SubSeq(s, 1, m) \in Seq(Order) /\ Len(SubSeq(s, 1, m)) = m
      /\ \A i \in 1 .. m : SubSeq(s, 1, m)[i] = s[i]
  <2>1. m <= Len(s) /\ 1 <= m + 1
    BY <1>1, <1>2
  <2>2. /\ SubSeq(s, 1, m) \in Seq(Order) /\ Len(SubSeq(s, 1, m)) = (m - 1) + 1
        /\ \A i \in 1 .. (m - 1) + 1 : SubSeq(s, 1, m)[i] = s[(1 + i) - 1]
    BY <2>1, CutIs
  <2>3. QED
    BY <2>2
<1>6. QED
  BY <1>1, <1>2, <1>4, <1>5

\* upsert keeps a side sound, brings in nothing but its order, and what drops out of
\* a full side was no better than what stays.
LEMMA UpsertIs ==
  ASSUME NEW side, NEW s, SideSound(side, s), NEW o \in Order, NEW r \in Sorted(side, Put(s, o)),
         NEW t, t = Truncate(r)
  PROVE  /\ SideSound(side, t)
         /\ ToSet(t) \subseteq {o} \cup {x \in ToSet(s) : x.id # o.id}
         /\ \A x \in ToSet(s) :
               (\A p \in ToSet(t) : p.id # x.id) =>
                   Len(t) = MaxLevels /\ \A p \in ToSet(t) : ~Before(side, x, p)
<1>1. PICK q : q = Put(s, o)
  OBVIOUS
<1>2. /\ q \in Seq(Order) /\ Unique(q)
      /\ ToSet(q) = {o} \cup {x \in ToSet(s) : x.id # o.id}
      /\ (\E x \in ToSet(s) : x.id = o.id) => Len(q) = Len(s)
  BY <1>1, PutIs DEF SideSound
<1>3. /\ r \in Seq(Order) /\ Len(r) <= Len(q)
      /\ ToSet(r) = ToSet(q)
      /\ InOrder(side, r) /\ Unique(r)
  BY <1>1, <1>2, SortedIs
<1>4. /\ t \in Seq(Order)
      /\ Len(t) = IF Len(r) <= MaxLevels THEN Len(r) ELSE MaxLevels
      /\ \A i \in 1 .. Len(t) : i <= Len(r) /\ t[i] = r[i]
  BY <1>3, TruncateIs
<1>5. MaxLevels \in Nat /\ Len(r) \in Nat /\ Len(t) \in Nat /\ Len(q) \in Nat /\ Len(s) \in Nat
  BY <1>2, <1>3, <1>4, MaxLevelsAssumption DEF SideSound
<1>6. DOMAIN t = 1 .. Len(t) /\ DOMAIN r = 1 .. Len(r)
  BY <1>3, <1>4
<1>7. SideSound(side, t)
  <2>1. DOMAIN t \subseteq DOMAIN r
    BY <1>4, <1>5, <1>6
  <2>2. InOrder(side, t)
    BY <1>3, <1>4, <1>6, <2>1 DEF InOrder
  <2>3. Unique(t)
    BY <1>3, <1>4, <1>6, <2>1 DEF Unique
  <2>4. QED
    BY <1>4, <1>5, <2>2, <2>3 DEF SideSound
<1>8. ToSet(t) = {t[n] : n \in 1 .. Len(t)} /\ ToSet(r) = {r[n] : n \in 1 .. Len(r)}
  BY <1>3, <1>4, SeqElements
<1>9. ToSet(t) \subseteq ToSet(r)
  BY <1>4, <1>5, <1>8
<1>10. ASSUME NEW x \in ToSet(s), \A p \in ToSet(t) : p.id # x.id
       PROVE  Len(t) = MaxLevels /\ \A p \in ToSet(t) : ~Before(side, x, p)
  <2>1. PICK j \in 1 .. Len(r) : r[j].id = x.id /\ (r[j] = x \/ x.id = o.id)
    <3>1. CASE x.id = o.id
      BY <1>2, <1>3, <1>8, <3>1
    <3>2. CASE x.id # o.id
      BY <1>2, <1>3, <1>8, <3>2
    <3>3. QED
      BY <3>1, <3>2
  <2>2. ~(j <= Len(t))
    BY <1>4, <1>8, <1>10, <2>1
  <2>3. Len(r) > MaxLevels /\ Len(t) = MaxLevels
    BY <1>4, <1>5, <2>2
  <2>4. x.id # o.id
    BY <1>2, <1>3, <1>5, <2>3 DEF SideSound
  <2>5. ASSUME NEW p \in ToSet(t) PROVE ~Before(side, x, p)
    <3>1. PICK i \in 1 .. Len(t) : p = r[i]
      BY <1>4, <1>8
    <3>2. i < j /\ i \in DOMAIN r /\ j \in DOMAIN r
      BY <1>4, <1>5, <1>6, <2>2, <3>1
    <3>3. ~Before(side, r[j], r[i])
      BY <1>3, <3>2 DEF InOrder
    <3>4. QED
      BY <2>1, <2>4, <3>1, <3>3
  <2>6. QED
    BY <2>3, <2>5
<1>11. QED
  BY <1>2, <1>3, <1>7, <1>9, <1>10

\* f says where in s the orders of r come from.
Along(f, r, s) ==
    /\ f \in [1 .. Len(r) -> 1 .. Len(s)]
    /\ \A i, j \in 1 .. Len(r) : i < j => f[i] < f[j]
    /\ \A i \in 1 .. Len(r) : r[i] = s[f[i]]

\* r is what is left of s when some of its orders are taken out.
Left(r, s) ==
    /\ r \in Seq(Order) /\ Len(r) <= Len(s)
    /\ \E f : Along(f, r, s)

\* What is left when the last order was taken out too, or stays.
LEMMA LeftGrows ==
  ASSUME NEW s \in Seq(Order), NEW o \in Order, NEW r, Left(r, s)
  PROVE  Left(r, Append(s, o)) /\ Left(Append(r, o), Append(s, o))
<1>1. PICK q \in Seq(Order) : q = Append(s, o)
  BY AppendProperties
<1>2. /\ Len(q) = Len(s) + 1 /\ q[Len(s) + 1] = o
      /\ \A i \in 1 .. Len(s) : q[i] = s[i]
  BY <1>1, AppendProperties
<1>3. PICK f :
         /\ Along(f, r, s)
         /\ f \in [1 .. Len(r) -> 1 .. Len(s)]
         /\ \A i, j \in 1 .. Len(r) : i < j => f[i] < f[j]
         /\ \A i \in 1 .. Len(r) : r[i] = s[f[i]]
  BY DEF Left, Along
<1>4. r \in Seq(Order) /\ Len(r) \in Nat /\ Len(s) \in Nat /\ Len(r) <= Len(s)
  BY DEF Left
<1>5. Left(r, q)
  <2>1. f \in [1 .. Len(r) -> 1 .. Len(q)]
    BY <1>2, <1>3, <1>4
  <2>2. \A i \in 1 .. Len(r) : r[i] = q[f[i]]
    BY <1>2, <1>3
  <2>3. Along(f, r, q)
    BY <1>3, <2>1, <2>2 DEF Along
  <2>4. QED
    BY <1>2, <1>4, <2>3 DEF Left
<1>6. PICK p \in Seq(Order) : p = Append(r, o)
  BY <1>4, AppendProperties
<1>7. /\ Len(p) = Len(r) + 1 /\ p[Len(r) + 1] = o
      /\ \A i \in 1 .. Len(r) : p[i] = r[i]
  BY <1>4, <1>6, AppendProperties
<1>8. Left(p, q)
  <2>1. PICK g : g = [i \in 1 .. Len(p) |-> IF i = Len(p) THEN Len(q) ELSE f[i]]
    OBVIOUS
  <2>2. /\ g \in [1 .. Len(p) -> 1 .. Len(q)]
        /\ g[Len(p)] = Len(q) /\ \A i \in 1 .. Len(r) : g[i] = f[i] /\ f[i] \in 1 .. Len(s)
    BY <1>2, <1>3, <1>4, <1>7, <2>1
  <2>3. \A i \in 1 .. Len(p) : i \in 1 .. Len(r) \/ i = Len(p)
    BY <1>4, <1>7
  <2>4. ASSUME NEW i \in 1 .. Len(p), NEW j \in 1 .. Len(p), i < j PROVE g[i] < g[j]
    <3>1. i \in 1 .. Len(r) /\ g[i] = f[i] /\ f[i] \in 1 .. Len(s)
      BY <1>4, <1>7, <2>2, <2>3, <2>4
    <3>2. CASE j = Len(p)
      BY <1>2, <1>4, <2>2, <3>1, <3>2
    <3>3. CASE j \in 1 .. Len(r)
      BY <1>3, <2>2, <2>4, <3>1, <3>3
    <3>4. QED
      BY <2>3, <3>2, <3>3
  <2>5. \A i \in 1 .. Len(p) : p[i] = q[g[i]]
    BY <1>2, <1>3, <1>4, <1>7, <2>2, <2>3, ZenonT(60)
  <2>6. Along(g, p, q)
    BY <2>2, <2>4, <2>5 DEF Along
  <2>7. Len(p) <= Len(q)
    BY <1>2, <1>4, <1>7
  <2>8. QED
    BY <2>6, <2>7 DEF Left
<1>9. QED
  BY <1>1, <1>5, <1>6, <1>8

\* Taking orders out keeps a side sound.
LEMMA LeftSound ==
  ASSUME NEW side, NEW s, SideSound(side, s), NEW r, Left(r, s)
  PROVE  SideSound(side, r) /\ ToSet(r) \subseteq ToSet(s)
<1>1. PICK f :
         /\ Along(f, r, s)
         /\ f \in [1 .. Len(r) -> 1 .. Len(s)]
         /\ \A i, j \in 1 .. Len(r) : i < j => f[i] < f[j]
         /\ \A i \in 1 .. Len(r) : r[i] = s[f[i]]
  BY DEF Left, Along
<1>2. /\ r \in Seq(Order) /\ Len(r) <= Len(s) /\ s \in Seq(Order)
      /\ DOMAIN r = 1 .. Len(r) /\ DOMAIN s = 1 .. Len(s) /\ Len(r) \in Nat /\ Len(s) \in Nat
  BY DEF Left, SideSound
<1>3. InOrder(side, r)
  BY <1>1, <1>2 DEF SideSound, InOrder
<1>4. Unique(r)
  <2>1. SUFFICES ASSUME NEW i \in 1 .. Len(r), NEW j \in 1 .. Len(r), r[i].id = r[j].id PROVE i = j
    BY <1>2 DEF Unique
  <2>2. f[i] \in 1 .. Len(s) /\ f[j] \in 1 .. Len(s)
    BY <1>1
  <2>3. f[i] = f[j]
    BY <1>1, <1>2, <2>1, <2>2 DEF SideSound, Unique
  <2>4. ~(i < j) /\ ~(j < i)
    BY <1>1, <2>2, <2>3
  <2>5. QED
    BY <2>4
<1>5. Len(r) <= MaxLevels
  BY <1>2, MaxLevelsAssumption DEF SideSound
<1>6. ToSet(r) \subseteq ToSet(s)
  BY <1>1, <1>2 DEF ToSet
<1>7. QED
  BY <1>2, <1>3, <1>4, <1>5, <1>6 DEF SideSound

\* The sequences that Without joins.
Pieces(s, id) == [i \in DOMAIN s |-> IF s[i].id = id THEN <<>> ELSE <<s[i]>>]

LEMMA PiecesType ==
  ASSUME NEW s \in Seq(Order), NEW id
  PROVE  Pieces(s, id) \in Seq(Seq(Order)) /\ Len(Pieces(s, id)) = Len(s)
<1>1. ASSUME NEW i \in 1 .. Len(s)
      PROVE  (IF s[i].id = id THEN <<>> ELSE <<s[i]>>) \in Seq(Order)
  <2>1. s[i] \in Order
    OBVIOUS
  <2>2. <<>> \in Seq(Order) /\ <<s[i]>> \in Seq(Order)
    BY <2>1
  <2>3. QED
    BY <2>2
<1>2. PICK n \in Nat : n = Len(s) /\ DOMAIN s = 1 .. n
  OBVIOUS
<1>3. Pieces(s, id) \in [1 .. n -> Seq(Order)]
  BY <1>1, <1>2 DEF Pieces
<1>4. QED
  BY <1>2, <1>3

\* remove takes orders out.
LEMMA WithoutLeaves ==
  ASSUME NEW s \in Seq(Order), NEW id
  PROVE  Left(Without(s, id), s)
<1> DEFINE S == {n \in Nat : \A t \in Seq(Order) : Len(t) = n => Left(Without(t, id), t)}
<1>0. ASSUME NEW t \in Seq(Order) PROVE Without(t, id) = FlattenSeq(Pieces(t, id))
  BY DEF Without, Pieces
<1>1. 0 \in S
  <2>1. SUFFICES ASSUME NEW t \in Seq(Order), Len(t) = 0 PROVE Left(Without(t, id), t)
    OBVIOUS
  <2>2. Pieces(t, id) = <<>>
    <3>1. PICK b : b = Pieces(t, id)
      OBVIOUS
    <3>2. b \in Seq(Seq(Order)) /\ Len(b) = 0
      BY <2>1, <3>1, PiecesType
    <3>3. b = <<>>
      BY <3>2
    <3>4. QED
      BY <3>1, <3>3
  <2>3. Without(t, id) = <<>>
    BY <1>0, <2>2 DEF FlattenSeq
  <2>4. t = <<>>
    BY <2>1
  <2>5. Along(<<>>, <<>>, <<>>)
    BY DEF Along
  <2>6. QED
    BY <2>3, <2>4, <2>5 DEF Left
<1>2. ASSUME NEW n \in Nat, n \in S PROVE n + 1 \in S
  <2>1. SUFFICES ASSUME NEW t \in Seq(Order), Len(t) = n + 1 PROVE Left(Without(t, id), t)
    OBVIOUS
  <2>2. PICK u \in Seq(Order), o \in Order : t = Append(u, o) /\ Len(u) = n
    BY <2>1, AppendedSeq
  <2>3. Left(Without(u, id), u) /\ Without(u, id) \in Seq(Order)
    BY <1>2, <2>2 DEF Left
  <2>4. PICK x \in Seq(Order) : x = IF o.id = id THEN <<>> ELSE <<o>>
    <3>1. <<>> \in Seq(Order) /\ <<o>> \in Seq(Order)
      OBVIOUS
    <3>2. (IF o.id = id THEN <<>> ELSE <<o>>) \in Seq(Order)
      BY <3>1, Zenon
    <3>3. QED
      BY <3>2, Zenon
  <2>5. Pieces(t, id) = Append(Pieces(u, id), x)
    <3>1. /\ t[n + 1] = o /\ DOMAIN t = 1 .. n + 1 /\ DOMAIN u = 1 .. n
          /\ \A i \in 1 .. n : t[i] = u[i]
      BY <2>1, <2>2, AppendProperties
    <3>2. PICK a : a = Pieces(t, id)
      OBVIOUS
    <3>3. PICK b : b = Pieces(u, id)
      OBVIOUS
    <3>4. PICK c : c = Append(b, x)
      OBVIOUS
    <3>5. b \in Seq(Seq(Order)) /\ Len(b) = n /\ a \in Seq(Seq(Order)) /\ Len(a) = n + 1
      BY <2>1, <2>2, <3>2, <3>3, PiecesType
    <3>6. /\ c \in Seq(Seq(Order)) /\ Len(c) = n + 1 /\ c[n + 1] = x
          /\ \A i \in 1 .. n : c[i] = b[i]
      BY <3>4, <3>5, AppendProperties
    <3>7. ASSUME NEW i \in 1 .. n PROVE a[i] = b[i]
      <4>1. i \in DOMAIN t /\ i \in DOMAIN u /\ t[i] = u[i]
        BY <3>1
      <4>2. QED
        BY <3>2, <3>3, <4>1 DEF Pieces
    <3>8. a[n + 1] = x
      BY <2>4, <3>1, <3>2 DEF Pieces
    <3>9. \A i \in 1 .. n + 1 : a[i] = c[i]
      BY <3>6, <3>7, <3>8
    <3>10. a = c
      BY <3>5, <3>6, <3>9, SeqEqual
    <3>11. QED
      BY <3>2, <3>3, <3>4, <3>10
  <2>6. Without(t, id) = Without(u, id) \o x
    <3>1. PICK b : b = Pieces(u, id)
      OBVIOUS
    <3>2. b \in Seq(Seq(Order)) /\ FlattenSeq(b) = Without(u, id)
      BY <1>0, <3>1, PiecesType
    <3>3. FlattenSeq(Append(b, x)) = FlattenSeq(b) \o x
      BY <2>3, <3>2, FlattenAppend
    <3>4. QED
      BY <1>0, <2>5, <3>1, <3>2, <3>3
  <2>7. PICK w \in Seq(Order) : w = Without(u, id)
    BY <2>3
  <2>8. Left(w, t) /\ Left(Append(w, o), t)
    BY <2>2, <2>3, <2>7, LeftGrows
  <2>9. w \o <<>> = w /\ w \o <<o>> = Append(w, o)
    OBVIOUS
  <2>10. QED
    BY <2>4, <2>6, <2>7, <2>8, <2>9
<1>3. Nat \subseteq S
  BY <1>1, <1>2, NatSetInduction
<1>4. QED
  BY <1>3

-----------------------------------------------------------------------------
(* The inductive invariant. *)

Drift == StartPrice - MaxDrift .. StartPrice + MaxDrift

MarketShape ==
    /\ mutex \in Thread \cup {User, Nobody}
    /\ callback \in BOOLEAN /\ firstRound \in BOOLEAN
    /\ removes \in Nat /\ levels \in Nat /\ pos \in Nat /\ midPrice \in Drift

\* Both sides are sound, whoever holds the mutex: an update is one step.
SidesSound == book \in [Side -> Seq(Order)] /\ \A side \in Side : SideSound(side, book[side])

\* An injector has one thread, and is in the middle of a round only while that thread
\* is inside the body of its loop.
OneWriter ==
    kind = "injector" =>
        /\ threads = {}
        /\ pos <= 2 * levels
        /\ pos # 0 => member \in Thread /\ pc[member] = "callback"

\* The prices of the stream when its last round was about mid price m: the orders that
\* this round has written already are about the new one.
StreamedFrom(m) ==
    /\ \A b \in Own("bid") :
          /\ b.id <= pos => b.price = midPrice - (b.id - 1) * Tick
          /\ b.id > pos /\ ~firstRound => b.price = m - (b.id - 1) * Tick
    /\ \A a \in Own("ask") :
          /\ levels + (a.id - 1000) < pos => a.price = midPrice + (a.id - 1000) * Tick
          /\ levels + (a.id - 1000) >= pos /\ ~firstRound => a.price = m + (a.id - 1000) * Tick

Streamed == kind = "injector" => \E m \in Drift : midPrice - m \in Shift /\ StreamedFrom(m)

MarketIInv ==
    /\ IInv
    /\ MarketShape /\ SidesSound /\ OneWriter /\ Streamed

-----------------------------------------------------------------------------
(* The steps, as seen by the feed and by the thread. *)

\* A step of MarketData is one of ServiceThread, or leaves its variables alone.
LEMMA StepsAreServiceSteps == ASSUME [MarketNext]_marketVars PROVE [Next]_vars
<1>1. CASE InjectorBegins
  BY <1>1 DEF InjectorBegins, Next
<1>2. CASE (Owner \/ Join) /\ UNCHANGED <<feed, market>>
  BY <1>2 DEF Owner, Next
<1>3. ASSUME NEW t \in Thread, Writer(t) PROVE [Next]_vars
  BY <1>3 DEF Writer, Inject, EndRound, ProcessOrder, OrderProcessed, Next
<1>4. CASE \E c \in Thread \cup {User} : UpdateCallbackReturns(c)
  BY <1>4 DEF UpdateCallbackReturns
<1>5. CASE \E side \in Side : \E id : UserRemoves(side, id)
  BY <1>5 DEF UserRemoves
<1>6. CASE UNCHANGED marketVars
  BY <1>6 DEF marketVars
<1>7. QED
  BY <1>1, <1>2, <1>3, <1>4, <1>5, <1>6 DEF MarketNext

\* upsert, by a caller that can hold the mutex.
LEMMA UpsertKeeps ==
  ASSUME SidesSound, NEW c \in Thread \cup {User}, NEW side \in Side, NEW o \in Order,
         Upsert(c, side, o), callback \in BOOLEAN
  PROVE  /\ SidesSound'
         /\ mutex' \in Thread \cup {User, Nobody} /\ callback' \in BOOLEAN
         /\ ToSet(book'[side]) \subseteq {o} \cup {x \in ToSet(book[side]) : x.id # o.id}
         /\ \A u \in Side : u # side => book'[u] = book[u]
         /\ \A x \in ToSet(book[side]) :
               (\A p \in ToSet(book'[side]) : p.id # x.id) =>
                   Len(book'[side]) = MaxLevels /\ \A p \in ToSet(book'[side]) : ~Before(side, x, p)
<1>1. PICK r \in Sorted(side, Put(book[side], o)) : book' = [book EXCEPT ![side] = Truncate(r)]
  BY DEF Upsert
<1>2. PICK t : t = Truncate(r)
  OBVIOUS
<1>3. SideSound(side, book[side]) /\ book \in [Side -> Seq(Order)]
  BY DEF SidesSound
<1>4. /\ SideSound(side, t)
      /\ ToSet(t) \subseteq {o} \cup {x \in ToSet(book[side]) : x.id # o.id}
      /\ \A x \in ToSet(book[side]) :
            (\A p \in ToSet(t) : p.id # x.id) =>
                Len(t) = MaxLevels /\ \A p \in ToSet(t) : ~Before(side, x, p)
  BY <1>1, <1>2, <1>3, UpsertIs
<1>5. /\ book'[side] = t /\ t \in Seq(Order)
      /\ \A u \in Side : u # side => book'[u] = book[u]
      /\ book' \in [Side -> Seq(Order)]
  BY <1>1, <1>2, <1>3, <1>4 DEF SideSound
<1>6. SidesSound'
  <2>1. ASSUME NEW u \in Side PROVE SideSound(u, book'[u])
    BY <1>4, <1>5, <2>1 DEF SidesSound
  <2>2. QED
    BY <1>5, <2>1 DEF SidesSound, SideSound, InOrder, Unique, Before
<1>7. /\ mutex' \in Thread \cup {User, Nobody} /\ callback' \in BOOLEAN
  BY UserAssumption DEF Upsert, Notify
<1>8. QED
  BY <1>4, <1>5, <1>6, <1>7

\* remove
LEMMA RemoveKeeps ==
  ASSUME SidesSound, NEW side \in Side, NEW id, RemoveOrder(User, side, id), callback \in BOOLEAN
  PROVE  /\ SidesSound'
         /\ mutex' \in Thread \cup {User, Nobody} /\ callback' \in BOOLEAN
         /\ \A u \in Side : ToSet(book'[u]) \subseteq ToSet(book[u])
<1>1. PICK t : t = Without(book[side], id)
  OBVIOUS
<1>2. SideSound(side, book[side]) /\ book \in [Side -> Seq(Order)]
  BY DEF SidesSound
<1>3. book' = [book EXCEPT ![side] = t]
  BY <1>1 DEF RemoveOrder
<1>4. Left(t, book[side])
  BY <1>1, <1>2, WithoutLeaves
<1>5. SideSound(side, t) /\ ToSet(t) \subseteq ToSet(book[side])
  BY <1>2, <1>4, LeftSound
<1>6. /\ book'[side] = t /\ t \in Seq(Order)
      /\ \A u \in Side : u # side => book'[u] = book[u]
      /\ book' \in [Side -> Seq(Order)]
  BY <1>2, <1>3, <1>5 DEF SideSound
<1>7. SidesSound'
  <2>1. ASSUME NEW u \in Side PROVE SideSound(u, book'[u])
    BY <1>5, <1>6, <2>1 DEF SidesSound
  <2>2. QED
    BY <1>6, <2>1 DEF SidesSound, SideSound, InOrder, Unique, Before
<1>8. /\ mutex' \in Thread \cup {User, Nobody} /\ callback' \in BOOLEAN
  BY UserAssumption DEF RemoveOrder, Notify
<1>9. QED
  BY <1>5, <1>6, <1>7, <1>8

\* What a step of its life means to an injector: its thread stays where it is as long
\* as it is inside a round, unless the step is its own.
LEMMA InjectorSteps ==
  ASSUME IInv, Next, kind = "injector", threads = {}
  PROVE  /\ threads' = {}
         /\ member \in Thread /\ pc[member] = "callback" /\ ~ThreadStep(member) =>
               member' \in Thread /\ pc'[member'] = "callback"
<1>0. pc \in [Thread -> Places] /\ NoThread \notin Thread
  BY ThreadAssumption DEF IInv, Shape
<1>1. CASE CtorStep \/ AddConnectionThrows \/ CtorThrows \/ Built \/ Stop \/ Destroy
  BY <1>1 DEF CtorStep, AddConnectionThrows, CtorThrows, Built, Stop, Destroy, control
<1>2. CASE Start
  <2>1. PICK t \in Thread : StartThread(t, "check")
    BY <1>2 DEF Start, TcpPipelineStart, UdpPipelineStart, InjectorStart, ServerStart,
                HeartbeatStart, StartAll
  <2>2. QED
    BY <1>0, <2>1 DEF StartThread
<1>3. CASE Join
  BY <1>0, <1>3 DEF Join, JoinMember, JoinInVector, StopReturns
<1>4. ASSUME NEW t \in Thread, ThreadStep(t)
      PROVE  /\ threads' = {} /\ member' = member
             /\ \A u \in Thread : u # t => pc'[u] = pc[u]
  <2>1. InjectLoop(t)
    BY <1>4 DEF ThreadStep, TcpReadLoop, UdpReadLoop, ManagerLoop, HeartbeatLoop, ListenLoop,
                ClientLoop
  <2>2. QED
    BY <1>0, <2>1 DEF InjectLoop, While, Callback, Sleep, Goto, control
<1>5. QED
  BY <1>1, <1>2, <1>3, <1>4 DEF Next

\* An object does not change its class.
LEMMA KindStays == ASSUME [Next]_vars PROVE kind' = kind
<1>1. CASE CtorStep \/ AddConnectionThrows \/ CtorThrows \/ Built \/ Stop \/ Destroy
  BY <1>1 DEF CtorStep, AddConnectionThrows, CtorThrows, Built, Stop, Destroy, construction
<1>2. CASE Start
  BY <1>2 DEF Start, TcpPipelineStart, UdpPipelineStart, InjectorStart, ServerStart,
              HeartbeatStart, StartAll, StartThread, construction
<1>3. CASE Join
  BY <1>3 DEF Join, JoinMember, JoinInVector, StopReturns, construction
<1>4. ASSUME NEW t \in Thread, ThreadStep(t) PROVE kind' = kind
  BY <1>4 DEF ThreadStep, TcpReadLoop, UdpReadLoop, ManagerLoop, HeartbeatLoop, InjectLoop,
              ListenLoop, ClientLoop, OpenListener, AcceptClient, While, Recv, Callback,
              Sleep, Goto, construction
<1>5. CASE UNCHANGED vars
  BY <1>5 DEF vars, construction
<1>6. QED
  BY <1>1, <1>2, <1>3, <1>4, <1>5 DEF Next

\* A step that adds nothing to the book, and is none of the stream, keeps the prices
\* of the stream.
LEMMA StreamStays ==
  ASSUME Streamed, kind' = kind, UNCHANGED <<levels, pos, midPrice, firstRound>>,
         \A u \in Side : ToSet(book'[u]) \subseteq ToSet(book[u])
  PROVE  Streamed'
<1>1. SUFFICES ASSUME kind = "injector" PROVE Streamed'
  BY DEF Streamed
<1>2. PICK m \in Drift : midPrice - m \in Shift /\ StreamedFrom(m)
  BY <1>1 DEF Streamed
<1>3. Own("bid")' \subseteq Own("bid") /\ Own("ask")' \subseteq Own("ask")
  BY DEF Own, Snapshot, Side
<1>4. StreamedFrom(m)'
  BY <1>2, <1>3 DEF StreamedFrom
<1>5. QED
  BY <1>2, <1>4 DEF Streamed, Drift, Shift

\* The orders of the stream have ids and prices.
LEMMA OwnTyped ==
  ASSUME SidesSound
  PROVE  /\ \A b \in Own("bid") : b \in Order /\ b.id \in Nat /\ b.price \in Int
         /\ \A a \in Own("ask") : a \in Order /\ a.id \in Nat /\ a.price \in Int
<1>1. book["bid"] \in Seq(Order) /\ book["ask"] \in Seq(Order)
  BY DEF SidesSound, Side
<1>2. ToSet(book["bid"]) \subseteq Order /\ ToSet(book["ask"]) \subseteq Order
  BY <1>1, SeqElements
<1>3. QED
  BY <1>2 DEF Own, Snapshot, Order

\* An injected bid takes its place about the new mid price.
LEMMA InjectBidStreams ==
  ASSUME MarketIInv, NEW t \in Thread, kind = "injector", kind' = kind, SidesSound',
         pos < levels, pos' = pos + 1, UNCHANGED <<levels, midPrice, firstRound>>,
         ToSet(book'["bid"]) \subseteq {Bid(pos)} \cup {x \in ToSet(book["bid"]) : x.id # Bid(pos).id},
         book'["ask"] = book["ask"]
  PROVE  Streamed'
<1>1. PICK m \in Drift : midPrice - m \in Shift /\ StreamedFrom(m)
  BY DEF MarketIInv, Streamed
<1>2. levels \in Nat /\ pos \in Nat /\ midPrice \in Int /\ m \in Int
  BY <1>1, NumberAssumption DEF MarketIInv, MarketShape, Drift
<1>3. Own("ask")' = Own("ask")
  BY DEF Own, Snapshot
<1>4. Own("bid")' \subseteq {Bid(pos)} \cup {x \in Own("bid") : x.id # pos + 1}
  BY DEF Own, Snapshot, Bid
<1>5. ASSUME NEW b \in Own("bid")'
      PROVE  /\ b.id <= pos + 1 => b.price = midPrice - (b.id - 1) * Tick
             /\ b.id > pos + 1 /\ ~firstRound => b.price = m - (b.id - 1) * Tick
  <2>1. CASE b = Bid(pos)
    BY <1>2, <2>1 DEF Bid, Tick
  <2>2. CASE b \in Own("bid") /\ b.id # pos + 1
    <3>1. b.id \in Nat
      BY <2>2, OwnTyped DEF MarketIInv
    <3>2. /\ b.id <= pos => b.price = midPrice - (b.id - 1) * Tick
          /\ b.id > pos /\ ~firstRound => b.price = m - (b.id - 1) * Tick
      BY <1>1, <2>2 DEF StreamedFrom
    <3>3. QED
      BY <1>2, <2>2, <3>1, <3>2
  <2>3. QED
    BY <1>4, <1>5, <2>1, <2>2
<1>6. ASSUME NEW a \in Own("ask")'
      PROVE  /\ levels + (a.id - 1000) < pos + 1 => a.price = midPrice + (a.id - 1000) * Tick
             /\ levels + (a.id - 1000) >= pos + 1 /\ ~firstRound => a.price = m + (a.id - 1000) * Tick
  <2>1. a \in Own("ask") /\ a.id \in Nat /\ a.id >= 1000
    <3>1. a \in Own("ask")
      BY <1>3, <1>6
    <3>2. a.id \in 1000 .. 999 + levels
      BY <3>1 DEF Own
    <3>3. QED
      BY <1>2, <3>1, <3>2
  <2>2. levels + (a.id - 1000) >= pos /\ ~firstRound => a.price = m + (a.id - 1000) * Tick
    BY <1>1, <2>1 DEF StreamedFrom
  <2>3. QED
    BY <1>2, <2>1, <2>2
<1>7. StreamedFrom(m)'
  BY <1>5, <1>6 DEF StreamedFrom
<1>8. QED
  BY <1>1, <1>7 DEF Streamed, Drift, Shift

\* And an injected ask.
LEMMA InjectAskStreams ==
  ASSUME MarketIInv, NEW t \in Thread, kind = "injector", kind' = kind, SidesSound',
         pos >= levels, pos' = pos + 1, UNCHANGED <<levels, midPrice, firstRound>>,
         ToSet(book'["ask"]) \subseteq
             {Ask(pos - levels)} \cup {x \in ToSet(book["ask"]) : x.id # Ask(pos - levels).id},
         book'["bid"] = book["bid"]
  PROVE  Streamed'
<1>1. PICK m \in Drift : midPrice - m \in Shift /\ StreamedFrom(m)
  BY DEF MarketIInv, Streamed
<1>2. levels \in Nat /\ pos \in Nat /\ midPrice \in Int /\ m \in Int
  BY <1>1, NumberAssumption DEF MarketIInv, MarketShape, Drift
<1>3. Own("bid")' = Own("bid")
  BY DEF Own, Snapshot
<1>4. Own("ask")' \subseteq {Ask(pos - levels)} \cup {x \in Own("ask") : x.id # (pos - levels) + 1000}
  BY DEF Own, Snapshot, Ask
<1>5. ASSUME NEW a \in Own("ask")'
      PROVE  /\ levels + (a.id - 1000) < pos + 1 => a.price = midPrice + (a.id - 1000) * Tick
             /\ levels + (a.id - 1000) >= pos + 1 /\ ~firstRound => a.price = m + (a.id - 1000) * Tick
  <2>1. CASE a = Ask(pos - levels)
    BY <1>2, <2>1 DEF Ask, Tick
  <2>2. CASE a \in Own("ask") /\ a.id # (pos - levels) + 1000
    <3>1. a.id \in Nat
      BY <2>2, OwnTyped DEF MarketIInv
    <3>2. /\ levels + (a.id - 1000) < pos => a.price = midPrice + (a.id - 1000) * Tick
          /\ levels + (a.id - 1000) >= pos /\ ~firstRound => a.price = m + (a.id - 1000) * Tick
      BY <1>1, <2>2 DEF StreamedFrom
    <3>3. QED
      BY <1>2, <2>2, <3>1, <3>2
  <2>3. QED
    BY <1>4, <1>5, <2>1, <2>2
<1>6. ASSUME NEW b \in Own("bid")'
      PROVE  /\ b.id <= pos + 1 => b.price = midPrice - (b.id - 1) * Tick
             /\ b.id > pos + 1 /\ ~firstRound => b.price = m - (b.id - 1) * Tick
  <2>1. b \in Own("bid") /\ b.id \in Nat /\ b.id <= levels
    <3>1. b \in Own("bid")
      BY <1>3, <1>6
    <3>2. b.id \in 1 .. levels
      BY <3>1 DEF Own
    <3>3. QED
      BY <1>2, <3>1, <3>2
  <2>2. b.id <= pos => b.price = midPrice - (b.id - 1) * Tick
    BY <1>1, <2>1 DEF StreamedFrom
  <2>3. QED
    BY <1>2, <2>1, <2>2
<1>7. StreamedFrom(m)'
  BY <1>5, <1>6 DEF StreamedFrom
<1>8. QED
  BY <1>1, <1>7 DEF Streamed, Drift, Shift

-----------------------------------------------------------------------------
(* The invariant is inductive. *)

LEMMA MarketInitIInv == ASSUME MarketInit PROVE MarketIInv
<1>1. IInv
  BY InitIInv DEF MarketInit
<1>2. MarketShape
  <2>1. StartPrice \in Drift /\ 0 \in Nat
    BY NumberAssumption DEF Drift
  <2>2. QED
    BY <2>1, Zenon DEF MarketInit, FeedInit, MarketShape
<1>3. /\ book \in [Side -> Seq(Order)] /\ \A side \in Side : book[side] = <<>>
  BY DEF MarketInit, FeedInit
<1>4. SidesSound
  <2>1. ASSUME NEW side \in Side PROVE SideSound(side, book[side])
    <3>1. book[side] = <<>> /\ MaxLevels \in Nat
      BY <1>3, MaxLevelsAssumption
    <3>2. SideSound(side, <<>>)
      BY <3>1 DEF SideSound, InOrder, Unique
    <3>3. QED
      BY <3>1, <3>2
  <2>2. QED
    BY <1>3, <2>1 DEF SidesSound
<1>5. OneWriter
  BY DEF MarketInit, Init, OneWriter
<1>6. Streamed
  <2>1. ToSet(book["bid"]) = {} /\ ToSet(book["ask"]) = {}
    BY <1>3 DEF Side, ToSet
  <2>2. StreamedFrom(midPrice)
    BY <2>1 DEF StreamedFrom, Own, Snapshot
  <2>3. midPrice \in Drift /\ midPrice - midPrice \in Shift
    BY <1>2, NumberAssumption DEF MarketShape, Drift, Shift, Tick
  <2>4. QED
    BY <2>2, <2>3 DEF Streamed
<1>7. QED
  BY <1>1, <1>2, <1>4, <1>5, <1>6 DEF MarketIInv

\* The invariant but for IInv, which every step of ServiceThread keeps.
Rest == MarketShape /\ SidesSound /\ OneWriter /\ Streamed

\* start() of the injector.
LEMMA BeginsKeeps == ASSUME MarketIInv, InjectorBegins PROVE Rest'
<1>0. /\ kind = "injector" /\ kind' = kind /\ threads' = {}
      /\ Next /\ UNCHANGED feed
  <2>1. Next /\ kind = "injector" /\ UNCHANGED feed
    BY DEF InjectorBegins, Next
  <2>2. kind' = kind
    BY <2>1, KindStays
  <2>3. threads' = {}
    BY <2>1, InjectorSteps DEF MarketIInv, OneWriter
  <2>4. QED
    BY <2>1, <2>2, <2>3
<1>1. /\ levels' \in Nat /\ pos' = 0 /\ midPrice' = StartPrice /\ firstRound' = TRUE
      /\ removes' = removes
  BY LevelsAssumption DEF InjectorBegins
<1>2. MarketShape'
  BY <1>0, <1>1, NumberAssumption DEF MarketIInv, MarketShape, feed, Drift
<1>3. SidesSound'
  BY <1>0 DEF MarketIInv, SidesSound, SideSound, InOrder, Unique, Before, feed
<1>4. OneWriter'
  <2>1. PICK n \in Nat : n = levels'
    BY <1>1
  <2>2. 0 <= 2 * n /\ pos' = 0
    BY <1>1
  <2>3. QED
    BY <1>0, <2>1, <2>2, Zenon DEF OneWriter
<1>5. Streamed'
  <2>1. \A b \in Own("bid")' : b.id >= 1 /\ b.id \in Nat
    BY <1>1 DEF Own
  <2>2. \A a \in Own("ask")' : a.id >= 1000 /\ a.id \in Nat
    BY <1>1 DEF Own
  <2>3. StreamedFrom(StartPrice)'
    BY <1>1, <2>1, <2>2 DEF StreamedFrom
  <2>4. StartPrice \in Drift /\ StartPrice - StartPrice \in Shift
    BY NumberAssumption DEF Drift, Shift, Tick
  <2>5. QED
    BY <1>1, <2>3, <2>4 DEF Streamed, Drift, Shift
<1>6. QED
  BY <1>2, <1>3, <1>4, <1>5 DEF Rest

\* The steps that change neither the feed nor the stream.
LEMMA QuietKeeps ==
  ASSUME MarketIInv, Next, UNCHANGED <<feed, market>>,
         kind = "injector" /\ pos # 0 => ~ThreadStep(member)
  PROVE  Rest'
<1>1. kind' = kind
  BY KindStays
<1>2. MarketShape' /\ SidesSound'
  BY DEF MarketIInv, MarketShape, SidesSound, SideSound, InOrder, Unique, Before,
         feed, market
<1>3. OneWriter'
  <2>1. SUFFICES ASSUME kind = "injector" PROVE OneWriter'
    BY <1>1 DEF OneWriter
  <2>2. /\ threads = {} /\ pos <= 2 * levels
        /\ pos # 0 => member \in Thread /\ pc[member] = "callback"
    BY <2>1 DEF MarketIInv, OneWriter
  <2>3. /\ threads' = {}
        /\ pos # 0 => member' \in Thread /\ pc'[member'] = "callback"
    BY <2>1, <2>2, InjectorSteps DEF MarketIInv
  <2>4. pos' = pos /\ levels' = levels
    BY DEF market
  <2>5. QED
    BY <2>2, <2>3, <2>4 DEF OneWriter
<1>4. Streamed'
  BY <1>1, StreamStays DEF MarketIInv, feed, market
<1>5. QED
  BY <1>2, <1>3, <1>4 DEF Rest

\* One order of a round.
LEMMA InjectKeeps == ASSUME MarketIInv, NEW t \in Thread, Inject(t) PROVE Rest'
<1>0. /\ kind = "injector" /\ pc[t] = "callback" /\ pos < 2 * levels
      /\ pos' = pos + 1 /\ UNCHANGED <<vars, levels, midPrice, firstRound, removes>>
  BY DEF Inject
<1>1. UNCHANGED <<kind, threads, member, pc>>
  BY <1>0 DEF vars, construction, control
<1>2. levels \in Nat /\ pos \in Nat /\ midPrice \in Int /\ callback \in BOOLEAN
  BY NumberAssumption DEF MarketIInv, MarketShape, Drift
<1>3. OneWriter'
  <2>1. threads = {} /\ (t \in threads \/ t = member)
    BY <1>0 DEF MarketIInv, OneWriter, IInv, Held
  <2>2. QED
    BY <1>0, <1>1, <1>2, <2>1 DEF OneWriter
<1>4. CASE pos < levels
  <2>1. Upsert(t, "bid", Bid(pos)) /\ Bid(pos) \in Order
    BY <1>2, <1>4 DEF Inject, Bid, Order, Tick
  <2>2. /\ SidesSound'
        /\ mutex' \in Thread \cup {User, Nobody} /\ callback' \in BOOLEAN
        /\ ToSet(book'["bid"]) \subseteq {Bid(pos)} \cup {x \in ToSet(book["bid"]) : x.id # Bid(pos).id}
        /\ book'["ask"] = book["ask"]
    BY <1>2, <2>1, UpsertKeeps DEF MarketIInv, Side
  <2>3. Streamed'
    BY <1>0, <1>1, <1>4, <2>2, InjectBidStreams
  <2>4. MarketShape'
    BY <1>0, <1>2, <2>2 DEF MarketIInv, MarketShape, Drift
  <2>5. QED
    BY <1>3, <2>2, <2>3, <2>4 DEF Rest
<1>5. CASE pos >= levels
  <2>1. Upsert(t, "ask", Ask(pos - levels)) /\ Ask(pos - levels) \in Order
    BY <1>2, <1>5 DEF Inject, Ask, Order, Tick
  <2>2. /\ SidesSound'
        /\ mutex' \in Thread \cup {User, Nobody} /\ callback' \in BOOLEAN
        /\ ToSet(book'["ask"]) \subseteq
              {Ask(pos - levels)} \cup {x \in ToSet(book["ask"]) : x.id # Ask(pos - levels).id}
        /\ book'["bid"] = book["bid"]
    BY <1>2, <2>1, UpsertKeeps DEF MarketIInv, Side
  <2>3. Streamed'
    BY <1>0, <1>1, <1>5, <2>2, InjectAskStreams
  <2>4. MarketShape'
    BY <1>0, <1>2, <2>2 DEF MarketIInv, MarketShape, Drift
  <2>5. QED
    BY <1>3, <2>2, <2>3, <2>4 DEF Rest
<1>6. QED
  BY <1>2, <1>4, <1>5

\* The end of a round: all its orders are about the mid price it began with.
LEMMA EndRoundKeeps == ASSUME MarketIInv, NEW t \in Thread, EndRound(t) PROVE Rest'
<1>0. /\ kind = "injector" /\ pos = 2 * levels /\ ThreadStep(t)
      /\ pos' = 0 /\ firstRound' = FALSE
      /\ UNCHANGED <<feed, levels, removes>>
  BY DEF EndRound, RoundOver
<1>1. Next
  BY <1>0 DEF Next
<1>2. kind' = kind /\ threads' = {}
  BY <1>0, <1>1, KindStays, InjectorSteps DEF MarketIInv, OneWriter
<1>3. PICK d \in Shift : midPrice + d \in Drift /\ midPrice' = midPrice + d
  BY DEF EndRound, Drift
<1>4. levels \in Nat /\ midPrice \in Int /\ midPrice \in Drift /\ d \in Int
  BY <1>3, NumberAssumption DEF MarketIInv, MarketShape, Drift, Shift, Tick
<1>5. MarketShape'
  BY <1>0, <1>3, <1>4 DEF MarketIInv, MarketShape, feed, Drift
<1>6. SidesSound'
  BY <1>0 DEF MarketIInv, SidesSound, SideSound, InOrder, Unique, Before, feed
<1>7. OneWriter'
  BY <1>0, <1>2, <1>4 DEF OneWriter
<1>8. Streamed'
  <2>1. PICK m \in Drift : StreamedFrom(m)
    BY <1>0 DEF MarketIInv, Streamed
  <2>2. Own("bid")' = Own("bid") /\ Own("ask")' = Own("ask")
    BY <1>0 DEF Own, Snapshot, feed
  <2>3. ASSUME NEW b \in Own("bid") PROVE b.id \in 1 .. levels /\ b.price = midPrice - (b.id - 1) * Tick
    <3>1. b.id \in 1 .. levels
      BY DEF Own
    <3>2. b.id <= pos
      BY <1>0, <1>4, <3>1
    <3>3. QED
      BY <2>1, <3>1, <3>2 DEF StreamedFrom
  <2>4. ASSUME NEW a \in Own("ask")
        PROVE  a.id \in 1000 .. 999 + levels /\ a.price = midPrice + (a.id - 1000) * Tick
    <3>1. a.id \in 1000 .. 999 + levels
      BY DEF Own
    <3>2. levels + (a.id - 1000) < pos
      BY <1>0, <1>4, <3>1
    <3>3. QED
      BY <2>1, <3>1, <3>2 DEF StreamedFrom
  <2>5. \A b \in Own("bid") : ~(b.id <= 0)
    BY <1>4, <2>3
  <2>6. \A a \in Own("ask") : ~(levels + (a.id - 1000) < 0)
    BY <1>4, <2>4
  <2>7. /\ \A b \in Own("bid")' :
              /\ b.id <= pos' => b.price = midPrice' - (b.id - 1) * Tick
              /\ b.id > pos' /\ ~firstRound' => b.price = midPrice - (b.id - 1) * Tick
        /\ \A a \in Own("ask")' :
              /\ levels' + (a.id - 1000) < pos' => a.price = midPrice' + (a.id - 1000) * Tick
              /\ levels' + (a.id - 1000) >= pos' /\ ~firstRound' =>
                    a.price = midPrice + (a.id - 1000) * Tick
    BY <1>0, <2>2, <2>3, <2>4, <2>5, <2>6
  <2>8. midPrice' - midPrice \in Shift
    BY <1>3, <1>4 DEF Shift, Tick
  <2>9. PICK n \in Drift : n = midPrice
    BY <1>4
  <2>10. StreamedFrom(n)' /\ midPrice' - n \in Shift
    BY <2>7, <2>8, <2>9 DEF StreamedFrom
  <2>11. QED
    BY <2>10 DEF Streamed, Drift, Shift
<1>9. QED
  BY <1>5, <1>6, <1>7, <1>8 DEF Rest

\* An order of the UDP pipeline.
LEMMA ProcessOrderKeeps == ASSUME MarketIInv, NEW t \in Thread, ProcessOrder(t) PROVE Rest'
<1>1. /\ kind # "injector" /\ pos' = 1
      /\ UNCHANGED <<vars, levels, midPrice, firstRound, removes>>
  BY DEF ProcessOrder
<1>2. PICK p \in Packet : Upsert(t, p.side, p.order)
  BY DEF ProcessOrder
<1>3. p.side \in Side /\ p.order \in Order
  BY PacketAssumption DEF Order
<1>4. callback \in BOOLEAN
  BY DEF MarketIInv, MarketShape
<1>5. /\ SidesSound'
      /\ mutex' \in Thread \cup {User, Nobody} /\ callback' \in BOOLEAN
  BY <1>2, <1>3, <1>4, UpsertKeeps DEF MarketIInv
<1>6. kind' # "injector"
  BY <1>1 DEF vars, construction
<1>7. MarketShape'
  BY <1>1, <1>5 DEF MarketIInv, MarketShape, Drift
<1>8. QED
  BY <1>5, <1>6, <1>7 DEF Rest, OneWriter, Streamed

LEMMA OrderProcessedKeeps == ASSUME MarketIInv, NEW t \in Thread, OrderProcessed(t) PROVE Rest'
<1>1. /\ kind # "injector" /\ ThreadStep(t) /\ pos' = 0
      /\ UNCHANGED <<feed, levels, midPrice, firstRound, removes>>
  BY DEF OrderProcessed
<1>2. kind' # "injector"
  BY <1>1, KindStays DEF Next
<1>3. MarketShape'
  BY <1>1 DEF MarketIInv, MarketShape, Drift, feed
<1>4. SidesSound'
  BY <1>1 DEF MarketIInv, SidesSound, SideSound, InOrder, Unique, Before, feed
<1>5. QED
  BY <1>2, <1>3, <1>4 DEF Rest, OneWriter, Streamed

\* A removal.
LEMMA UserRemovesKeeps ==
  ASSUME MarketIInv, NEW side \in Side, NEW id, UserRemoves(side, id)
  PROVE  Rest'
<1>1. /\ RemoveOrder(User, side, id) /\ removes' = removes + 1
      /\ UNCHANGED <<vars, levels, midPrice, pos, firstRound>>
  BY DEF UserRemoves
<1>2. UNCHANGED <<kind, threads, member, pc>>
  BY <1>1 DEF vars, construction, control
<1>3. callback \in BOOLEAN
  BY DEF MarketIInv, MarketShape
<1>4. /\ SidesSound'
      /\ mutex' \in Thread \cup {User, Nobody} /\ callback' \in BOOLEAN
      /\ \A u \in Side : ToSet(book'[u]) \subseteq ToSet(book[u])
  BY <1>1, <1>3, RemoveKeeps DEF MarketIInv
<1>5. MarketShape'
  BY <1>1, <1>4 DEF MarketIInv, MarketShape, Drift
<1>6. OneWriter'
  BY <1>1, <1>2 DEF MarketIInv, OneWriter
<1>7. Streamed'
  BY <1>1, <1>2, <1>4, StreamStays DEF MarketIInv
<1>8. QED
  BY <1>4, <1>5, <1>6, <1>7 DEF Rest

\* The update callback returns.
LEMMA CallbackKeeps ==
  ASSUME MarketIInv, NEW c, UpdateCallbackReturns(c)
  PROVE  Rest'
<1>1. /\ mutex' = Nobody
      /\ UNCHANGED <<book, callback>> /\ UNCHANGED vars /\ UNCHANGED market
  BY DEF UpdateCallbackReturns, CallbackReturns
<1>2. UNCHANGED <<kind, threads, member, pc>>
  BY <1>1 DEF vars, construction, control
<1>3. MarketShape'
  BY <1>1 DEF MarketIInv, MarketShape, Drift, market
<1>4. SidesSound'
  BY <1>1 DEF MarketIInv, SidesSound, SideSound, InOrder, Unique, Before
<1>5. OneWriter'
  BY <1>1, <1>2 DEF MarketIInv, OneWriter, market
<1>6. Streamed'
  BY <1>1, <1>2, StreamStays DEF MarketIInv, market
<1>7. QED
  BY <1>3, <1>4, <1>5, <1>6 DEF Rest

LEMMA MarketNextIInv == ASSUME MarketIInv, [MarketNext]_marketVars PROVE MarketIInv'
<1>1. IInv'
  BY StepsAreServiceSteps, NextIInv DEF MarketIInv
<1>2. Rest'
  <2>1. CASE InjectorBegins
    BY <2>1, BeginsKeeps
  <2>2. CASE (Owner \/ Join) /\ UNCHANGED <<feed, market>>
    <3>1. Next
      BY <2>2 DEF Owner, Next
    <3>2. kind = "injector" /\ pos # 0 => ~ThreadStep(member)
      <4>1. SUFFICES ASSUME kind = "injector", pos # 0, ThreadStep(member) PROVE FALSE
        OBVIOUS
      <4>2. threads = {} /\ member \in Thread /\ pc[member] = "callback"
        BY <4>1 DEF MarketIInv, OneWriter
      <4>3. pc'[member] = "sleep" /\ pc \in [Thread -> Places]
        BY <4>1, <4>2 DEF ThreadStep, TcpReadLoop, UdpReadLoop, ManagerLoop, HeartbeatLoop,
             InjectLoop, ListenLoop, ClientLoop, While, Callback, Sleep, Goto, MarketIInv, IInv, Shape
      <4>4. pc' = pc
        <5>1. CASE CtorStep \/ AddConnectionThrows \/ CtorThrows \/ Built \/ Stop \/ Destroy
          BY <5>1 DEF CtorStep, AddConnectionThrows, CtorThrows, Built, Stop, Destroy
        <5>2. CASE kind # "injector" /\ Start
          BY <4>1, <5>2
        <5>3. CASE Join
          BY <4>2, <5>3 DEF Join, JoinMember, JoinInVector, StopReturns
        <5>4. QED
          BY <2>2, <5>1, <5>2, <5>3 DEF Owner
      <4>5. QED
        BY <4>2, <4>3, <4>4
    <3>3. QED
      BY <2>2, <3>1, <3>2, QuietKeeps
  <2>3. ASSUME NEW t \in Thread, Writer(t) PROVE Rest'
    <3>1. CASE /\ kind \in Writers => pc[t] # "callback"
               /\ ThreadStep(t) /\ UNCHANGED <<feed, market>>
      <4>1. Next
        BY <3>1 DEF Next
      <4>2. kind = "injector" /\ pos # 0 => ~ThreadStep(member)
        <5>1. SUFFICES ASSUME kind = "injector", pos # 0, ThreadStep(member) PROVE FALSE
          OBVIOUS
        <5>2. member \in Thread /\ pc[member] = "callback" /\ pc \in [Thread -> Places]
          BY <5>1 DEF MarketIInv, OneWriter, IInv, Shape
        <5>3. pc'[member] = "sleep"
          BY <5>1, <5>2 DEF ThreadStep, TcpReadLoop, UdpReadLoop, ManagerLoop, HeartbeatLoop,
             InjectLoop, ListenLoop, ClientLoop, While, Callback, Sleep, Goto
        <5>4. \A u \in Thread : u # t => pc'[u] = pc[u]
          BY <3>1, <5>1, <5>2 DEF ThreadStep, TcpReadLoop, UdpReadLoop, ManagerLoop, HeartbeatLoop,
             InjectLoop, ListenLoop, ClientLoop, While, Callback, Sleep, Goto
        <5>5. QED
          BY <3>1, <5>1, <5>2, <5>3, <5>4 DEF Writers
      <4>3. QED
        BY <3>1, <4>1, <4>2, QuietKeeps
    <3>2. QED
      BY <2>3, <3>1, InjectKeeps, EndRoundKeeps, ProcessOrderKeeps, OrderProcessedKeeps DEF Writer
  <2>4. CASE \E c \in Thread \cup {User} : UpdateCallbackReturns(c)
    BY <2>4, CallbackKeeps
  <2>5. CASE \E side \in Side : \E id : UserRemoves(side, id)
    BY <2>5, UserRemovesKeeps
  <2>6. CASE UNCHANGED marketVars
    <3>1. UNCHANGED <<kind, threads, member, pc>> /\ UNCHANGED feed /\ UNCHANGED market
      BY <2>6 DEF marketVars, vars, construction, control
    <3>2. MarketShape' /\ SidesSound'
      BY <3>1 DEF MarketIInv, MarketShape, SidesSound, SideSound, InOrder, Unique, Before, feed, market, Drift
    <3>3. OneWriter'
      BY <3>1 DEF MarketIInv, OneWriter, market
    <3>4. Streamed'
      BY <3>1, StreamStays DEF MarketIInv, feed, market
    <3>5. QED
      BY <3>2, <3>3, <3>4 DEF Rest
  <2>7. QED
    BY <2>1, <2>2, <2>3, <2>4, <2>5, <2>6 DEF MarketNext
<1>3. QED
  BY <1>1, <1>2 DEF MarketIInv, Rest

-----------------------------------------------------------------------------
(* The theorems. *)

\* Nothing that the injector, the pipeline, the owner and the user do takes the
\* components out of step with each other.
THEOREM MarketInvariant == MarketSpec => []MarketIInv
<1>1. MarketInit => MarketIInv
  BY MarketInitIInv
<1>2. MarketIInv /\ [MarketNext]_marketVars => MarketIInv'
  BY MarketNextIInv
<1>3. QED
  BY <1>1, <1>2, PTL DEF MarketSpec

\* Whoever updates the book, it stays sorted, holds an id once and keeps its depth.
THEOREM BookStaysSound == MarketSpec => []BookSound
<1>1. MarketIInv => BookSound
  BY DEF MarketIInv, SidesSound, SideSound, Unique, BookSound
<1>2. QED
  BY <1>1, MarketInvariant, PTL

\* upsert makes room by giving up the worst order.
THEOREM WorstIsDropped == MarketSpec => DepthDropsWorst
<1> DEFINE Dropped ==
      \A side \in Side : \A o \in ToSet(book[side]) :
          removes' = removes /\ (\A p \in ToSet(book'[side]) : p.id # o.id) =>
              /\ Len(book'[side]) = MaxLevels
              /\ \A p \in ToSet(book'[side]) : ~Before(side, o, p)
<1>1. ASSUME MarketIInv, [MarketNext]_marketVars PROVE [Dropped]_marketVars
  <2>1. SUFFICES ASSUME MarketNext PROVE Dropped
    BY <1>1
  <2>2. CASE book' = book
    BY <2>2
  <2>3. ASSUME NEW c \in Thread \cup {User}, NEW side \in Side, NEW o \in Order, Upsert(c, side, o)
        PROVE  Dropped
    <3>1. callback \in BOOLEAN /\ SidesSound
      BY <1>1 DEF MarketIInv, MarketShape
    <3>2. /\ \A u \in Side : u # side => book'[u] = book[u]
          /\ \A x \in ToSet(book[side]) :
                (\A p \in ToSet(book'[side]) : p.id # x.id) =>
                    Len(book'[side]) = MaxLevels /\ \A p \in ToSet(book'[side]) : ~Before(side, x, p)
      BY <2>3, <3>1, UpsertKeeps
    <3>3. ASSUME NEW u \in Side, NEW x \in ToSet(book[u]), \A p \in ToSet(book'[u]) : p.id # x.id
          PROVE  Len(book'[u]) = MaxLevels /\ \A p \in ToSet(book'[u]) : ~Before(u, x, p)
      BY <3>2, <3>3
    <3>4. QED
      BY <3>3
  <2>4. CASE \E t \in Thread : Inject(t)
    <3>1. PICK t \in Thread : Inject(t)
      BY <2>4
    <3>2. levels \in Nat /\ pos \in Nat /\ midPrice \in Int
      BY <1>1, NumberAssumption DEF MarketIInv, MarketShape, Drift
    <3>3. CASE pos < levels
      <4>1. Upsert(t, "bid", Bid(pos)) /\ Bid(pos) \in Order
        BY <3>1, <3>2, <3>3 DEF Inject, Bid, Order, Tick
      <4>2. QED
        BY <2>3, <4>1 DEF Side
    <3>4. CASE ~(pos < levels)
      <4>1. Upsert(t, "ask", Ask(pos - levels)) /\ Ask(pos - levels) \in Order
        BY <3>1, <3>2, <3>4 DEF Inject, Ask, Order, Tick
      <4>2. QED
        BY <2>3, <4>1 DEF Side
    <3>5. QED
      BY <3>3, <3>4
  <2>5. CASE \E t \in Thread : ProcessOrder(t)
    <3>1. PICK t \in Thread, p \in Packet : Upsert(t, p.side, p.order)
      BY <2>5 DEF ProcessOrder
    <3>2. p.side \in Side /\ p.order \in Order
      BY PacketAssumption DEF Order
    <3>3. QED
      BY <2>3, <3>1, <3>2
  <2>6. CASE \E side \in Side : \E id : UserRemoves(side, id)
    <3>1. removes \in Nat
      BY <1>1 DEF MarketIInv, MarketShape
    <3>2. removes' # removes
      BY <2>6, <3>1 DEF UserRemoves
    <3>3. QED
      BY <3>2
  <2>7. QED
    <3>1. \/ book' = book \/ (\E t \in Thread : Inject(t)) \/ (\E t \in Thread : ProcessOrder(t))
          \/ \E side \in Side : \E id : UserRemoves(side, id)
      BY <2>1 DEF MarketNext, InjectorBegins, Writer, EndRound, OrderProcessed,
                  UpdateCallbackReturns, CallbackReturns, feed
    <3>2. QED
      BY <2>2, <2>4, <2>5, <2>6, <3>1
<1>2. QED
  BY <1>1, MarketInvariant, PTL DEF MarketSpec, DepthDropsWorst

\* The new bids of a round beside the asks of the last one cross by at most a
\* tick, because the mid price has moved by no more; there is no other mixture, as the bids are
\* written first.
THEOREM CrossingIsSmall == MarketSpec => []CrossedAtMostTick
<1>1. ASSUME MarketIInv PROVE CrossedAtMostTick
  <2>1. SUFFICES ASSUME kind = "injector", ~firstRound, NEW b \in Own("bid"), NEW a \in Own("ask")
                 PROVE  b.price - a.price <= Tick
    BY DEF CrossedAtMostTick
  <2>2. PICK m \in Drift : midPrice - m \in Shift /\ StreamedFrom(m)
    BY <1>1, <2>1 DEF MarketIInv, Streamed
  <2>3. levels \in Nat /\ pos \in Nat /\ midPrice \in Int /\ m \in Int
    BY <1>1, <2>2, NumberAssumption DEF MarketIInv, MarketShape, Drift
  <2>4. PICK i \in Int : i = b.id - 1 /\ 0 <= i /\ i < levels
    <3>1. b.id \in 1 .. levels
      BY DEF Own
    <3>2. QED
      BY <2>3, <3>1
  <2>5. PICK j \in Int : j = a.id - 1000 /\ 0 <= j /\ j < levels
    <3>1. a.id \in 1000 .. 999 + levels
      BY DEF Own
    <3>2. QED
      BY <2>3, <3>1
  <2>6. b.id \in Nat /\ a.id \in Nat
    BY <1>1, OwnTyped DEF MarketIInv
  <2>7. /\ i < pos => b.price = midPrice - i * Tick
        /\ ~(i < pos) => b.price = m - i * Tick
    <3>1. /\ b.id <= pos => b.price = midPrice - (b.id - 1) * Tick
          /\ b.id > pos => b.price = m - (b.id - 1) * Tick
      BY <2>1, <2>2 DEF StreamedFrom
    <3>2. QED
      BY <2>3, <2>4, <2>6, <3>1
  <2>8. /\ levels + j < pos => a.price = midPrice + j * Tick
        /\ ~(levels + j < pos) => a.price = m + j * Tick
    <3>1. /\ levels + (a.id - 1000) < pos => a.price = midPrice + (a.id - 1000) * Tick
          /\ levels + (a.id - 1000) >= pos => a.price = m + (a.id - 1000) * Tick
      BY <2>1, <2>2 DEF StreamedFrom
    <3>2. QED
      BY <2>3, <2>5, <2>6, <3>1
  <2>9. midPrice - m <= Tick
    BY <2>2, <2>3 DEF Shift, Tick
  <2>10. QED
    BY <2>3, <2>4, <2>5, <2>7, <2>8, <2>9 DEF Tick
<1>2. QED
  BY <1>1, MarketInvariant, PTL

\* stop() waits for the thread, and the thread for the end of its round.
THEOREM RestsOnWholeRounds == MarketSpec => []WholeRoundsAtRest
<1>1. ASSUME MarketIInv PROVE WholeRoundsAtRest
  <2>1. SUFFICES ASSUME kind = "injector", owner \in {"stopped", "gone"}, ~firstRound
                 PROVE  \E m \in Drift :
                            /\ \A b \in Own("bid") : b.price = m - (b.id - 1) * Tick
                            /\ \A a \in Own("ask") : a.price = m + (a.id - 1000) * Tick
    BY DEF WholeRoundsAtRest, Drift
  <2>2. member = NoThread
    BY <1>1, <2>1 DEF MarketIInv, IInv, NoneHeld
  <2>3. pos = 0
    BY <1>1, <2>1, <2>2, ThreadAssumption DEF MarketIInv, OneWriter
  <2>4. PICK m \in Drift : StreamedFrom(m)
    BY <1>1, <2>1 DEF MarketIInv, Streamed
  <2>5. levels \in Nat
    BY <1>1 DEF MarketIInv, MarketShape
  <2>6. \A b \in Own("bid") : b.id > pos
    BY <2>3, <2>5 DEF Own
  <2>7. \A a \in Own("ask") : levels + (a.id - 1000) >= pos
    BY <2>3, <2>5 DEF Own
  <2>8. QED
    BY <2>1, <2>4, <2>6, <2>7 DEF StreamedFrom
<1>2. QED
  BY <1>1, MarketInvariant, PTL
=============================================================================
