------------------------- MODULE PriceLevelsProofs -------------------------
(***************************************************************************)
(* The safety properties of PriceLevels, for pools, levels and widths of   *)
(* every size.                                                             *)
(*                                                                         *)
(* That the links spell the queues is not inductive alone: unlinkFromLevel *)
(* writes through prev and idx, which it set several steps before.  What it*)
(* needs is WalkSound, the place of the walk in the list.  The totals are  *)
(* carried along as sums over the set of a level's entries.                *)
(***************************************************************************)
EXTENDS PriceLevels, DataTheorems, TLAPS

\* unlinkFromLevel is at some place of the list of the entry's level: prev is the
\* entry before the place, idx the one behind it, and it has not passed the entry it
\* looks for.
WalkSound ==
    target # NONE =>
        LET q == queue[levelIndex[target]]
        IN \E n \in 0 .. Len(q) :
              /\ prev = IF n = 0 THEN NONE ELSE q[n]
              /\ idx = IF n = Len(q) THEN NONE ELSE q[n + 1]
              /\ \A m \in 1 .. n : q[m] # target

\* The inductive invariant.
IInv == TypeOK /\ ListsMatchQueues /\ WalkSound

-----------------------------------------------------------------------------
\* The empty book satisfies it.
LEMMA InitIInv == Init => IInv
<1>1. SUFFICES ASSUME Init PROVE IInv
  OBVIOUS
<1>2. TypeOK
  <2>1. 0 \in 0 .. QtyMod - 1 /\ 0 \in 0 .. PriceMod - 1 /\ 1 \in 0 .. PriceMod - 1 /\ 0 \in Level
    BY WidthAssumption DEF Level
  <2>2. NONE \in Pointer /\ <<>> \in Seq(Entry)
    BY DEF Pointer
  <2>3. QED
    BY <1>1, <2>1, <2>2, Zenon DEF Init, TypeOK
<1>3. ListsMatchQueues
  BY <1>1 DEF Init, ListsMatchQueues
<1>4. QED
  BY <1>1, <1>2, <1>3 DEF Init, IInv, WalkSound

\* The lists as far as the steps of the walk read them.
LEMMA ListFacts ==
  ASSUME TypeOK, ListsMatchQueues, NEW l \in Level
  PROVE  /\ queue[l] \in Seq(Entry) /\ Len(queue[l]) \in Nat
         /\ \A n \in 1 .. Len(queue[l]) : queue[l][n] \in Entry /\ queue[l][n] # NONE
         /\ head[l] = IF Len(queue[l]) = 0 THEN NONE ELSE queue[l][1]
         /\ tail[l] = IF Len(queue[l]) = 0 THEN NONE ELSE queue[l][Len(queue[l])]
         /\ \A n \in 1 .. Len(queue[l]) :
               /\ nextIndex[queue[l][n]] = IF n = Len(queue[l]) THEN NONE ELSE queue[l][n + 1]
               /\ levelIndex[queue[l][n]] = l
         /\ \A m, n \in 1 .. Len(queue[l]) : queue[l][m] = queue[l][n] => m = n
<1>1. queue[l] \in Seq(Entry)
  BY DEF TypeOK
<1>2. queue[l] = <<>> <=> Len(queue[l]) = 0
  BY <1>1
<1>3. \A n \in 1 .. Len(queue[l]) : queue[l][n] \in Entry /\ queue[l][n] # NONE
  BY <1>1, EntryAssumption
<1>4. QED
  BY <1>1, <1>2, <1>3 DEF ListsMatchQueues

\* An entry is linked if it has a place in the list of some level.
LEMMA LinkedIs ==
  ASSUME TypeOK, NEW e
  PROVE  e \in Linked <=> \E l \in Level : \E n \in 1 .. Len(queue[l]) : queue[l][n] = e
<1>1. \A l \in Level : DOMAIN queue[l] = 1 .. Len(queue[l])
  BY DEF TypeOK
<1>2. QED
  BY <1>1 DEF Linked, ToSet

\* appendToLevel puts an entry that was in no list behind the last one of a level.
LEMMA AppendIInv ==
  ASSUME IInv, NEW l \in Level, NEW e \in Entry, NEW q \in Quantity, AppendToLevel(l, e, q)
  PROVE  IInv'
<1>1. TypeOK /\ ListsMatchQueues
  BY DEF IInv
<1>2. /\ queue' = [queue EXCEPT ![l] = Append(queue[l], e)]
      /\ target = NONE /\ target' = NONE
      /\ levelIndex' = [levelIndex EXCEPT ![e] = l]
      /\ quantity' = [quantity EXCEPT ![e] = q]
      /\ totalQty' = [totalQty EXCEPT ![l] = (totalQty[l] + q) % QtyMod]
      /\ tail' = [tail EXCEPT ![l] = e]
      /\ head' = IF tail[l] # NONE THEN head ELSE [head EXCEPT ![l] = e]
      /\ nextIndex' = IF tail[l] # NONE THEN [nextIndex EXCEPT ![e] = NONE, ![tail[l]] = e]
                                        ELSE [nextIndex EXCEPT ![e] = NONE]
      /\ UNCHANGED <<refPrice, tickSize, target, prev, idx, emptied>>
  BY DEF AppendToLevel, AddToTotal, Link, walkVars, priceVars
<1>3. \A m \in Level : \A n \in 1 .. Len(queue[m]) : queue[m][n] # e
  BY <1>1, LinkedIs DEF AppendToLevel
<1>4. /\ queue' \in [Level -> Seq(Entry)]
      /\ \A m \in Level : m # l => queue'[m] = queue[m]
      /\ Len(queue'[l]) = Len(queue[l]) + 1
      /\ queue'[l][Len(queue[l]) + 1] = e
      /\ \A n \in 1 .. Len(queue[l]) : queue'[l][n] = queue[l][n]
  BY <1>1, <1>2, AppendProperties DEF TypeOK
<1>5. TypeOK'
  <2>1. (totalQty[l] + q) % QtyMod \in 0 .. QtyMod - 1
    BY <1>1, WidthAssumption, AmountAssumption DEF TypeOK
  <2>2. q \in 0 .. QtyMod - 1
    BY AmountAssumption
  <2>3. /\ head' \in [Level -> Pointer] /\ tail' \in [Level -> Pointer]
        /\ nextIndex' \in [Entry -> Pointer]
    BY <1>1, <1>2 DEF TypeOK, Pointer
  <2>4. QED
    BY <1>1, <1>2, <1>4, <2>1, <2>2, <2>3, ZenonT(60) DEF TypeOK
<1>6. ListsMatchQueues'
  <2>1. SUFFICES ASSUME NEW m \in Level
        PROVE  /\ head'[m] = IF Len(queue'[m]) = 0 THEN NONE ELSE queue'[m][1]
               /\ tail'[m] = IF Len(queue'[m]) = 0 THEN NONE ELSE queue'[m][Len(queue'[m])]
               /\ \A n \in 1 .. Len(queue'[m]) :
                     /\ nextIndex'[queue'[m][n]] =
                          IF n = Len(queue'[m]) THEN NONE ELSE queue'[m][n + 1]
                     /\ levelIndex'[queue'[m][n]] = m
               /\ \A k, n \in 1 .. Len(queue'[m]) : queue'[m][k] = queue'[m][n] => k = n
    <3>1. \A m \in Level : queue'[m] = <<>> <=> Len(queue'[m]) = 0
      BY <1>4
    <3>2. QED
      BY <2>1, <3>1 DEF ListsMatchQueues
  <2>2. CASE m # l
    <3>1. \A n \in 1 .. Len(queue[m]) : queue[m][n] # e /\ (tail[l] # NONE => queue[m][n] # tail[l])
      <4>1. tail[l] # NONE => levelIndex[tail[l]] = l
        BY <1>1, ListFacts
      <4>2. \A n \in 1 .. Len(queue[m]) : levelIndex[queue[m][n]] = m
        BY <1>1, ListFacts
      <4>3. QED
        BY <1>3, <2>2, <4>1, <4>2
    <3>2. \A n \in 1 .. Len(queue[m]) : /\ queue[m][n] \in Entry
                                       /\ nextIndex'[queue[m][n]] = nextIndex[queue[m][n]]
                                       /\ levelIndex'[queue[m][n]] = levelIndex[queue[m][n]]
      BY <1>1, <1>2, <3>1, ListFacts DEF TypeOK
    <3>3. head'[m] = head[m] /\ tail'[m] = tail[m]
      BY <1>1, <1>2, <2>2 DEF TypeOK
    <3>4. queue'[m] = queue[m]
      BY <1>4, <2>2
    <3>5. QED
      BY <1>1, <3>2, <3>3, <3>4, ListFacts
  <2>3. CASE m = l
    <3>1. Len(queue[l]) = 0 <=> tail[l] = NONE
      BY <1>1, ListFacts
    <3>2. head'[l] = IF Len(queue[l]) = 0 THEN e ELSE head[l]
      BY <1>1, <1>2, <3>1 DEF TypeOK
    <3>3. tail'[l] = e
      BY <1>1, <1>2 DEF TypeOK
    <3>4. \A n \in 1 .. Len(queue[l]) :
             nextIndex'[queue[l][n]] = IF n = Len(queue[l]) THEN e ELSE queue[l][n + 1]
      <4>1. ASSUME NEW n \in 1 .. Len(queue[l])
            PROVE  nextIndex'[queue[l][n]] = IF n = Len(queue[l]) THEN e ELSE nextIndex[queue[l][n]]
        <5>1. queue[l][n] \in Entry /\ queue[l][n] # e /\ tail[l] # NONE /\ tail[l] \in Entry
          BY <1>1, <1>3, <3>1, ListFacts
        <5>2. queue[l][n] = tail[l] <=> n = Len(queue[l])
          BY <1>1, ListFacts
        <5>3. QED
          BY <1>1, <1>2, <5>1, <5>2 DEF TypeOK
      <4>2. QED
        BY <1>1, <4>1, ListFacts
    <3>5. nextIndex'[e] = NONE
      <4>1. tail[l] # e
        BY <1>1, <1>3, <3>1, ListFacts, EntryAssumption
      <4>2. QED
        BY <1>1, <1>2, <4>1 DEF TypeOK
    <3>6. levelIndex'[e] = l /\ \A n \in 1 .. Len(queue[l]) : levelIndex'[queue[l][n]] = l
      BY <1>1, <1>2, ListFacts, ZenonT(60) DEF TypeOK
    <3>7. Len(queue[l]) \in Nat
      BY <1>1, ListFacts
    <3>8. head'[l] = queue'[l][1]
      BY <1>1, <1>4, <3>2, <3>7, ListFacts
    <3>9. ASSUME NEW n \in 1 .. Len(queue'[l])
          PROVE  /\ nextIndex'[queue'[l][n]] =
                       IF n = Len(queue'[l]) THEN NONE ELSE queue'[l][n + 1]
                 /\ levelIndex'[queue'[l][n]] = l
      <4>1. CASE n = Len(queue[l]) + 1
        BY <1>4, <3>5, <3>6, <3>7, <4>1
      <4>2. CASE n \in 1 .. Len(queue[l])
        <5>1. queue'[l][n] = queue[l][n] /\ n # Len(queue'[l])
          BY <1>4, <3>7, <4>2
        <5>2. queue'[l][n + 1] = IF n = Len(queue[l]) THEN e ELSE queue[l][n + 1]
          BY <1>4, <3>7, <4>2
        <5>3. nextIndex'[queue[l][n]] = IF n = Len(queue[l]) THEN e ELSE queue[l][n + 1]
          BY <3>4, <4>2
        <5>4. QED
          BY <3>6, <4>2, <5>1, <5>2, <5>3
      <4>3. QED
        BY <1>4, <3>7, <4>1, <4>2
    <3>10. ASSUME NEW k \in 1 .. Len(queue'[l]), NEW n \in 1 .. Len(queue'[l]),
                  queue'[l][k] = queue'[l][n]
           PROVE  k = n
      <4>1. \A i, j \in 1 .. Len(queue[l]) : queue[l][i] = queue[l][j] => i = j
        BY <1>1, ListFacts
      <4>2. QED
        BY <1>3, <1>4, <3>7, <3>10, <4>1, SMTT(60)
    <3>11. tail'[l] = queue'[l][Len(queue'[l])] /\ Len(queue'[l]) # 0
      BY <1>4, <3>3, <3>7
    <3>12. QED
      BY <2>3, <3>8, <3>9, <3>10, <3>11
  <2>4. QED
    BY <2>2, <2>3
<1>7. QED
  BY <1>2, <1>5, <1>6 DEF IInv, WalkSound

\* What UnlinkFound does, in terms of the place k at which the walk has found the entry.
LEMMA FoundNamed ==
  ASSUME IInv, UnlinkFound
  PROVE  /\ target \in Entry /\ levelIndex[target] \in Level
         /\ \E k \in 1 .. Len(queue[levelIndex[target]]) :
               LET l == levelIndex[target]
                   q == queue[l]
                   next == IF k = Len(q) THEN NONE ELSE q[k + 1]
               IN /\ target = q[k]
                  /\ head' = IF k = 1 THEN [head EXCEPT ![l] = next] ELSE head
                  /\ nextIndex' = IF k = 1
                                    THEN [nextIndex EXCEPT ![target] = NONE]
                                    ELSE [nextIndex EXCEPT ![q[k - 1]] = next, ![target] = NONE]
                  /\ tail' = [tail EXCEPT ![l] = IF k # Len(q) THEN @
                                                 ELSE IF k = 1 THEN NONE ELSE q[k - 1]]
                  /\ totalQty' = [totalQty EXCEPT ![l] = (@ - quantity[target]) % QtyMod]
                  /\ emptied' = (head'[l] = NONE)
                  /\ queue' = [queue EXCEPT ![l] = RemoveAt(q, k)]
<1>1. TypeOK /\ ListsMatchQueues /\ WalkSound /\ target # NONE /\ idx = target
  BY DEF IInv, UnlinkFound
<1>2. target \in Entry /\ levelIndex[target] \in Level
  BY <1>1 DEF TypeOK, Pointer
<1> DEFINE l == levelIndex[target]
           q == queue[l]
<1>3. PICK n \in 0 .. Len(q) : /\ prev = IF n = 0 THEN NONE ELSE q[n]
                               /\ idx = IF n = Len(q) THEN NONE ELSE q[n + 1]
  BY <1>1 DEF WalkSound
<1>4. /\ q \in Seq(Entry) /\ Len(q) \in Nat
      /\ \A m \in 1 .. Len(q) : q[m] \in Entry /\ q[m] # NONE
      /\ tail[l] = IF Len(q) = 0 THEN NONE ELSE q[Len(q)]
      /\ \A m \in 1 .. Len(q) : nextIndex[q[m]] = IF m = Len(q) THEN NONE ELSE q[m + 1]
      /\ \A m, k \in 1 .. Len(q) : q[m] = q[k] => m = k
  BY <1>1, <1>2, ListFacts
<1>5. /\ head' = IF prev = NONE THEN [head EXCEPT ![l] = nextIndex[target]] ELSE head
      /\ nextIndex' = IF prev = NONE
                        THEN [nextIndex EXCEPT ![target] = NONE]
                        ELSE [nextIndex EXCEPT ![prev] = nextIndex[target], ![target] = NONE]
      /\ tail' = [tail EXCEPT ![l] = IF tail[l] = target THEN prev ELSE tail[l]]
      /\ totalQty' = [totalQty EXCEPT ![l] = (totalQty[l] - quantity[target]) % QtyMod]
      /\ emptied' = (head'[l] = NONE)
      /\ queue' = [queue EXCEPT ![l] = RemoveFirst(q, target)]
  BY <1>1 DEF UnlinkFound, MendTail, TakeFromTotal, Emptied
<1> HIDE DEF l, q
<1>6. n + 1 \in 1 .. Len(q) /\ target = q[n + 1] /\ n # Len(q)
  BY <1>1, <1>3, <1>4
<1> DEFINE k == n + 1
<1>7. prev = NONE <=> k = 1
  BY <1>3, <1>4, <1>6
<1>8. k # 1 => prev = q[k - 1]
  BY <1>3
<1>9. nextIndex[target] = IF k = Len(q) THEN NONE ELSE q[k + 1]
  BY <1>4, <1>6
<1>10. tail[l] = target <=> k = Len(q)
  BY <1>4, <1>6
<1>11. RemoveFirst(q, target) = RemoveAt(q, k)
  BY <1>4, <1>6, RemoveFirstIs
<1>12. k \in 1 .. Len(q) /\ target = q[k]
  BY <1>6
<1> HIDE DEF k
<1>13. QED
  <2>1. tail' = [tail EXCEPT ![l] = IF k # Len(q) THEN tail[l]
                                   ELSE IF k = 1 THEN NONE ELSE q[k - 1]]
    BY <1>5, <1>7, <1>8, <1>10
  <2>2. head' = IF k = 1 THEN [head EXCEPT ![l] = IF k = Len(q) THEN NONE ELSE q[k + 1]] ELSE head
    BY <1>5, <1>7, <1>9
  <2>3. nextIndex' = IF k = 1
                       THEN [nextIndex EXCEPT ![target] = NONE]
                       ELSE [nextIndex EXCEPT ![q[k - 1]] = IF k = Len(q) THEN NONE ELSE q[k + 1],
                                              ![target] = NONE]
    BY <1>5, <1>7, <1>8, <1>9
  <2>4. QED
    BY <1>2, <1>5, <1>11, <1>12, <2>1, <2>2, <2>3, Zenon DEF l, q

\* Taking the entry out keeps the lists: its predecessor, or the head, takes over its
\* link, and the tail moves back if it was the last.
LEMMA FoundIInv ==
  ASSUME IInv, UnlinkFound
  PROVE  IInv'
<1>1. TypeOK /\ ListsMatchQueues /\ target \in Entry /\ levelIndex[target] \in Level
  BY FoundNamed DEF IInv
<1>2. PICK l \in Level, q \in Seq(Entry) : l = levelIndex[target] /\ q = queue[l]
  BY <1>1 DEF TypeOK
<1>3. PICK k \in 1 .. Len(q) :
         /\ target = q[k]
         /\ head' = IF k = 1 THEN [head EXCEPT ![l] = IF k = Len(q) THEN NONE ELSE q[k + 1]]
                             ELSE head
         /\ nextIndex' = IF k = 1
                           THEN [nextIndex EXCEPT ![target] = NONE]
                           ELSE [nextIndex EXCEPT ![q[k - 1]] = IF k = Len(q) THEN NONE ELSE q[k + 1],
                                                  ![target] = NONE]
         /\ tail' = [tail EXCEPT ![l] = IF k # Len(q) THEN tail[l]
                                        ELSE IF k = 1 THEN NONE ELSE q[k - 1]]
         /\ totalQty' = [totalQty EXCEPT ![l] = (totalQty[l] - quantity[target]) % QtyMod]
         /\ emptied' = (head'[l] = NONE)
         /\ queue' = [queue EXCEPT ![l] = RemoveAt(q, k)]
  BY <1>2, FoundNamed, Zenon
<1>4. /\ Len(q) \in Nat /\ k \in Nat \ {0} /\ k <= Len(q)
      /\ \A m \in 1 .. Len(q) : q[m] \in Entry /\ q[m] # NONE
      /\ head[l] = q[1] /\ tail[l] = q[Len(q)]
      /\ \A m \in 1 .. Len(q) : nextIndex[q[m]] = IF m = Len(q) THEN NONE ELSE q[m + 1]
      /\ \A m \in 1 .. Len(q) : levelIndex[q[m]] = l
  BY <1>1, <1>2, ListFacts
<1>0. \A m, n \in 1 .. Len(q) : q[m] = q[n] => m = n
  BY <1>1, <1>2, ListFacts
<1>5. /\ target' = NONE /\ prev' = NONE /\ idx' = NONE
      /\ UNCHANGED <<levelIndex, quantity, refPrice, tickSize>>
  BY DEF UnlinkFound, UnlinkDone, priceVars
<1>6. PICK r \in Seq(Entry) : r = RemoveAt(q, k)
  BY RemoveAtIs
<1>7. /\ Len(r) = Len(q) - 1
      /\ \A n \in 1 .. Len(q) - 1 : r[n] = IF n < k THEN q[n] ELSE q[n + 1]
  BY <1>6, RemoveAtIs
<1>8. /\ queue'[l] = r
      /\ \A m \in Level : m # l => queue'[m] = queue[m]
      /\ queue' \in [Level -> Seq(Entry)]
  BY <1>1, <1>3, <1>6 DEF TypeOK
<1>9. TypeOK'
  <2>1. k # 1 => k - 1 \in 1 .. Len(q)
    BY <1>4
  <2>2. k # Len(q) => k + 1 \in 1 .. Len(q)
    BY <1>4
  <2>3. /\ head' \in [Level -> Pointer] /\ tail' \in [Level -> Pointer]
        /\ nextIndex' \in [Entry -> Pointer]
    BY <1>1, <1>3, <1>4, <2>1, <2>2 DEF TypeOK, Pointer
  <2>4. (totalQty[l] - quantity[target]) % QtyMod \in 0 .. QtyMod - 1
    BY <1>1, WidthAssumption DEF TypeOK
  <2>5. totalQty' \in [Level -> 0 .. QtyMod - 1] /\ emptied' \in BOOLEAN
    BY <1>1, <1>3, <2>4 DEF TypeOK
  <2>6. QED
    BY <1>1, <1>5, <1>8, <2>3, <2>5 DEF TypeOK, Pointer
<1>10. ASSUME NEW m \in Level, m # l
       PROVE  /\ head'[m] = head[m] /\ tail'[m] = tail[m] /\ queue'[m] = queue[m]
              /\ \A n \in 1 .. Len(queue[m]) : nextIndex'[queue[m][n]] = nextIndex[queue[m][n]]
  <2>1. head'[m] = head[m] /\ tail'[m] = tail[m]
    BY <1>1, <1>3, <1>10 DEF TypeOK
  <2>2. \A n \in 1 .. Len(queue[m]) : queue[m][n] \in Entry /\ levelIndex[queue[m][n]] = m
    BY <1>1, ListFacts
  <2>3. levelIndex[target] = l /\ (k # 1 => levelIndex[q[k - 1]] = l)
    BY <1>2, <1>4
  <2>4. \A n \in 1 .. Len(queue[m]) :
           queue[m][n] # target /\ (k # 1 => queue[m][n] # q[k - 1])
    BY <1>10, <2>2, <2>3
  <2>5. QED
    BY <1>1, <1>3, <1>8, <1>10, <2>1, <2>2, <2>4 DEF TypeOK
<1>11. /\ head'[l] = IF Len(r) = 0 THEN NONE ELSE r[1]
       /\ tail'[l] = IF Len(r) = 0 THEN NONE ELSE r[Len(r)]
  <2>1. head'[l] = IF k # 1 THEN q[1] ELSE IF Len(q) = 1 THEN NONE ELSE q[2]
    <3>1. k = 1 => k + 1 = 2 /\ (k = Len(q) <=> Len(q) = 1)
      BY <1>4
    <3>2. head'[l] = IF k # 1 THEN head[l] ELSE IF k = Len(q) THEN NONE ELSE q[k + 1]
      BY <1>1, <1>3 DEF TypeOK
    <3>3. QED
      BY <1>4, <3>1, <3>2
  <2>2. Len(q) > 1 => r[1] = IF k = 1 THEN q[2] ELSE q[1]
    BY <1>4, <1>7
  <2>3. tail'[l] = IF k # Len(q) THEN q[Len(q)] ELSE IF k = 1 THEN NONE ELSE q[k - 1]
    BY <1>1, <1>3, <1>4 DEF TypeOK
  <2>4. Len(q) > 1 => r[Len(q) - 1] = IF k = Len(q) THEN q[k - 1] ELSE q[Len(q)]
    BY <1>4, <1>7
  <2>5. Len(r) = 0 <=> Len(q) = 1
    BY <1>4, <1>7
  <2>6. QED
    BY <1>4, <1>7, <2>1, <2>2, <2>3, <2>4, <2>5
<1>12. ASSUME NEW n \in 1 .. Len(r)
       PROVE  /\ nextIndex'[r[n]] = IF n = Len(r) THEN NONE ELSE r[n + 1]
              /\ levelIndex'[r[n]] = l
  <2>1. n \in 1 .. Len(q) /\ n + 1 \in 1 .. Len(q) /\ n + 2 \in Int
    BY <1>4, <1>7
  <2>2. levelIndex'[r[n]] = l
    BY <1>4, <1>5, <1>7, <2>1
  <2>3. CASE n + 1 < k
    <3>0. /\ n \in 1 .. Len(q) - 1 /\ n + 1 \in 1 .. Len(q) - 1 /\ n < k
          /\ k - 1 \in 1 .. Len(q) /\ n # k - 1 /\ n # k
      BY <1>4, <2>1, <2>3
    <3>1. r[n] = q[n] /\ r[n + 1] = q[n + 1] /\ n # Len(r)
      BY <1>7, <2>3, <3>0
    <3>2. q[n] # target /\ q[n] # q[k - 1] /\ q[n] \in Entry
      BY <1>0, <1>3, <1>4, <2>1, <3>0
    <3>3. nextIndex'[q[n]] = nextIndex[q[n]]
      BY <1>1, <1>3, <3>2 DEF TypeOK
    <3>4. nextIndex[q[n]] = q[n + 1]
      BY <1>4, <2>1
    <3>5. QED
      BY <2>2, <3>1, <3>3, <3>4
  <2>4. CASE n + 1 = k
    <3>0. /\ n \in 1 .. Len(q) - 1 /\ n < k /\ k - 1 = n /\ k # 1 /\ (n + 1) + 1 = k + 1
          /\ n # Len(r) => n + 1 \in 1 .. Len(q) - 1 /\ ~(n + 1 < k)
      BY <1>4, <1>7, <2>1, <2>4
    <3>1. r[n] = q[n] /\ (n # Len(r) => r[n + 1] = q[k + 1]) /\ k - 1 = n /\ k # 1
      BY <1>7, <3>0
    <3>2. q[n] # target /\ q[n] \in Entry
      BY <1>0, <1>3, <1>4, <2>1, <2>4
    <3>3. nextIndex'[q[n]] = IF k = Len(q) THEN NONE ELSE q[k + 1]
      BY <1>1, <1>3, <3>1, <3>2 DEF TypeOK
    <3>4. n = Len(r) <=> k = Len(q)
      BY <1>4, <1>7, <2>1, <2>4
    <3>5. QED
      BY <2>2, <3>1, <3>3, <3>4
  <2>5. CASE n >= k
    <3>0. /\ n \in 1 .. Len(q) - 1 /\ ~(n < k) /\ (n + 1) + 1 = n + 2
          /\ n # Len(r) => n + 1 \in 1 .. Len(q) - 1 /\ ~(n + 1 < k)
          /\ n + 1 # k /\ (k # 1 => k - 1 \in 1 .. Len(q) /\ n + 1 # k - 1)
      BY <1>4, <1>7, <2>1, <2>5
    <3>1. r[n] = q[n + 1] /\ (n # Len(r) => r[n + 1] = q[n + 2])
      BY <1>7, <3>0
    <3>2. q[n + 1] # target /\ (k # 1 => q[n + 1] # q[k - 1]) /\ q[n + 1] \in Entry
      BY <1>0, <1>3, <1>4, <2>1, <3>0
    <3>3. nextIndex'[q[n + 1]] = nextIndex[q[n + 1]]
      BY <1>1, <1>3, <3>2 DEF TypeOK
    <3>4. nextIndex[q[n + 1]] = IF n = Len(r) THEN NONE ELSE q[n + 2]
      BY <1>4, <1>7, <2>1
    <3>5. QED
      BY <2>2, <3>1, <3>3, <3>4
  <2>6. QED
    BY <1>4, <2>1, <2>3, <2>4, <2>5
<1>13. ASSUME NEW m \in 1 .. Len(r), NEW n \in 1 .. Len(r), r[m] = r[n]
       PROVE  m = n
  <2>1. /\ m \in 1 .. Len(q) /\ m + 1 \in 1 .. Len(q)
        /\ n \in 1 .. Len(q) /\ n + 1 \in 1 .. Len(q)
    BY <1>4, <1>7
  <2>2. /\ r[m] = q[IF m < k THEN m ELSE m + 1]
        /\ r[n] = q[IF n < k THEN n ELSE n + 1]
    BY <1>4, <1>7
  <2>3. (IF m < k THEN m ELSE m + 1) = (IF n < k THEN n ELSE n + 1)
    BY <1>0, <1>13, <2>1, <2>2
  <2>4. QED
    BY <1>4, <2>1, <2>3
<1>14. ListsMatchQueues'
  <2>1. \A m \in Level : queue'[m] = <<>> <=> Len(queue'[m]) = 0
    BY <1>8
  <2>2. ASSUME NEW m \in Level
        PROVE  /\ head'[m] = IF Len(queue'[m]) = 0 THEN NONE ELSE queue'[m][1]
               /\ tail'[m] = IF Len(queue'[m]) = 0 THEN NONE ELSE queue'[m][Len(queue'[m])]
               /\ \A n \in 1 .. Len(queue'[m]) :
                     /\ nextIndex'[queue'[m][n]] =
                          IF n = Len(queue'[m]) THEN NONE ELSE queue'[m][n + 1]
                     /\ levelIndex'[queue'[m][n]] = m
               /\ \A i, n \in 1 .. Len(queue'[m]) : queue'[m][i] = queue'[m][n] => i = n
    <3>1. CASE m = l
      BY <1>8, <1>11, <1>12, <1>13, <3>1
    <3>2. CASE m # l
      BY <1>1, <1>5, <1>10, <3>2, ListFacts
    <3>3. QED
      BY <3>1, <3>2
  <2>3. QED
    BY <2>1, <2>2 DEF ListsMatchQueues
<1>15. QED
  BY <1>5, <1>9, <1>14 DEF IInv, WalkSound

\* The steps of the walk that leave the lists alone, and the calls that change only
\* amounts, prices or everything.
LEMMA OtherStepsIInv ==
  ASSUME IInv,
         \/ Reset \/ UnlinkNext \/ UnlinkMissing \/ UNCHANGED vars
         \/ \E p \in RefPrice : SetReferencePrice(p)
         \/ \E t \in TickSize : SetTickSize(t)
         \/ \E e \in Entry : UnlinkStart(e)
         \/ \E e \in Entry, q \in Quantity : ReduceQuantity(e, q)
  PROVE  IInv'
<1>0. TypeOK /\ ListsMatchQueues /\ WalkSound
  BY DEF IInv
<1>1. ASSUME UNCHANGED <<head, tail, nextIndex, levelIndex, queue>> PROVE ListsMatchQueues'
  BY <1>0, <1>1 DEF ListsMatchQueues
<1>2. CASE Reset
  <2>1. TypeOK'
    BY <1>0, <1>2, WidthAssumption DEF Reset, NoLevels, TypeOK, Level, Pointer, entryVars, walkVars
  <2>2. ListsMatchQueues'
    BY <1>2 DEF Reset, NoLevels, ListsMatchQueues
  <2>3. QED
    BY <1>2, <2>1, <2>2 DEF Reset, walkVars, IInv, WalkSound
<1>3. CASE UnlinkNext
  <2>1. /\ target # NONE /\ target \in Entry /\ idx \in Entry
        /\ prev' = idx /\ idx' = nextIndex[idx]
        /\ UNCHANGED <<target, head, tail, totalQty, nextIndex, levelIndex, quantity,
                       refPrice, tickSize, emptied, queue>>
        /\ idx # target
    BY <1>0, <1>3 DEF UnlinkNext, TypeOK, Pointer, levelVars, entryVars, priceVars
  <2>2. TypeOK'
    BY <1>0, <2>1 DEF TypeOK, Pointer
  <2>3. PICK l \in Level, q \in Seq(Entry) : l = levelIndex[target] /\ q = queue[l]
    BY <1>0, <2>1 DEF TypeOK
  <2>4. PICK n \in 0 .. Len(q) : /\ prev = IF n = 0 THEN NONE ELSE q[n]
                                 /\ idx = IF n = Len(q) THEN NONE ELSE q[n + 1]
                                 /\ \A m \in 1 .. n : q[m] # target
    BY <1>0, <2>1, <2>3 DEF WalkSound
  <2>5. n # Len(q) /\ idx = q[n + 1] /\ n + 1 \in 1 .. Len(q)
    BY <2>1, <2>4, EntryAssumption
  <2>6. nextIndex[idx] = IF n + 1 = Len(q) THEN NONE ELSE q[(n + 1) + 1]
    BY <1>0, <2>3, <2>5, ListFacts
  <2>7. /\ n + 1 \in 0 .. Len(q)
        /\ prev' = IF n + 1 = 0 THEN NONE ELSE q[n + 1]
        /\ idx' = IF n + 1 = Len(q) THEN NONE ELSE q[(n + 1) + 1]
        /\ \A m \in 1 .. n + 1 : q[m] # target
    BY <2>1, <2>4, <2>5, <2>6
  <2>8. WalkSound'
    BY <2>1, <2>3, <2>7 DEF WalkSound
  <2>9. QED
    BY <1>1, <2>1, <2>2, <2>8 DEF IInv
<1>4. CASE UnlinkMissing
  <2>1. TypeOK'
    BY <1>0, <1>4
       DEF UnlinkMissing, UnlinkDone, TypeOK, Pointer, levelVars, entryVars, priceVars
  <2>2. QED
    BY <1>1, <1>4, <2>1
       DEF UnlinkMissing, UnlinkDone, levelVars, entryVars, IInv, WalkSound
<1>5. CASE UNCHANGED vars
  BY <1>0, <1>1, <1>5
     DEF vars, levelVars, entryVars, priceVars, walkVars, TypeOK, IInv, WalkSound
<1>6. CASE \E p \in RefPrice : SetReferencePrice(p)
  BY <1>0, <1>1, <1>6, AmountAssumption
     DEF SetReferencePrice, levelVars, entryVars, walkVars, TypeOK, IInv, WalkSound
<1>7. CASE \E t \in TickSize : SetTickSize(t)
  BY <1>0, <1>1, <1>7, AmountAssumption
     DEF SetTickSize, levelVars, entryVars, walkVars, TypeOK, IInv, WalkSound
<1>8. CASE \E e \in Entry : UnlinkStart(e)
  <2>1. PICK e \in Entry : UnlinkStart(e)
    BY <1>8
  <2>2. /\ target' = e /\ prev' = NONE /\ idx' = head[levelIndex[e]]
        /\ UNCHANGED <<head, tail, totalQty, nextIndex, levelIndex, quantity,
                       refPrice, tickSize, emptied, queue>>
    BY <2>1 DEF UnlinkStart, levelVars, entryVars, priceVars
  <2>3. PICK l \in Level, q \in Seq(Entry) : l = levelIndex[e] /\ q = queue[l]
    BY <1>0 DEF TypeOK
  <2>4. head[l] = IF Len(q) = 0 THEN NONE ELSE q[1]
    BY <1>0, <2>3, ListFacts
  <2>5. TypeOK'
    BY <1>0, <2>2, <2>3 DEF TypeOK, Pointer
  <2>6. /\ 0 \in 0 .. Len(q)
        /\ idx' = IF 0 = Len(q) THEN NONE ELSE q[0 + 1]
        /\ \A m \in 1 .. 0 : q[m] # target'
    BY <2>2, <2>3, <2>4
  <2>7. WalkSound'
    BY <2>2, <2>3, <2>6 DEF WalkSound
  <2>8. QED
    BY <1>1, <2>2, <2>5, <2>7 DEF IInv
<1>9. CASE \E e \in Entry, q \in Quantity : ReduceQuantity(e, q)
  <2>1. PICK e \in Entry, q \in Quantity : ReduceQuantity(e, q)
    BY <1>9
  <2>2. /\ target = NONE /\ q <= quantity[e]
        /\ quantity' = [quantity EXCEPT ![e] = quantity[e] - q]
        /\ totalQty' = [totalQty EXCEPT ![levelIndex[e]] = (totalQty[levelIndex[e]] - q) % QtyMod]
        /\ UNCHANGED <<head, tail, nextIndex, levelIndex, refPrice, tickSize, target, prev, idx,
                       emptied, queue>>
    BY <2>1 DEF ReduceQuantity, TakeFromTotal, priceVars, walkVars
  <2>3. quantity[e] - q \in 0 .. QtyMod - 1
    BY <1>0, <2>2, AmountAssumption, WidthAssumption DEF TypeOK
  <2>4. (totalQty[levelIndex[e]] - q) % QtyMod \in 0 .. QtyMod - 1
    BY <1>0, AmountAssumption, WidthAssumption DEF TypeOK
  <2>5. TypeOK'
    BY <1>0, <2>2, <2>3, <2>4 DEF TypeOK
  <2>6. QED
    BY <1>1, <2>2, <2>5 DEF IInv, WalkSound
<1>10. QED
  BY <1>2, <1>3, <1>4, <1>5, <1>6, <1>7, <1>8, <1>9

\* Every step keeps the invariant.
LEMMA NextIInv == IInv /\ [Next]_vars => IInv'
  BY AppendIInv, FoundIInv, OtherStepsIInv DEF Next, Unlink

\* The invariant holds at all times.
THEOREM PriceLevelsInvariant == Spec => []IInv
  BY InitIInv, NextIInv, PTL DEF Spec

\* Links, indices and amounts stay within their types, and the tick size that
\* priceToLevel divides by is never zero.
THEOREM LevelsTypeCorrect == Spec => []TypeOK
<1>1. IInv => TypeOK
  BY DEF IInv
<1>2. QED
  BY <1>1, PriceLevelsInvariant, PTL

\* Whatever was appended and unlinked, each level's links spell its entries in order
\* of arrival.
THEOREM LinksSpellQueues == Spec => []ListsMatchQueues
<1>1. IInv => ListsMatchQueues
  BY DEF IInv
<1>2. QED
  BY <1>1, PriceLevelsInvariant, PTL

-----------------------------------------------------------------------------
(* What unlinkFromLevel returns. *)

\* The entry found is the only one that leaves the lists.
LEMMA FoundLinked ==
  ASSUME IInv, UnlinkFound
  PROVE  /\ target \in Linked
         /\ Linked' = Linked \ {target}
         /\ emptied' <=> queue'[levelIndex[target]] = <<>>
<1>1. TypeOK /\ ListsMatchQueues /\ target \in Entry /\ levelIndex[target] \in Level
  BY FoundNamed DEF IInv
<1>2. TypeOK' /\ ListsMatchQueues'
  BY FoundIInv DEF IInv
<1>3. PICK l \in Level, q \in Seq(Entry) : l = levelIndex[target] /\ q = queue[l]
  BY <1>1 DEF TypeOK
<1>4. PICK k \in 1 .. Len(q) : /\ target = q[k]
                               /\ queue' = [queue EXCEPT ![l] = RemoveAt(q, k)]
                               /\ emptied' = (head'[l] = NONE)
  BY <1>3, FoundNamed, Zenon
<1>5. \A m \in Level : m # l => queue'[m] = queue[m]
  BY <1>1, <1>4 DEF TypeOK
<1>6. PICK r \in Seq(Entry) : r = queue'[l] /\ r = RemoveAt(q, k)
  BY <1>1, <1>2, <1>4 DEF TypeOK
<1>0. Len(q) \in Nat /\ k \in Nat \ {0} /\ k <= Len(q)
  OBVIOUS
<1>7. /\ Len(r) = Len(q) - 1
      /\ \A n \in 1 .. Len(q) - 1 : r[n] = IF n < k THEN q[n] ELSE q[n + 1]
  BY <1>6, RemoveAtIs
<1>8. \A m, n \in 1 .. Len(q) : q[m] = q[n] => m = n
  BY <1>1, <1>3, ListFacts
<1>9. target \in Linked
  BY <1>1, <1>3, <1>4, LinkedIs
<1>10. ASSUME NEW x PROVE x \in Linked' => x \in Linked /\ x # target
  <2>1. SUFFICES ASSUME x \in Linked' PROVE x \in Linked /\ x # target
    OBVIOUS
  <2>0. PICK m \in Level : \E n \in 1 .. Len(queue'[m]) : queue'[m][n] = x
    <3>1. \A j \in Level : DOMAIN queue'[j] = 1 .. Len(queue'[j])
      BY <1>2 DEF TypeOK
    <3>2. QED
      BY <2>1, <3>1 DEF Linked, ToSet
  <2>2. PICK n \in 1 .. Len(queue'[m]) : queue'[m][n] = x
    BY <2>0
  <2>3. CASE m = l
    <3>0. x = r[n] /\ n \in 1 .. Len(r)
      BY <1>6, <2>2, <2>3
    <3>1. n \in 1 .. Len(q) - 1 /\ n \in 1 .. Len(q) /\ n + 1 \in 1 .. Len(q) /\ n \in Int
      BY <1>0, <1>7, <3>0
    <3>2. PICK j \in 1 .. Len(q) : j # k /\ x = q[j]
      <4>1. CASE n < k
        <5>1. x = q[n] /\ n # k
          BY <1>0, <1>7, <3>0, <3>1, <4>1
        <5>2. QED
          BY <3>1, <5>1
      <4>2. CASE ~(n < k)
        <5>1. x = q[n + 1] /\ n + 1 # k
          BY <1>0, <1>7, <3>0, <3>1, <4>2
        <5>2. QED
          BY <3>1, <5>1
      <4>3. QED
        BY <4>1, <4>2
    <3>3. x # target
      BY <1>4, <1>8, <3>2
    <3>4. x \in Linked
      BY <1>1, <1>3, <3>2, LinkedIs
    <3>5. QED
      BY <3>3, <3>4
  <2>4. CASE m # l
    <3>1. n \in 1 .. Len(queue[m]) /\ queue[m][n] = x
      BY <1>5, <2>2, <2>4
    <3>2. levelIndex[x] = m
      BY <1>1, <3>1, ListFacts
    <3>3. x \in Linked
      BY <1>1, <3>1, LinkedIs
    <3>4. QED
      BY <1>3, <2>4, <3>2, <3>3
  <2>5. QED
    BY <2>3, <2>4
<1>11. ASSUME NEW x PROVE x \in Linked /\ x # target => x \in Linked'
  <2>1. SUFFICES ASSUME x \in Linked, x # target PROVE x \in Linked'
    OBVIOUS
  <2>0. PICK m \in Level : \E n \in 1 .. Len(queue[m]) : queue[m][n] = x
    BY <1>1, <2>1, LinkedIs
  <2>2. PICK n \in 1 .. Len(queue[m]) : queue[m][n] = x
    BY <2>0
  <2>3. \E j \in 1 .. Len(queue'[m]) : queue'[m][j] = x
    <3>1. CASE m = l
      <4>0. n \in 1 .. Len(q) /\ x = q[n]
        BY <1>3, <2>2, <3>1
      <4>1. n \in Int /\ k \in Int /\ n # k /\ n \in 1 .. Len(q) /\ x = q[n]
        BY <1>0, <1>4, <2>1, <4>0
      <4>2. CASE n < k
        <5>1. n \in 1 .. Len(q) - 1
          BY <1>0, <1>7, <4>1, <4>2
        <5>2. QED
          BY <1>0, <1>6, <1>7, <3>1, <4>1, <4>2, <5>1
      <4>3. CASE ~(n < k)
        <5>1. n - 1 \in 1 .. Len(q) - 1 /\ ~(n - 1 < k) /\ (n - 1) + 1 = n
          BY <1>0, <1>7, <4>1, <4>3
        <5>2. r[n - 1] = x
          BY <1>0, <1>7, <4>1, <5>1
        <5>3. QED
          BY <1>0, <1>6, <1>7, <3>1, <5>1, <5>2
      <4>4. QED
        BY <4>2, <4>3
    <3>2. CASE m # l
      BY <1>5, <2>2, <3>2
    <3>3. QED
      BY <3>1, <3>2
  <2>4. \A j \in Level : DOMAIN queue'[j] = 1 .. Len(queue'[j])
    BY <1>2 DEF TypeOK
  <2>5. QED
    BY <2>3, <2>4 DEF Linked, ToSet
<1>12. emptied' <=> queue'[l] = <<>>
  <2>1. head'[l] = IF queue'[l] = <<>> THEN NONE ELSE queue'[l][1]
    BY <1>2 DEF ListsMatchQueues
  <2>2. queue'[l] # <<>> => queue'[l][1] \in Entry
    BY <1>6
  <2>3. QED
    BY <1>4, <2>1, <2>2, EntryAssumption
<1>13. QED
  BY <1>3, <1>9, <1>10, <1>11, <1>12

\* An entry that the walk does not find is in no list.
LEMMA MissingNotLinked ==
  ASSUME IInv, UnlinkMissing
  PROVE  target \notin Linked
<1>1. TypeOK /\ ListsMatchQueues /\ WalkSound /\ target # NONE /\ idx = NONE
  BY DEF IInv, UnlinkMissing
<1>2. target \in Entry
  BY <1>1 DEF TypeOK, Pointer
<1>3. PICK l \in Level, q \in Seq(Entry) : l = levelIndex[target] /\ q = queue[l]
  BY <1>1, <1>2 DEF TypeOK
<1>4. PICK n \in 0 .. Len(q) : /\ idx = IF n = Len(q) THEN NONE ELSE q[n + 1]
                               /\ \A m \in 1 .. n : q[m] # target
  BY <1>1, <1>3 DEF WalkSound
<1>5. n = Len(q)
  BY <1>1, <1>4, EntryAssumption
<1>6. SUFFICES ASSUME NEW m \in Level, NEW j \in 1 .. Len(queue[m]), queue[m][j] = target
      PROVE  FALSE
  BY <1>1, LinkedIs
<1>7. levelIndex[target] = m
  BY <1>1, <1>6, ListFacts
<1>8. QED
  BY <1>3, <1>4, <1>5, <1>6, <1>7

\* unlinkFromLevel returns true exactly when it emptied the level, and takes out
\* nothing but the entry it was asked for.
THEOREM UnlinkTellsEmptied == Spec => EmptiedIsRight
<1> DEFINE A == target # NONE /\ target' = NONE =>
                  /\ emptied' <=> target \in Linked /\ queue'[levelIndex[target]] = <<>>
                  /\ Linked' = Linked \ {target}
<1>1. IInv /\ [Next]_vars => [A]_vars
  <2>1. SUFFICES ASSUME IInv, Next, target # NONE, target' = NONE PROVE A
    OBVIOUS
  <2>2. UnlinkFound \/ UnlinkMissing
    BY <2>1 DEF Next, Reset, SetReferencePrice, SetTickSize, AppendToLevel, UnlinkStart, Unlink,
                UnlinkNext, ReduceQuantity
  <2>3. CASE UnlinkFound
    BY <2>1, <2>3, FoundLinked
  <2>4. CASE UnlinkMissing
    <3>1. target \notin Linked
      BY <2>1, <2>4, MissingNotLinked
    <3>2. queue' = queue /\ emptied' = FALSE
      BY <2>4 DEF UnlinkMissing
    <3>3. Linked' = Linked
      BY <3>2 DEF Linked
    <3>4. QED
      BY <3>1, <3>2, <3>3
  <2>5. QED
    BY <2>2, <2>3, <2>4
<1>2. QED
  BY <1>1, PriceLevelsInvariant, PTL DEF Spec, EmptiedIsRight

-----------------------------------------------------------------------------
(* Prices. *)

\* A price computed from a level leads back to that level, however the arithmetic of
\* prices wrapped on the way.
THEOREM PricesReturn == Spec => []PricesRoundTrip
<1>1. TypeOK => PricesRoundTrip
  <2>1. SUFFICES ASSUME TypeOK, tickSize # 0, NEW l \in Level, l * tickSize < PriceMod,
                        l < IndexMod
                 PROVE  PriceToLevel(LevelToPrice(l)) = l
    BY DEF PricesRoundTrip
  <2>2. /\ refPrice \in Int /\ tickSize \in Nat \ {0} /\ l \in Nat /\ l <= MaxLevels - 1
        /\ PriceMod \in Nat \ {0} /\ IndexMod \in Nat \ {0} /\ MaxLevels \in Nat \ {0}
    BY <2>1, WidthAssumption DEF TypeOK, Level
  <2>3. PICK d : d = l * tickSize
    OBVIOUS
  <2>4. d \in Nat /\ d <= PriceMod - 1 /\ d \div tickSize = l
    BY <2>1, <2>2, <2>3, DivExact
  <2>5. PICK a : a = refPrice + d
    OBVIOUS
  <2>6. a \in Int /\ -refPrice \in Int /\ a % PriceMod \in Int /\ a + (-refPrice) = d
    BY <2>2, <2>4, <2>5
  <2>7. ((a % PriceMod) + (-refPrice)) % PriceMod = d % PriceMod
    <3>1. ((a % PriceMod) + (-refPrice)) % PriceMod = (a + (-refPrice)) % PriceMod
      BY <2>2, <2>6, ModAdd
    <3>2. QED
      BY <2>6, <3>1
  <2>8. (a % PriceMod) - refPrice = (a % PriceMod) + (-refPrice)
    BY <2>2, <2>6
  <2>9. d % PriceMod = d /\ l % IndexMod = l /\ l % MaxLevels = l
    BY <2>1, <2>2, <2>4
  <2>10. LevelToPrice(l) = a % PriceMod
    BY <2>3, <2>5 DEF LevelToPrice
  <2>11. (LevelToPrice(l) - refPrice) % PriceMod = d
    BY <2>7, <2>8, <2>9, <2>10
  <2>12. QED
    BY <2>4, <2>9, <2>11 DEF PriceToLevel
<1>2. QED
  BY <1>1, LevelsTypeCorrect, PTL

-----------------------------------------------------------------------------
(* The total quantities. *)

\* The entries of a level are the linked ones that name it.
LEMMA OnLevel ==
  ASSUME TypeOK, ListsMatchQueues, NEW l \in Level
  PROVE  ToSet(queue[l]) = {x \in Linked : levelIndex[x] = l}
<1>1. \A m \in Level : ToSet(queue[m]) = {queue[m][n] : n \in 1 .. Len(queue[m])}
  BY SeqElements DEF TypeOK
<1>2. ASSUME NEW m \in Level, NEW x \in ToSet(queue[m]) PROVE levelIndex[x] = m
  <2>1. PICK n \in 1 .. Len(queue[m]) : x = queue[m][n]
    BY <1>1
  <2>2. QED
    BY <2>1, ListFacts
<1>3. QED
  BY <1>2 DEF Linked

\* The sum that _totalQty stands for, before it is cut to its width.
LevelSum(l) == SumOver(quantity, ToSet(queue[l]))

\* What the sums are made of: finitely many natural numbers.
LEMMA SumFacts ==
  ASSUME TypeOK, NEW l \in Level
  PROVE  /\ IsFiniteSet(ToSet(queue[l])) /\ ToSet(queue[l]) \subseteq Entry
         /\ \A x \in Entry : quantity[x] \in Int
         /\ LevelSum(l) \in Int /\ QtyMod \in Nat \ {0}
<1>1. IsFiniteSet(ToSet(queue[l])) /\ ToSet(queue[l]) \subseteq Entry
  BY SeqElements DEF TypeOK
<1>2. \A x \in Entry : quantity[x] \in Int
  BY DEF TypeOK
<1>3. LevelSum(l) \in Int
  BY <1>1, <1>2, SumInt DEF LevelSum
<1>4. QED
  BY <1>1, <1>2, <1>3, WidthAssumption

\* TotalsMatch with the name of the sum.
LEMMA TotalsAre == TotalsMatch <=> \A l \in Level : totalQty[l] = LevelSum(l) % QtyMod
  BY DEF TotalsMatch, LevelSum, SumOver

\* A level whose list and whose quantities do not change keeps its sum.
LEMMA SumKept ==
  ASSUME TypeOK, NEW l \in Level, queue'[l] = queue[l],
         \A x \in ToSet(queue[l]) : quantity'[x] = quantity[x]
  PROVE  LevelSum(l)' = LevelSum(l)
<1>1. IsFiniteSet(ToSet(queue[l]))
  BY SumFacts
<1>2. SumOver(quantity, ToSet(queue[l])) = SumOver(quantity', ToSet(queue[l]))
  BY <1>1, SumSame
<1>3. QED
  BY <1>2 DEF LevelSum

\* An entry that is appended adds its quantity to the sum of its level.
LEMMA AppendTotals ==
  ASSUME IInv, TotalsMatch, NEW l \in Level, NEW e \in Entry, NEW q \in Quantity,
         AppendToLevel(l, e, q)
  PROVE  TotalsMatch'
<1>1. TypeOK /\ ListsMatchQueues /\ TypeOK'
  BY AppendIInv DEF IInv
<1>2. /\ queue' = [queue EXCEPT ![l] = Append(queue[l], e)]
      /\ quantity' = [quantity EXCEPT ![e] = q]
      /\ totalQty' = [totalQty EXCEPT ![l] = (totalQty[l] + q) % QtyMod]
      /\ e \notin Linked
  BY DEF AppendToLevel, AddToTotal
<1>3. \A m \in Level : e \notin ToSet(queue[m])
  BY <1>2 DEF Linked
<1>4. /\ \A m \in Level : m # l => queue'[m] = queue[m] /\ totalQty'[m] = totalQty[m]
      /\ queue'[l] = Append(queue[l], e) /\ queue[l] \in Seq(Entry)
      /\ totalQty'[l] = (totalQty[l] + q) % QtyMod
      /\ \A x \in Entry : quantity'[x] = IF x = e THEN q ELSE quantity[x]
      /\ \A x \in Entry : quantity'[x] \in Int
  BY <1>1, <1>2 DEF TypeOK
<1>5. ASSUME NEW m \in Level, m # l PROVE totalQty'[m] = LevelSum(m)' % QtyMod
  <2>1. LevelSum(m)' = LevelSum(m)
    BY <1>1, <1>3, <1>4, <1>5, SumFacts, SumKept
  <2>2. QED
    BY <1>4, <1>5, <2>1, TotalsAre
<1>6. totalQty'[l] = LevelSum(l)' % QtyMod
  <2>1. PICK S : S = ToSet(queue[l])
    OBVIOUS
  <2>2. ToSet(queue'[l]) = S \cup {e}
    <3>1. /\ Len(queue'[l]) = Len(queue[l]) + 1
          /\ queue'[l][Len(queue[l]) + 1] = e
          /\ \A n \in 1 .. Len(queue[l]) : queue'[l][n] = queue[l][n]
          /\ queue'[l] \in Seq(Entry) /\ Len(queue[l]) \in Nat
      BY <1>4, AppendProperties
    <3>2. /\ ToSet(queue[l]) = {queue[l][n] : n \in 1 .. Len(queue[l])}
          /\ ToSet(queue'[l]) = {queue'[l][n] : n \in 1 .. Len(queue'[l])}
      <4>1. queue[l] \in Seq(Entry) /\ queue'[l] \in Seq(Entry)
        BY <1>4, <3>1
      <4>2. QED
        BY <4>1, SeqElements, Zenon
    <3>3. 1 .. Len(queue'[l]) = (1 .. Len(queue[l])) \cup {Len(queue[l]) + 1}
      BY <3>1
    <3>4. QED
      BY <2>1, <3>1, <3>2, <3>3
  <2>3. IsFiniteSet(S) /\ S \subseteq Entry /\ e \notin S
    BY <1>1, <1>3, <2>1, SumFacts
  <2>4. IsFiniteSet(S \cup {e}) /\ (S \cup {e}) \ {e} = S
    BY <2>3, FS_AddElement
  <2>5. SumOver(quantity', S \cup {e}) = quantity'[e] + SumOver(quantity', (S \cup {e}) \ {e})
    BY <1>4, <2>3, <2>4, SumRemove
  <2>6. SumOver(quantity', S) = SumOver(quantity, S)
    BY <1>4, <2>3, SumSame
  <2>7. LevelSum(l)' = q + LevelSum(l)
    BY <1>4, <2>1, <2>2, <2>4, <2>5, <2>6 DEF LevelSum
  <2>8. totalQty[l] = LevelSum(l) % QtyMod /\ LevelSum(l) \in Int /\ QtyMod \in Nat \ {0} /\ q \in Int
    <3>1. totalQty[l] = LevelSum(l) % QtyMod
      BY TotalsAre
    <3>2. LevelSum(l) \in Int /\ QtyMod \in Nat \ {0}
      BY <1>1, SumFacts
    <3>3. q \in Int
      BY <3>2, AmountAssumption
    <3>4. QED
      BY <3>1, <3>2, <3>3
  <2>9. ((LevelSum(l) % QtyMod) + q) % QtyMod = (LevelSum(l) + q) % QtyMod
    BY <2>8, ModAdd
  <2>10. q + LevelSum(l) = LevelSum(l) + q
    BY <2>8
  <2>11. QED
    BY <1>4, <2>7, <2>8, <2>9, <2>10
<1>7. \A m \in Level : totalQty'[m] = LevelSum(m)' % QtyMod
  BY <1>5, <1>6
<1>8. QED
  BY <1>7 DEF TotalsMatch, LevelSum, SumOver

\* An entry that is taken out takes its quantity out of the sum of its level.
LEMMA FoundTotals ==
  ASSUME IInv, TotalsMatch, UnlinkFound
  PROVE  TotalsMatch'
<1>1. TypeOK /\ ListsMatchQueues /\ TypeOK' /\ target \in Entry
  BY FoundIInv, FoundNamed DEF IInv
<1>2. PICK l \in Level : l = levelIndex[target]
  BY <1>1 DEF TypeOK
<1>3. PICK k \in 1 .. Len(queue[l]) :
         /\ target = queue[l][k]
         /\ totalQty' = [totalQty EXCEPT ![l] = (totalQty[l] - quantity[target]) % QtyMod]
         /\ queue' = [queue EXCEPT ![l] = RemoveAt(queue[l], k)]
  BY <1>2, FoundNamed, Zenon
<1>4. UNCHANGED <<quantity, levelIndex>>
  BY DEF UnlinkFound
<1>5. /\ \A m \in Level : m # l => queue'[m] = queue[m] /\ totalQty'[m] = totalQty[m]
      /\ totalQty'[l] = (totalQty[l] - quantity[target]) % QtyMod
  BY <1>1, <1>3 DEF TypeOK
<1>6. ASSUME NEW m \in Level, m # l PROVE totalQty'[m] = LevelSum(m)' % QtyMod
  <2>1. LevelSum(m)' = LevelSum(m)
    BY <1>1, <1>4, <1>5, <1>6, SumKept
  <2>2. QED
    BY <1>5, <1>6, <2>1, TotalsAre
<1>7. totalQty'[l] = LevelSum(l)' % QtyMod
  <2>1. PICK S : S = ToSet(queue[l])
    OBVIOUS
  <2>2. S = {x \in Linked : levelIndex[x] = l}
    BY <1>1, <2>1, OnLevel
  <2>3. ToSet(queue'[l]) = S \ {target}
    <3>1. (TypeOK /\ ListsMatchQueues)'
      BY FoundIInv DEF IInv
    <3>2. ToSet(queue'[l]) = {x \in Linked' : levelIndex'[x] = l}
      <4>1. \A m \in Level : ToSet(queue'[m]) = {queue'[m][n] : n \in 1 .. Len(queue'[m])}
        BY <3>1, SeqElements DEF TypeOK
      <4>2. \A m \in Level : \A n \in 1 .. Len(queue'[m]) : levelIndex'[queue'[m][n]] = m
        BY <3>1 DEF ListsMatchQueues
      <4>3. ASSUME NEW m \in Level, NEW x \in ToSet(queue'[m]) PROVE levelIndex'[x] = m
        <5>1. PICK n \in 1 .. Len(queue'[m]) : x = queue'[m][n]
          BY <4>1
        <5>2. QED
          BY <4>2, <5>1
      <4>4. QED
        BY <4>3 DEF Linked
    <3>3. Linked' = Linked \ {target}
      BY FoundLinked
    <3>4. QED
      BY <1>4, <2>2, <3>2, <3>3
  <2>4. target \in S
    BY <1>2, <2>2, FoundLinked
  <2>5. /\ IsFiniteSet(S) /\ S \subseteq Entry /\ \A x \in Entry : quantity[x] \in Int
        /\ QtyMod \in Nat \ {0} /\ LevelSum(l) \in Int
    BY <1>1, <2>1, SumFacts
  <2>6. SumOver(quantity, S) = quantity[target] + SumOver(quantity, S \ {target})
    BY <2>4, <2>5, SumRemove
  <2>7. LevelSum(l) = quantity[target] + LevelSum(l)'
    BY <1>4, <2>1, <2>3, <2>6 DEF LevelSum
  <2>8. SumOver(quantity, S \ {target}) \in Int
    <3>1. IsFiniteSet(S \ {target})
      BY <2>5, FS_Subset
    <3>2. QED
      BY <2>5, <3>1, SumInt
  <2>9. LevelSum(l)' \in Int /\ quantity[target] \in Int /\ -quantity[target] \in Int
    BY <1>1, <1>4, <2>3, <2>5, <2>8 DEF LevelSum
  <2>10. totalQty[l] = LevelSum(l) % QtyMod
    BY TotalsAre
  <2>11. ((LevelSum(l) % QtyMod) + (-quantity[target])) % QtyMod = (LevelSum(l) + (-quantity[target])) % QtyMod
    BY <2>5, <2>9, ModAdd
  <2>12. /\ LevelSum(l) + (-quantity[target]) = LevelSum(l)'
         /\ (LevelSum(l) % QtyMod) - quantity[target] = (LevelSum(l) % QtyMod) + (-quantity[target])
    BY <2>5, <2>7, <2>9
  <2>13. QED
    BY <1>5, <2>10, <2>11, <2>12
<1>8. \A m \in Level : totalQty'[m] = LevelSum(m)' % QtyMod
  BY <1>6, <1>7
<1>9. QED
  BY <1>8 DEF TotalsMatch, LevelSum, SumOver

\* A partial fill takes the same amount from the entry and from the sum.
LEMMA ReduceTotals ==
  ASSUME IInv, TotalsMatch, NEW e \in Entry, NEW q \in Quantity, ReduceQuantity(e, q)
  PROVE  TotalsMatch'
<1>1. TypeOK /\ ListsMatchQueues /\ QtyMod \in Nat \ {0} /\ q \in Int
  BY WidthAssumption, AmountAssumption DEF IInv
<1>2. PICK l \in Level : l = levelIndex[e]
  BY <1>1 DEF TypeOK
<1>3. /\ e \in Linked /\ queue' = queue /\ levelIndex' = levelIndex
      /\ quantity' = [quantity EXCEPT ![e] = quantity[e] - q]
      /\ totalQty' = [totalQty EXCEPT ![l] = (totalQty[l] - q) % QtyMod]
  BY <1>2 DEF ReduceQuantity, TakeFromTotal
<1>4. \A m \in Level : e \in ToSet(queue[m]) <=> m = l
  BY <1>1, <1>2, <1>3, OnLevel
<1>5. /\ \A m \in Level : m # l => totalQty'[m] = totalQty[m]
      /\ totalQty'[l] = (totalQty[l] - q) % QtyMod
      /\ \A x \in Entry : quantity'[x] = IF x = e THEN quantity[e] - q ELSE quantity[x]
      /\ \A x \in Entry : quantity'[x] \in Int
  BY <1>1, <1>3 DEF TypeOK
<1>6. ASSUME NEW m \in Level, m # l PROVE totalQty'[m] = LevelSum(m)' % QtyMod
  <2>1. ToSet(queue[m]) \subseteq Entry /\ e \notin ToSet(queue[m]) /\ queue'[m] = queue[m]
    BY <1>1, <1>3, <1>4, <1>6, SumFacts
  <2>2. LevelSum(m)' = LevelSum(m)
    BY <1>1, <1>5, <2>1, SumKept
  <2>3. QED
    BY <1>5, <1>6, <2>2, TotalsAre
<1>7. totalQty'[l] = LevelSum(l)' % QtyMod
  <2>1. PICK S : S = ToSet(queue[l])
    OBVIOUS
  <2>2. /\ IsFiniteSet(S) /\ S \subseteq Entry /\ e \in S /\ LevelSum(l) \in Int
        /\ \A x \in Entry : quantity[x] \in Int
    BY <1>1, <1>4, <2>1, SumFacts
  <2>3. IsFiniteSet(S \ {e})
    BY <2>2, FS_Subset
  <2>4. SumOver(quantity, S) = quantity[e] + SumOver(quantity, S \ {e})
    BY <2>2, SumRemove
  <2>5. SumOver(quantity', S) = quantity'[e] + SumOver(quantity', S \ {e})
    BY <1>5, <2>2, SumRemove
  <2>6. SumOver(quantity', S \ {e}) = SumOver(quantity, S \ {e})
    BY <1>5, <2>2, <2>3, SumSame
  <2>7. SumOver(quantity, S \ {e}) \in Int /\ quantity[e] \in Int /\ quantity'[e] = quantity[e] - q
    BY <1>5, <2>2, <2>3, SumInt
  <2>8. SumOver(quantity', S) = SumOver(quantity, S) + (-q)
    BY <1>1, <2>4, <2>5, <2>6, <2>7
  <2>9. LevelSum(l)' = LevelSum(l) + (-q)
    BY <1>3, <2>1, <2>8 DEF LevelSum
  <2>10. totalQty[l] = LevelSum(l) % QtyMod
    BY TotalsAre
  <2>11. ((LevelSum(l) % QtyMod) + (-q)) % QtyMod = (LevelSum(l) + (-q)) % QtyMod
    BY <1>1, <2>2, ModAdd
  <2>12. (LevelSum(l) % QtyMod) - q = (LevelSum(l) % QtyMod) + (-q)
    BY <1>1, <2>2
  <2>13. QED
    BY <1>5, <2>9, <2>10, <2>11, <2>12
<1>8. \A m \in Level : totalQty'[m] = LevelSum(m)' % QtyMod
  BY <1>6, <1>7
<1>9. QED
  BY <1>8 DEF TotalsMatch, LevelSum, SumOver

\* The total quantity of a level is the sum of the quantities of its entries in the
\* arithmetic of its width, after any sequence of calls.
THEOREM TotalsAreSums == Spec => []TotalsMatch
<1>1. ASSUME \A l \in Level : queue[l] = <<>> /\ totalQty[l] = 0 PROVE TotalsMatch
  <2>1. ToSet(<<>>) = {}
    BY DEF ToSet
  <2>2. 0 % QtyMod = 0
    BY WidthAssumption
  <2>3. \A l \in Level : totalQty[l] = LevelSum(l) % QtyMod
    BY <1>1, <2>1, <2>2, SumEmpty DEF LevelSum
  <2>4. QED
    BY <2>3, TotalsAre
<1>2. Init => TotalsMatch
  BY <1>1 DEF Init
<1>3. IInv /\ TotalsMatch /\ [Next]_vars => TotalsMatch'
  <2>1. SUFFICES ASSUME IInv, TotalsMatch, [Next]_vars PROVE TotalsMatch'
    OBVIOUS
  <2>2. ASSUME UNCHANGED <<queue, quantity, totalQty>> PROVE TotalsMatch'
    <3>1. \A l \in Level : totalQty'[l] = LevelSum(l)' % QtyMod
      BY <2>1, <2>2, TotalsAre DEF LevelSum
    <3>2. QED
      BY <3>1 DEF TotalsMatch, LevelSum, SumOver
  <2>3. CASE Reset
    <3>1. \A l \in Level : queue'[l] = <<>> /\ totalQty'[l] = 0
      BY <2>3 DEF Reset, NoLevels
    <3>2. ToSet(<<>>) = {} /\ 0 % QtyMod = 0
      BY WidthAssumption DEF ToSet
    <3>3. \A l \in Level : totalQty'[l] = LevelSum(l)' % QtyMod
      BY <3>1, <3>2, SumEmpty DEF LevelSum
    <3>4. QED
      BY <3>3 DEF TotalsMatch, LevelSum, SumOver
  <2>4. CASE \E l \in Level, e \in Entry, q \in Quantity : AppendToLevel(l, e, q)
    BY <2>1, <2>4, AppendTotals
  <2>5. CASE UnlinkFound
    BY <2>1, <2>5, FoundTotals
  <2>6. CASE \E e \in Entry, q \in Quantity : ReduceQuantity(e, q)
    BY <2>1, <2>6, ReduceTotals
  <2>7. CASE \/ UnlinkNext \/ UnlinkMissing \/ UNCHANGED vars
             \/ \E p \in RefPrice : SetReferencePrice(p)
             \/ \E t \in TickSize : SetTickSize(t)
             \/ \E e \in Entry : UnlinkStart(e)
    <3>1. UNCHANGED <<queue, quantity, totalQty>>
      BY <2>7 DEF UnlinkNext, UnlinkMissing, vars, SetReferencePrice, SetTickSize, UnlinkStart,
                  levelVars, entryVars
    <3>2. QED
      BY <2>2, <3>1
  <2>8. QED
    BY <2>1, <2>3, <2>4, <2>5, <2>6, <2>7 DEF Next, Unlink
<1>4. QED
  BY <1>2, <1>3, PriceLevelsInvariant, PTL DEF Spec
=============================================================================
