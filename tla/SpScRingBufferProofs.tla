------------------------ MODULE SpScRingBufferProofs ------------------------
(***************************************************************************)
(* Proofs about SpScRingBuffer for every Capacity, every set of items and  *)
(* every bound, with at most one consumer.                                 *)
(*                                                                         *)
(* The heart of the argument is RingOrder: going round the ring from the   *)
(* producer's view of _tail one meets _tail, then the consumer's view of   *)
(* _head, then _head.  A stale view therefore always errs on the safe      *)
(* side: the producer sees the ring at least as full, and the consumer at  *)
(* least as empty, as it is.                                               *)
(***************************************************************************)
EXTENDS SpScRingBuffer, TLAPS

RingOrder ==
    Distance(tailSeen, tail) + Distance(tail, headSeen) + Distance(headSeen, head)
        = Distance(tailSeen, head)

\* What each thread knows at its position in the code.
ProducerKnows ==
    /\ ppc \in {"write", "publish"} => ~Full
    /\ ppc = "publish" => buffer[head] = pitem

ConsumerKnows ==
    \A c \in Consumers :
        /\ cpc[c] # "idle" => ctail[c] = tail /\ tail # headSeen
        /\ cpc[c] = "release" => cmsg[c] = buffer[tail]

\* At most one thread is inside tryPop, whichever it is: what the steps need of
\* SingleConsumer.
OneInside == \A c, d \in Consumers : cpc[c] # "idle" /\ cpc[d] # "idle" => c = d

\* The mark covers everything the producer believes to be in the ring.
MarkCovers ==
    /\ highWaterMark < Capacity
    /\ ppc # "mark" => Distance(tailSeen, head) <= highWaterMark

\* The inductive invariant.
IInv ==
    /\ TypeOK
    /\ RingOrder
    /\ ProducerKnows
    /\ ConsumerKnows
    /\ QueuedItemsIntact
    /\ MarkCovers

-----------------------------------------------------------------------------
(* Going round the ring. *)

\* increment stays within the array.
LEMMA IncrementType ==
    ASSUME NEW i \in Slot
    PROVE  Increment(i) \in Slot
  BY CapacityAssumption DEF Slot, Increment

\* A distance is less than a lap, and zero only from a slot to itself.
LEMMA DistanceType ==
    ASSUME NEW i \in Slot, NEW j \in Slot
    PROVE  /\ Distance(i, j) \in Slot
           /\ Distance(i, j) \in Nat
           /\ Distance(i, j) < Capacity
           /\ Distance(i, j) = 0 <=> i = j
  BY CapacityAssumption DEF Slot, Distance

\* Moving the far end on, unless it would meet the near end, adds one slot.
LEMMA DistanceFar ==
    ASSUME NEW i \in Slot, NEW j \in Slot, Increment(j) # i
    PROVE  Distance(i, Increment(j)) = Distance(i, j) + 1
  BY CapacityAssumption DEF Slot, Distance, Increment

\* Moving the near end on, unless it has met the far end, takes one slot away.
LEMMA DistanceNear ==
    ASSUME NEW i \in Slot, NEW j \in Slot, i # j
    PROVE  Distance(Increment(i), j) = Distance(i, j) - 1
  BY CapacityAssumption DEF Slot, Distance, Increment

\* The distance to the slot just behind is as large as it can be.
LEMMA DistanceFull ==
    ASSUME NEW i \in Slot, NEW j \in Slot, Increment(j) = i
    PROVE  Distance(i, j) = Capacity - 1
  BY CapacityAssumption DEF Slot, Distance, Increment

\* The code's expression for the number of slots in use computes Distance.
LEMMA UsedSlotsIsDistance ==
    ASSUME NEW i \in Slot, NEW j \in Slot
    PROVE  UsedSlots(i, j) = Distance(i, j)
  BY CapacityAssumption DEF Slot, Distance, UsedSlots

\* The slots met going from i to j: all but the last differ from j, and going from
\* the slot after i meets the same ones, one step earlier.
LEMMA WrapFacts ==
    ASSUME NEW i \in Slot, NEW j \in Slot
    PROVE  /\ \A k \in 0 .. Distance(i, j) - 1 :
                 Wrap(i + k) \in Slot /\ Wrap(i + k) # j
           /\ Wrap(i + Distance(i, j)) = j
           /\ Wrap(i) = i
           /\ \A k \in 0 .. Capacity - 2 : Wrap(Increment(i) + k) = Wrap(i + (k + 1))
  BY CapacityAssumption DEF Slot, Distance, Wrap, Increment

-----------------------------------------------------------------------------
(* The invariant holds initially and is preserved by every step. *)

\* The constructor's state satisfies the invariant.
LEMMA InitIInv ==
    Init => IInv
  <1> SUFFICES ASSUME Init PROVE IInv
    OBVIOUS
  <1> 0 \in Slot
    BY CapacityAssumption DEF Slot
  <1>1. Distance(0, 0) = 0
    BY DistanceType
  <1>2. TypeOK
    BY DEF Init, TypeOK
  <1>3. RingOrder /\ MarkCovers
    BY <1>1, CapacityAssumption DEF Init, RingOrder, MarkCovers
  <1>4. ProducerKnows /\ ConsumerKnows
    BY DEF Init, ProducerKnows, ConsumerKnows
  <1>5. QueuedItemsIntact
    BY <1>1 DEF Init, QueuedItemsIntact
  <1> QED
    BY <1>2, <1>3, <1>4, <1>5 DEF IInv

\* Storing the item touches no slot between _tail and _head.
LEMMA WriteSlotIInv ==
    IInv /\ WriteSlot => IInv'
  <1> SUFFICES ASSUME IInv, WriteSlot PROVE IInv'
    OBVIOUS
  <1>1. TypeOK'
    BY DEF IInv, WriteSlot, TypeOK, consumerVars, history
  <1>2. RingOrder' /\ MarkCovers'
    BY DEF IInv, WriteSlot, RingOrder, MarkCovers, Distance
  <1>3. ProducerKnows'
    BY DEF IInv, WriteSlot, ProducerKnows, Full, Increment, TypeOK
  <1>4. ConsumerKnows'
    <2> SUFFICES ASSUME NEW c \in Consumers
                 PROVE  /\ cpc[c]' # "idle" => ctail[c]' = tail' /\ tail' # headSeen'
                        /\ cpc[c]' = "release" => cmsg[c]' = buffer'[tail']
      BY DEF ConsumerKnows
    <2>1. cpc[c] # "idle" => ctail[c] = tail /\ tail # headSeen
      BY DEF IInv, ConsumerKnows
    <2>2. cpc[c] # "idle" => tail # head
      BY <2>1, DistanceType, CapacityAssumption DEF IInv, RingOrder, TypeOK, Slot, Distance
    <2> QED
      BY <2>1, <2>2 DEF IInv, ConsumerKnows, WriteSlot, consumerVars, TypeOK
  <1>5. QueuedItemsIntact'
    <2>1. \A k \in 0 .. Distance(tail, head) - 1 :
             /\ Wrap(tail + k) \in Slot
             /\ Wrap(tail + k) # head
      BY WrapFacts DEF IInv, TypeOK
    <2> QED
      BY <2>1 DEF IInv, WriteSlot, QueuedItemsIntact, TypeOK, Distance, Wrap, history
  <1> QED
    BY <1>1, <1>2, <1>3, <1>4, <1>5 DEF IInv

\* Storing _head adds the item just written to the queue, at its end.
LEMMA PublishHeadIInv ==
    IInv /\ PublishHead => IInv'
  <1> SUFFICES ASSUME IInv, PublishHead PROVE IInv'
    OBVIOUS
  <1> USE DEF IInv, PublishHead
  <1>0. /\ head \in Slot /\ tail \in Slot /\ tailSeen \in Slot /\ headSeen \in Slot
        /\ Increment(head) \in Slot
        /\ Increment(head) # tailSeen
        /\ buffer[head] = pitem
        /\ pitem \in Item
    BY IncrementType DEF TypeOK, ProducerKnows, Full
  <1>1. TypeOK'
    BY <1>0 DEF TypeOK, consumerVars
  <1>2. /\ Increment(head) # tail
        /\ Increment(head) # headSeen
    BY <1>0, CapacityAssumption DEF RingOrder, Distance, Increment, Slot
  <1>3. /\ Distance(tailSeen, Increment(head)) = Distance(tailSeen, head) + 1
        /\ Distance(tail, Increment(head)) = Distance(tail, head) + 1
        /\ Distance(headSeen, Increment(head)) = Distance(headSeen, head) + 1
    BY <1>0, <1>2, DistanceFar
  <1>4. RingOrder'
    <2>1. /\ Distance(tailSeen, tail)' = Distance(tailSeen, tail)
          /\ Distance(tail, headSeen)' = Distance(tail, headSeen)
          /\ Distance(headSeen, head)' = Distance(headSeen, Increment(head))
          /\ Distance(tailSeen, head)' = Distance(tailSeen, Increment(head))
      BY DEF Distance
    <2>2. /\ Distance(tailSeen, tail) \in Int
          /\ Distance(tail, headSeen) \in Int
          /\ Distance(headSeen, head) \in Int
          /\ Distance(tailSeen, head) \in Int
      BY <1>0, DistanceType DEF Slot
    <2> QED
      BY <1>3, <2>1, <2>2 DEF RingOrder
  <1>5. ProducerKnows' /\ MarkCovers'
    BY DEF ProducerKnows, MarkCovers
  <1>6. ConsumerKnows'
    BY DEF ConsumerKnows, consumerVars
  <1>7. QueuedItemsIntact'
    <2> DEFINE n == Distance(tail, head)
    <2>1. /\ n \in Nat
          /\ Distance(tail, head)' = n + 1
      BY <1>0, <1>3, DistanceType DEF Distance, Slot
    <2>2. /\ accepted \in Seq(Item) /\ delivered \in Seq(Item)
          /\ accepted' = Append(accepted, pitem)
          /\ delivered' = delivered
          /\ Len(accepted) = Len(delivered) + n
          /\ \A k \in 0 .. n - 1 : buffer[Wrap(tail + k)] = accepted[Len(delivered) + k + 1]
      BY <2>1 DEF TypeOK, QueuedItemsIntact
    <2>3. Len(accepted') = Len(accepted) + 1
      BY <2>2, <1>0
    <2>4. buffer[Wrap(tail + n)] = pitem
      BY <1>0, WrapFacts
    <2> HIDE DEF n
    <2>5. \A k \in 0 .. n : buffer[Wrap(tail + k)] = accepted'[Len(delivered) + k + 1]
      <3> SUFFICES ASSUME NEW k \in 0 .. n
                   PROVE  buffer[Wrap(tail + k)] = accepted'[Len(delivered) + k + 1]
        OBVIOUS
      <3>1. CASE k = n
        BY <3>1, <2>1, <2>2, <2>4, <1>0
      <3>2. CASE k # n
        BY <3>2, <2>1, <2>2, <1>0
      <3> QED
        BY <3>1, <3>2
    <2> QED
      BY <2>1, <2>2, <2>3, <2>5 DEF QueuedItemsIntact, Wrap
  <1> QED
    BY <1>1, <1>4, <1>5, <1>6, <1>7

\* Reading _tail again can only make the ring look emptier.
LEMMA TailBecomesVisibleIInv ==
    IInv /\ TailBecomesVisible => IInv'
  <1> SUFFICES ASSUME IInv, TailBecomesVisible PROVE IInv'
    OBVIOUS
  <1> USE DEF IInv, TailBecomesVisible
  <1>1. TypeOK'
    BY DEF TypeOK, producerVars, consumerVars, history
  <1>2. RingOrder'
    BY CapacityAssumption DEF RingOrder, TypeOK, Distance, Slot
  <1>3. ProducerKnows'
    <2>1. Increment(head) # tailSeen => Increment(head) # tail
      BY CapacityAssumption DEF RingOrder, TypeOK, Distance, Slot, Increment
    <2> QED
      BY <2>1 DEF ProducerKnows, Full, producerVars, Increment
  <1>4. ConsumerKnows'
    BY DEF ConsumerKnows, consumerVars
  <1>5. QueuedItemsIntact'
    BY DEF QueuedItemsIntact, Distance, Wrap, history
  <1>6. MarkCovers'
    <2>1. Distance(tail, head) <= Distance(tailSeen, head)
      BY CapacityAssumption DEF RingOrder, TypeOK, Distance, Slot
    <2>2. /\ Distance(tailSeen, head)' = Distance(tail, head)
          /\ ppc' = ppc
      BY DEF Distance, producerVars
    <2>3. Distance(tail, head) \in Int /\ Distance(tailSeen, head) \in Int
      BY DistanceType DEF TypeOK, Slot
    <2> QED
      BY <2>1, <2>2, <2>3 DEF MarkCovers, TypeOK
  <1> QED
    BY <1>1, <1>2, <1>3, <1>4, <1>5, <1>6

\* What tryPop hands out is the oldest accepted item that was not handed out yet.
LEMMA ReleasesNext ==
    ASSUME IInv, NEW c \in Consumers, ReleaseSlot(c)
    PROVE  /\ Len(delivered) < Len(accepted)
           /\ cmsg[c] = accepted[Len(delivered) + 1]
  <1>1. /\ head \in Slot /\ tail \in Slot /\ tailSeen \in Slot /\ headSeen \in Slot
        /\ tail # headSeen /\ cmsg[c] = buffer[tail]
    BY DEF IInv, TypeOK, ConsumerKnows, ReleaseSlot, StoreTail
  <1>2. tail # head
    BY <1>1, CapacityAssumption DEF IInv, RingOrder, Distance, Slot
  <1>3. PICK n \in Nat : n = Distance(tail, head) /\ n # 0
    BY <1>1, <1>2, DistanceType
  <1>4. /\ Len(accepted) - Len(delivered) = n /\ Len(accepted) \in Nat /\ Len(delivered) \in Nat
        /\ \A k \in 0 .. n - 1 : buffer[Wrap(tail + k)] = accepted[Len(delivered) + k + 1]
    BY <1>3 DEF IInv, QueuedItemsIntact, TypeOK
  <1>5. 0 \in 0 .. n - 1 /\ Len(delivered) + 0 + 1 = Len(delivered) + 1
    BY <1>3, <1>4
  <1>6. Wrap(tail + 0) = tail
    BY <1>1, WrapFacts DEF Slot
  <1>7. buffer[tail] = accepted[Len(delivered) + 1]
    BY <1>4, <1>5, <1>6
  <1> QED
    BY <1>1, <1>3, <1>4, <1>7

\* Storing _tail removes the item just read from the queue, at its front.
LEMMA ReleaseSlotIInv ==
    ASSUME OneInside, IInv, NEW c \in Consumers, ReleaseSlot(c)
    PROVE  IInv'
  <1> USE DEF IInv, ReleaseSlot, StoreTail
  <1>0. /\ head \in Slot /\ tail \in Slot /\ tailSeen \in Slot /\ headSeen \in Slot
        /\ ctail[c] = tail
        /\ tail' = Increment(tail)
        /\ Increment(tail) \in Slot
        /\ tail # headSeen
        /\ cmsg[c] = buffer[tail]
    BY IncrementType DEF TypeOK, ConsumerKnows
  <1>1. tail # head /\ Increment(tail) # tailSeen
    BY <1>0, CapacityAssumption DEF RingOrder, Distance, Slot, Increment
  <1>2. /\ Distance(tail, headSeen)' = Distance(tail, headSeen) - 1
        /\ Distance(tail, head)' = Distance(tail, head) - 1
        /\ Distance(tailSeen, tail)' = Distance(tailSeen, tail) + 1
    <2>1. /\ Distance(Increment(tail), headSeen) = Distance(tail, headSeen) - 1
          /\ Distance(Increment(tail), head) = Distance(tail, head) - 1
          /\ Distance(tailSeen, Increment(tail)) = Distance(tailSeen, tail) + 1
      BY <1>0, <1>1, DistanceNear, DistanceFar
    <2> QED
      BY <2>1, <1>0 DEF Distance
  <1>3. RingOrder'
    <2>1. /\ Distance(tailSeen, tail) \in Int
          /\ Distance(tail, headSeen) \in Int
          /\ Distance(headSeen, head) \in Int
          /\ Distance(tailSeen, head) \in Int
      BY <1>0, DistanceType DEF Slot
    <2>2. /\ Distance(headSeen, head)' = Distance(headSeen, head)
          /\ Distance(tailSeen, head)' = Distance(tailSeen, head)
      BY DEF Distance
    <2> QED
      BY <1>2, <2>1, <2>2 DEF RingOrder
  <1>4. ProducerKnows' /\ MarkCovers'
    BY DEF ProducerKnows, MarkCovers, producerVars, Full, Increment, Distance
  <1>5. ConsumerKnows'
    BY OneInside DEF ConsumerKnows, OneInside, TypeOK
  <1> DEFINE n == Distance(tail, head)
  <1>6. /\ n \in Nat
        /\ n # 0
        /\ n < Capacity
        /\ accepted \in Seq(Item) /\ delivered \in Seq(Item)
        /\ accepted' = accepted
        /\ Len(accepted) = Len(delivered) + n
        /\ \A k \in 0 .. n - 1 : buffer[Wrap(tail + k)] = accepted[Len(delivered) + k + 1]
    <2>1. n \in Nat /\ n # 0 /\ n < Capacity
      BY <1>0, <1>1, DistanceType, CapacityAssumption DEF Slot
    <2>2. /\ accepted \in Seq(Item) /\ delivered \in Seq(Item)
          /\ Len(accepted) - Len(delivered) = n
      BY DEF TypeOK, QueuedItemsIntact
    <2>3. \A k \in 0 .. n - 1 : buffer[Wrap(tail + k)] = accepted[Len(delivered) + k + 1]
      BY DEF QueuedItemsIntact
    <2>4. accepted' = accepted
      OBVIOUS
    <2> HIDE DEF n, IInv, ReleaseSlot, StoreTail
    <2>5. Len(accepted) \in Nat /\ Len(delivered) \in Nat
      BY <2>2
    <2>6. Len(accepted) = Len(delivered) + n
      BY <2>1, <2>2, <2>5
    <2> QED
      BY <2>1, <2>2, <2>3, <2>4, <2>6
  <1>7. cmsg[c] = accepted[Len(delivered) + 1] /\ cmsg[c] \in Item
    <2> HIDE DEF n
    <2>1. buffer[Wrap(tail + 0)] = accepted[Len(delivered) + 0 + 1]
      BY <1>6
    <2>2. Wrap(tail + 0) = tail
      BY <1>0, WrapFacts DEF Slot
    <2> QED
      BY <2>1, <2>2, <1>0, <1>6
  <1>8. TypeOK'
    BY <1>0, <1>7 DEF TypeOK, producerVars
  <1>9. QueuedItemsIntact'
    <2>1. /\ Len(delivered') = Len(delivered) + 1
          /\ Distance(tail, head)' = n - 1
      BY <1>2, <1>6, <1>7
    <2> HIDE DEF n
    <2>2. \A k \in 0 .. n - 2 : buffer[Wrap(tail' + k)] = accepted[Len(delivered) + 1 + k + 1]
      <3> SUFFICES ASSUME NEW k \in 0 .. n - 2
                   PROVE  buffer[Wrap(tail' + k)] = accepted[Len(delivered) + 1 + k + 1]
        OBVIOUS
      <3>1. Wrap(tail' + k) = Wrap(tail + (k + 1))
        BY <1>0, <1>6, WrapFacts, CapacityAssumption
      <3>2. buffer[Wrap(tail + (k + 1))] = accepted[Len(delivered) + (k + 1) + 1]
        <4>1. k + 1 \in 0 .. n - 1
          BY <1>6
        <4> QED
          BY <4>1, <1>6
      <3> QED
        BY <3>1, <3>2, <1>6
    <2> QED
      BY <2>1, <2>2, <1>6 DEF QueuedItemsIntact, Wrap
  <1> QED
    BY <1>3, <1>4, <1>5, <1>8, <1>9

\* Reading _head again can only make the ring look fuller to the consumer.
LEMMA HeadBecomesVisibleIInv ==
    IInv /\ HeadBecomesVisible => IInv'
  <1> SUFFICES ASSUME IInv, HeadBecomesVisible PROVE IInv'
    OBVIOUS
  <1> USE DEF IInv, HeadBecomesVisible
  <1>1. TypeOK'
    BY DEF TypeOK, producerVars, consumerVars, history
  <1>2. RingOrder'
    BY CapacityAssumption DEF RingOrder, TypeOK, Distance, Slot
  <1>3. ProducerKnows' /\ MarkCovers'
    BY DEF ProducerKnows, MarkCovers, producerVars, Full, Increment, Distance
  <1>4. ConsumerKnows'
    <2>1. tail # headSeen => tail # head
      BY CapacityAssumption DEF RingOrder, TypeOK, Distance, Slot
    <2> QED
      BY <2>1 DEF ConsumerKnows, consumerVars
  <1>5. QueuedItemsIntact'
    BY DEF QueuedItemsIntact, Distance, Wrap, history
  <1> QED
    BY <1>1, <1>2, <1>3, <1>4, <1>5
\* The steps that move no index: they only change what one thread knows.
LEMMA LocalStepIInv ==
    ASSUME IInv,
           \/ TryPushFull
           \/ \E x \in Item : TryPushRoom(x) \/ Push(x)
           \/ PushRoom
           \/ PushTimeout
           \/ UpdateHighWaterMark
           \/ \E c \in Consumers : TryPop(c) \/ ReadSlot(c) \/ TryPopEmpty(c)
           \/ UNCHANGED vars
    PROVE  IInv'
  <1> USE DEF IInv
  <1>1. CASE TryPushFull
    <2> USE <1>1 DEF TryPushFull, producerVars, consumerVars, history
    <2>1. TypeOK'
      BY DEF TypeOK
    <2>2. RingOrder' /\ ProducerKnows' /\ MarkCovers'
      BY DEF RingOrder, ProducerKnows, MarkCovers, Full, Increment, Distance
    <2>3. ConsumerKnows' /\ QueuedItemsIntact'
      BY DEF ConsumerKnows, QueuedItemsIntact, Distance, Wrap
    <2> QED
      BY <2>1, <2>2, <2>3
  <1>2. CASE (\E x \in Item : TryPushRoom(x) \/ Push(x)) \/ PushRoom \/ PushTimeout
    <2> USE <1>2 DEF TryPushRoom, Push, PushRoom, PushTimeout, ringVars, consumerVars, history
    <2>1. TypeOK'
      BY DEF TypeOK
    <2>2. RingOrder' /\ MarkCovers'
      BY DEF RingOrder, MarkCovers, Distance
    <2>3. ProducerKnows'
      BY DEF ProducerKnows, Full, Increment
    <2>4. ConsumerKnows' /\ QueuedItemsIntact'
      BY DEF ConsumerKnows, QueuedItemsIntact, Distance, Wrap
    <2> QED
      BY <2>1, <2>2, <2>3, <2>4
  <1>3. CASE UpdateHighWaterMark
    <2> USE <1>3 DEF UpdateHighWaterMark, RaiseMark, consumerVars, history
    <2>1. UsedSlots(tailSeen, head) = Distance(tailSeen, head)
      BY UsedSlotsIsDistance DEF TypeOK
    <2>2. Distance(tailSeen, head) \in Nat /\ Distance(tailSeen, head) < Capacity
      BY DistanceType, CapacityAssumption DEF TypeOK, Slot
    <2>3. TypeOK'
      BY <2>1, <2>2 DEF TypeOK
    <2>4. Distance(tailSeen, head)' = Distance(tailSeen, head)
      BY DEF Distance
    <2>5. MarkCovers'
      BY <2>1, <2>2, <2>4, CapacityAssumption DEF TypeOK, MarkCovers
    <2>6. RingOrder' /\ ProducerKnows'
      BY DEF RingOrder, Distance, ProducerKnows
    <2>7. ConsumerKnows' /\ QueuedItemsIntact'
      BY DEF ConsumerKnows, QueuedItemsIntact, Distance, Wrap
    <2> QED
      BY <2>3, <2>5, <2>6, <2>7
  <1>4. CASE \E c \in Consumers : TryPop(c) \/ ReadSlot(c)
    <2> PICK c \in Consumers : TryPop(c) \/ ReadSlot(c)
      BY <1>4
    <2> USE DEF TryPop, PopItem, ReadSlot, ringVars, producerVars, history
    <2>1. TypeOK'
      BY DEF TypeOK
    <2>2. RingOrder' /\ ProducerKnows' /\ MarkCovers'
      BY DEF RingOrder, ProducerKnows, MarkCovers, Full, Increment, Distance
    <2>3. ConsumerKnows'
      BY DEF ConsumerKnows, TypeOK, Empty
    <2>4. QueuedItemsIntact'
      BY DEF QueuedItemsIntact, Distance, Wrap
    <2> QED
      BY <2>1, <2>2, <2>3, <2>4
  <1>5. CASE (\E c \in Consumers : TryPopEmpty(c)) \/ UNCHANGED vars
    <2> USE <1>5 DEF TryPopEmpty, PopNothing, vars, ringVars, producerVars, consumerVars, history
    <2>1. TypeOK'
      BY DEF TypeOK
    <2>2. RingOrder' /\ ProducerKnows' /\ MarkCovers'
      BY DEF RingOrder, ProducerKnows, MarkCovers, Full, Increment, Distance
    <2>3. ConsumerKnows' /\ QueuedItemsIntact'
      BY DEF ConsumerKnows, QueuedItemsIntact, Distance, Wrap
    <2> QED
      BY <2>1, <2>2, <2>3
  <1> QED
    BY <1>1, <1>2, <1>3, <1>4, <1>5

\* Every step of the producer, the consumer or the memory preserves the invariant.
LEMMA NextIInv ==
    ASSUME OneInside, IInv, [Next]_vars
    PROVE  IInv'
  <1>1. CASE WriteSlot
    BY <1>1, WriteSlotIInv
  <1>2. CASE PublishHead
    BY <1>2, PublishHeadIInv
  <1>3. CASE TailBecomesVisible
    BY <1>3, TailBecomesVisibleIInv
  <1>4. CASE HeadBecomesVisible
    BY <1>4, HeadBecomesVisibleIInv
  <1>5. CASE \E c \in Consumers : ReleaseSlot(c)
    BY <1>5, OneInside, ReleaseSlotIInv
  <1>6. CASE \/ Call \/ PushRoom \/ PushTimeout \/ UpdateHighWaterMark
             \/ \E c \in Consumers : TryPop(c) \/ ReadSlot(c) \/ TryPopEmpty(c)
             \/ UNCHANGED vars
    BY <1>6, LocalStepIInv DEF Call
  <1> QED
    BY <1>1, <1>2, <1>3, <1>4, <1>5, <1>6 DEF Next, Call, FinishPush, Pop

-----------------------------------------------------------------------------
(* The theorems. *)

\* IInv is an invariant of the ring with at most one consumer: every step of
\* tryPush, push and tryPop preserves it.
THEOREM InductiveInvariant ==
    ASSUME SingleConsumer
    PROVE  Spec => []IInv
  <1>1. Init => IInv
    BY InitIInv
  <1>2. IInv /\ [Next]_vars => IInv'
    BY SingleConsumer, NextIInv DEF SingleConsumer, OneInside
  <1> QED
    BY <1>1, <1>2, PTL DEF Spec

\* Type correctness: tryPush and tryPop index _buffer within its bounds, and
\* nothing but an accepted item is ever delivered.
THEOREM TypeCorrect ==
    ASSUME SingleConsumer
    PROVE  Spec => []TypeOK
  <1>1. IInv => TypeOK
    BY DEF IInv
  <1> QED
    BY <1>1, SingleConsumer, InductiveInvariant, PTL

\* The plain accesses of tryPush and tryPop to the slots are free of data races.
THEOREM RaceFree ==
    ASSUME SingleConsumer
    PROVE  Spec => []NoSlotRace
  <1>1. IInv => NoSlotRace
    <2> SUFFICES ASSUME IInv, NEW c \in Consumers, cpc[c] = "read", head = ctail[c]
                 PROVE  FALSE
      BY DEF NoSlotRace
    <2>1. ctail[c] = tail /\ tail # headSeen
      BY DEF IInv, ConsumerKnows
    <2> QED
      BY <2>1, CapacityAssumption DEF IInv, TypeOK, RingOrder, Distance, Slot
  <1> QED
    BY <1>1, SingleConsumer, InductiveInvariant, PTL

\* The slots from _tail to _head always hold the accepted, undelivered items.
THEOREM QueueIntact ==
    ASSUME SingleConsumer
    PROVE  Spec => []QueuedItemsIntact
  <1>1. IInv => QueuedItemsIntact
    BY DEF IInv
  <1> QED
    BY <1>1, SingleConsumer, InductiveInvariant, PTL

\* updateHighWaterMark keeps _highWaterMark below Capacity and, between two
\* pushes, at or above the number of items in the ring.
THEOREM MarkSound ==
    ASSUME SingleConsumer
    PROVE  Spec => []HighWaterMarkSound
  <1>1. IInv => HighWaterMarkSound
    <2> SUFFICES ASSUME IInv PROVE HighWaterMarkSound
      OBVIOUS
    <2>1. Distance(tail, head) <= Distance(tailSeen, head)
      BY CapacityAssumption DEF IInv, TypeOK, RingOrder, Distance, Slot
    <2>2. Distance(tail, head) \in Int /\ Distance(tailSeen, head) \in Int
      BY DistanceType DEF IInv, TypeOK, Slot
    <2> QED
      BY <2>1, <2>2 DEF IInv, TypeOK, MarkCovers, HighWaterMarkSound
  <1> QED
    BY <1>1, SingleConsumer, InductiveInvariant, PTL

\* tryPush counts an item as dropped only when Capacity - 1 items are in the ring
\* or were taken from it so recently that the producer has not seen it.
THEOREM DropsJustified ==
    ASSUME SingleConsumer
    PROVE  Spec => DropsOnlyWhenFull
  <1>1. IInv /\ [Next]_vars =>
          [dropped' # dropped =>
             Len(accepted) - Len(delivered) + Distance(tailSeen, tail) = Capacity - 1]_vars
    <2> SUFFICES ASSUME IInv, Next, dropped' # dropped
                 PROVE  Len(accepted) - Len(delivered) + Distance(tailSeen, tail)
                            = Capacity - 1
      BY DEF vars, ringVars
    <2>1. TryPushFull
      BY DEF Next, Call, FinishPush, Pop, TryPushFull, TryPushRoom, Push, PushRoom,
             PushTimeout, WriteSlot, PublishHead, UpdateHighWaterMark, RaiseMark,
             TailBecomesVisible, HeadBecomesVisible, TryPopEmpty, TryPop, PopNothing, PopItem,
             ReadSlot, ReleaseSlot, StoreTail, vars, ringVars
    <2>2. Distance(tailSeen, head) = Capacity - 1
      BY <2>1, DistanceFull DEF TryPushFull, Full, IInv, TypeOK
    <2>3. Distance(tailSeen, tail) + Distance(tail, head) = Distance(tailSeen, head)
      BY CapacityAssumption DEF IInv, TypeOK, RingOrder, Distance, Slot
    <2>4. Distance(tailSeen, tail) \in Int /\ Distance(tail, head) \in Int
      BY DistanceType DEF IInv, TypeOK, Slot
    <2>5. Len(accepted) - Len(delivered) = Distance(tail, head)
      BY DEF IInv, QueuedItemsIntact
    <2> QED
      BY <2>2, <2>3, <2>4, <2>5
  <1> QED
    BY <1>1, SingleConsumer, InductiveInvariant, PTL DEF Spec, DropsOnlyWhenFull

\* The ring implements a first-in first-out queue of Capacity - 1 places.  The
\* stores to _head and _tail are the only steps the queue's users can see.
THEOREM RingImplementsFifo ==
    ASSUME SingleConsumer
    PROVE  Spec => ImplementsFifo
  <1>1. Init => Fifo!Init
    BY DEF Init, Fifo!Init
  <1>2. IInv /\ [Next]_vars => [Fifo!Next]_Fifo!vars
    <2> SUFFICES ASSUME IInv, [Next]_vars
                 PROVE  Fifo!Next \/ UNCHANGED <<accepted, delivered>>
      BY DEF Fifo!vars
    <2>1. CASE PublishHead
      <3>1. /\ accepted' = Append(accepted, pitem)
            /\ delivered' = delivered
            /\ pitem \in Item
            /\ Increment(head) # tailSeen
        BY <2>1 DEF PublishHead, IInv, TypeOK, ProducerKnows, Full
      <3>2. Distance(tail, head) < Capacity - 1
        BY <3>1, CapacityAssumption DEF IInv, TypeOK, RingOrder, Distance, Slot, Increment
      <3>3. Len(accepted) - Len(delivered) < Capacity - 1
        BY <3>2 DEF IInv, QueuedItemsIntact
      <3>4. Fifo!Put(pitem)
        BY <3>1, <3>3 DEF Fifo!Put
      <3> QED
        BY <3>1, <3>4 DEF Fifo!Next
    <2>2. CASE \E c \in Consumers : ReleaseSlot(c)
      <3> PICK c \in Consumers : ReleaseSlot(c)
        BY <2>2
      <3> DEFINE n == Distance(tail, head)
      <3>1. /\ delivered' = Append(delivered, buffer[tail])
            /\ accepted' = accepted
            /\ tail # headSeen
        BY DEF ReleaseSlot, StoreTail, IInv, ConsumerKnows
      <3>2. n \in Nat /\ n > 0
        BY <3>1, CapacityAssumption DEF IInv, TypeOK, RingOrder, Distance, Slot
      <3>3. /\ Len(accepted) - Len(delivered) = n
            /\ \A k \in 0 .. n - 1 : buffer[Wrap(tail + k)] = accepted[Len(delivered) + k + 1]
            /\ accepted \in Seq(Item) /\ delivered \in Seq(Item)
        BY DEF IInv, TypeOK, QueuedItemsIntact
      <3>4. Wrap(tail + 0) = tail
        BY WrapFacts DEF IInv, TypeOK, Slot
      <3> HIDE DEF n
      <3>5. buffer[Wrap(tail + 0)] = accepted[Len(delivered) + 0 + 1]
        BY <3>2, <3>3
      <3>6. Len(delivered) < Len(accepted) /\ buffer[tail] = accepted[Len(delivered) + 1]
        BY <3>2, <3>3, <3>4, <3>5
      <3> QED
        BY <3>1, <3>6 DEF Fifo!Next, Fifo!Take
    <2>3. CASE ~PublishHead /\ ~(\E c \in Consumers : ReleaseSlot(c))
      BY <2>3 DEF Next, Call, FinishPush, Pop, TryPushFull, TryPushRoom, Push, PushRoom,
             PushTimeout, WriteSlot, UpdateHighWaterMark, RaiseMark, TailBecomesVisible,
             HeadBecomesVisible, TryPopEmpty, TryPop, PopNothing, PopItem, ReadSlot, vars, history
    <2> QED
      BY <2>1, <2>2, <2>3
  <1> QED
    BY <1>1, <1>2, SingleConsumer, InductiveInvariant, PTL
       DEF Spec, ImplementsFifo, Fifo!Spec
=============================================================================
