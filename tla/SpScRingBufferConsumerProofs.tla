-------------------- MODULE SpScRingBufferConsumerProofs --------------------
(***************************************************************************)
(* Theorems about SpScRingBufferConsumer, for any number of restarts, any  *)
(* ring and any items: no thread outlives the consumer, and as long as no  *)
(* thread is started too soon nothing is lost or reordered by a restart.   *)
(***************************************************************************)
EXTENDS SpScRingBufferConsumer, SpScRingBufferProofs, DataTheorems

\* A thread that runs is the one that the consumer holds or the one that its owner is
\* waiting for; so the owner loses none, although start() puts a new thread into
\* _pinnedThread while the previous one may still run.
LInv ==
    /\ thread \in [Consumers -> {"new", "looping", "callback", "done"}]
    /\ current \in Consumers \cup {NoThread}
    /\ joining \in Consumers \cup {NoThread}
    /\ owner = "destroyed" => current = NoThread
    /\ \A c \in Consumers : Running(c) => c = current \/ c = joining

\* No thread runs when the consumer has been constructed.
LEMMA InitLInv == ConsumerInit => LInv
  BY DEF ConsumerInit, LInv, Running

\* The owner's calls keep the invariant: start() and the destructor begin only when
\* the owner waits for no one, and wait for the thread they replace.
LEMMA OwnerLInv ==
  ASSUME LInv, Stop \/ Destroy \/ Joined \/ \E c \in Consumers : Start(c)
  PROVE  LInv'
<1>1. CASE Stop
  BY <1>1 DEF Stop, LInv, Running
<1>2. CASE Destroy
  BY <1>2 DEF Destroy, DestroyThread, Ready, LInv, Running
<1>3. CASE Joined
  <2>1. /\ joining \in Consumers /\ thread[joining] = "done" /\ joining' = NoThread
        /\ UNCHANGED <<thread, current, owner>>
    BY <1>3 DEF Joined, LInv
  <2>2. QED
    BY <2>1 DEF LInv, Running
<1>4. CASE \E c \in Consumers : Start(c)
  <2>1. PICK c \in Consumers : Start(c)
    BY <1>4
  <2>2. /\ owner = "active" /\ joining = NoThread /\ thread[c] = "new"
        /\ thread' = [thread EXCEPT ![c] = "looping"]
        /\ current' = c /\ joining' = current /\ owner' = owner
    BY <2>1 DEF Start, Ready, Launch, DestroyThread
  <2>3. \A d \in Consumers : Running(d)' => d = c \/ Running(d)
    BY <2>2 DEF LInv, Running
  <2>4. \A d \in Consumers : Running(d) => d = current
    BY <2>2, NoThreadAssumption DEF LInv
  <2>5. QED
    BY <2>2, <2>3, <2>4 DEF LInv
<1>5. QED
  BY <1>1, <1>2, <1>3, <1>4

\* A step of a thread keeps it: a thread that does not run does not begin to.
LEMMA ThreadLInv ==
  ASSUME LInv, NEW c \in Consumers, ThreadStep(c)
  PROVE  LInv'
<1>1. UNCHANGED <<current, joining, owner>>
  BY DEF ThreadStep, PopInLoop, PoppedInLoop, Callback, LeaveLoop, lifecycle
<1>2. \/ thread' = thread
      \/ /\ Running(c)
         /\ \E s \in {"looping", "callback", "done"} : thread' = [thread EXCEPT ![c] = s]
  BY DEF ThreadStep, PopInLoop, PoppedInLoop, Callback, LeaveLoop, lifecycle, Running
<1>3. QED
  BY <1>1, <1>2 DEF LInv, Running

\* Every step keeps the invariant.
LEMMA NextLInv == LInv /\ [ConsumerNext]_allVars => LInv'
<1>1. SUFFICES ASSUME LInv, [ConsumerNext]_allVars PROVE LInv'
  OBVIOUS
<1>2. CASE UNCHANGED <<thread, current, joining, owner>>
  BY <1>1, <1>2 DEF LInv, Running
<1>3. CASE Stop \/ Destroy \/ Joined \/ \E c \in Consumers : Start(c)
  BY <1>1, <1>3, OwnerLInv
<1>4. CASE \E c \in Consumers : ThreadStep(c)
  BY <1>1, <1>4, ThreadLInv
<1>5. (\E c \in Consumers : Visibility(c)) => UNCHANGED <<thread, current, joining, owner>>
  BY DEF Visibility, StopBecomesVisible, HeadReaches, TailReaches, lifecycle
<1>6. UNCHANGED lifecycle \/ UNCHANGED allVars => UNCHANGED <<thread, current, joining, owner>>
  BY DEF allVars, lifecycle
<1>7. QED
  BY <1>1, <1>2, <1>3, <1>4, <1>5, <1>6 DEF ConsumerNext

\* When the destructor of the consumer has returned no thread of it runs, however
\* often it was restarted and whatever the threads were doing.
THEOREM NoThreadOutlives == ConsumerSpec => []QuietAfterDestruction
<1>1. LInv => QuietAfterDestruction
  BY NoThreadAssumption DEF LInv, QuietAfterDestruction
<1>2. ConsumerInit /\ [][ConsumerNext]_allVars => []LInv
  BY InitLInv, NextLInv, PTL
<1>3. ConsumerSpec => ConsumerInit /\ [][ConsumerNext]_allVars
  BY DEF ConsumerSpec
<1>4. QED
  BY <1>1, <1>2, <1>3, PTL

-----------------------------------------------------------------------------
(* What the callback gets. *)

OneThread == \A c, d \in Consumers : Running(c) /\ Running(d) => c = d

\* A thread is inside tryPop only in its loop.
PopsInLoop == \A c \in Consumers : cpc[c] # "idle" => thread[c] = "looping"

DeliveredInOrder ==
    /\ Len(delivered) <= Len(accepted)
    /\ \A n \in 1 .. Len(delivered) : delivered[n] = accepted[n]

\* The callback is behind tryPop by the item of the thread that is about to call it.
HandledSound ==
    /\ handled \in Seq(Item)
    /\ \A c \in Consumers : thread[c] = "callback" => delivered = Append(handled, cmsg[c])
    /\ (\A c \in Consumers : thread[c] # "callback") => handled = delivered

\* What the indices hold, as places in the order of their stores.
IndicesSound ==
    /\ Len(tails) = Len(delivered)
    /\ tail = (IF Len(tails) = 0 THEN 0 ELSE tails[Len(tails)])
    /\ tail = Len(delivered) % Capacity
    /\ shown = Len(delivered) + Distance(tail, headSeen)

\* The thread that runs loads the last _tail, and a _head that is not behind it.
LoadsSound ==
    /\ view \in [Consumers -> [tail : Nat, head : Nat]]
    /\ known \in [tail : Nat, head : Nat]
    /\ \A c \in Consumers : Running(c) =>
          /\ view[c].tail = Len(tails)
          /\ Len(delivered) <= view[c].head /\ view[c].head <= shown
          /\ cpc[c] # "idle" => Len(delivered) < view[c].head

\* The conjuncts beside the ring's own invariant.
ConsumerSound ==
    /\ OneThread /\ PopsInLoop /\ DeliveredInOrder /\ HandledSound
    /\ tails \in Seq(Slot) /\ IndicesSound /\ LoadsSound

\* While no thread was started too soon, the ring has the one consumer it is made for,
\* and that one finds in _tail what the last one left there.
KInv == ~tooSoon => IInv /\ ConsumerSound

\* The slot after that of the n-th item is that of the next one.
LEMMA NextPlace ==
  ASSUME NEW n \in Nat
  PROVE  n % Capacity \in Slot /\ (n + 1) % Capacity = Increment(n % Capacity)
<1>1. PICK q \in Int, r \in 0 .. Capacity - 1 : n = Capacity * q + r /\ n % Capacity = r
  <2>1. /\ n \div Capacity \in Int /\ n % Capacity \in 0 .. Capacity - 1
        /\ n = Capacity * (n \div Capacity) + (n % Capacity)
    BY CapacityAssumption, ModForm
  <2>2. QED
    BY <2>1
<1>2. CASE r + 1 = Capacity
  <2>1. n + 1 = Capacity * (q + 1) + 0 /\ q + 1 \in Int /\ 0 \in 0 .. Capacity - 1
    BY <1>1, <1>2, CapacityAssumption
  <2>2. (n + 1) % Capacity = 0
    BY <2>1, CapacityAssumption, ModUnique
  <2>3. QED
    BY <1>1, <1>2, <2>2 DEF Slot, Increment
<1>3. CASE r + 1 # Capacity
  <2>1. n + 1 = Capacity * q + (r + 1) /\ r + 1 \in 0 .. Capacity - 1
    BY <1>1, <1>3, CapacityAssumption
  <2>2. (n + 1) % Capacity = r + 1
    BY <2>1, CapacityAssumption, ModUnique
  <2>3. QED
    BY <1>1, <1>3, <2>2 DEF Slot, Increment
<1>4. QED
  BY <1>2, <1>3

\* What the running thread's loads return: its tryPop is that of the only consumer.
LEMMA LoadsAreTheRings ==
  ASSUME IInv, ConsumerSound, NEW c \in Consumers, Running(c),
         PopItem(c, LoadedTail(c), LoadedHead(c))
  PROVE  TryPop(c) /\ Len(delivered) < view[c].head
<1>1. LoadedTail(c) = tail
  BY DEF LoadedTail, ConsumerSound, IndicesSound, LoadsSound
<1>2. /\ Len(delivered) \in Nat /\ view[c].head \in Nat /\ Distance(tail, headSeen) \in Nat
      /\ tail \in Slot /\ headSeen \in Slot
      /\ Distance(tail, headSeen) = 0 <=> tail = headSeen
  BY DistanceType DEF IInv, TypeOK, ConsumerSound, LoadsSound
<1>3. tail # view[c].head % Capacity
  BY <1>1 DEF PopItem, Empty, LoadedHead
<1>4. /\ Len(delivered) <= view[c].head /\ view[c].head <= Len(delivered) + Distance(tail, headSeen)
      /\ tail = Len(delivered) % Capacity
  BY DEF ConsumerSound, LoadsSound, IndicesSound
<1>5. Len(delivered) < view[c].head /\ tail # headSeen
  BY <1>2, <1>3, <1>4
<1>6. QED
  BY <1>1, <1>5 DEF TryPop, PopItem, Empty

\* A step of the consumer is one of the ring, or leaves the ring alone.
LEMMA StepsAreRingSteps ==
  ASSUME IInv, ConsumerSound, [ConsumerNext]_allVars
  PROVE  [Next]_vars
<1>1. CASE Producer \/ TailBecomesVisible \/ HeadShown
  BY <1>1 DEF Producer, HeadShown, Next
<1>2. CASE Stop \/ Destroy \/ Joined
  BY <1>2 DEF Stop, Destroy, Joined
<1>3. ASSUME NEW c \in Consumers, Start(c) \/ Visibility(c) PROVE [Next]_vars
  BY <1>3 DEF Start, Visibility, StopBecomesVisible, HeadReaches, TailReaches
<1>4. ASSUME NEW c \in Consumers, ThreadStep(c) PROVE [Next]_vars
  <2>1. CASE PopInLoop(c)
    <3>1. Running(c)
      BY <2>1 DEF PopInLoop, Running
    <3>2. CASE PopItem(c, LoadedTail(c), LoadedHead(c))
      BY <3>1, <3>2, LoadsAreTheRings DEF Next, Pop
    <3>3. CASE PopNothing(c, LoadedTail(c), LoadedHead(c)) \/ ReadSlot(c)
      BY <3>3 DEF PopNothing, Next, Pop
    <3>4. QED
      BY <2>1, <3>2, <3>3 DEF PopInLoop
  <2>2. CASE PoppedInLoop(c) \/ Callback(c) \/ LeaveLoop(c)
    BY <2>2 DEF PoppedInLoop, Callback, LeaveLoop, Next, Pop
  <2>3. QED
    BY <1>4, <2>1, <2>2 DEF ThreadStep
<1>5. CASE UNCHANGED allVars
  BY <1>5 DEF allVars
<1>6. QED
  BY <1>1, <1>2, <1>3, <1>4, <1>5 DEF ConsumerNext

\* The producer's calls, and the stores that become visible, concern no consumer.
LEMMA ProducerKeeps ==
  ASSUME LInv, IInv, ConsumerSound, UNCHANGED lifecycle,
         ((Producer \/ TailBecomesVisible) /\ UNCHANGED memory) \/ HeadShown
  PROVE  ConsumerSound'
<1>1. /\ UNCHANGED <<cpc, cmsg, delivered, tail>>
      /\ accepted' = accepted \/ (accepted' = Append(accepted, pitem) /\ ppc = "publish")
  <2>1. CASE PublishHead
    BY <2>1 DEF PublishHead, consumerVars
  <2>2. CASE Call \/ PushRoom \/ PushTimeout \/ WriteSlot
    BY <2>2 DEF Call, TryPushFull, TryPushRoom, Push, PushRoom, PushTimeout, WriteSlot, ringVars,
                history, consumerVars
  <2>3. CASE UpdateHighWaterMark \/ TailBecomesVisible \/ HeadShown
    BY <2>3 DEF UpdateHighWaterMark, RaiseMark, TailBecomesVisible, HeadShown, HeadBecomesVisible,
                history, consumerVars
  <2>4. QED
    BY <2>1, <2>2, <2>3 DEF Producer, FinishPush
<1>2. OneThread' /\ PopsInLoop' /\ HandledSound'
  BY <1>1 DEF ConsumerSound, OneThread, PopsInLoop, HandledSound, Running, lifecycle
<1>3. accepted \in Seq(Item) /\ delivered \in Seq(Item) /\ (ppc = "publish" => pitem \in Item)
  BY DEF IInv, TypeOK
<1>4. DeliveredInOrder'
  <2>1. CASE accepted' = accepted
    BY <1>1, <2>1 DEF ConsumerSound, DeliveredInOrder
  <2>2. CASE accepted' = Append(accepted, pitem) /\ pitem \in Item
    <3>1. /\ Len(accepted') = Len(accepted) + 1
          /\ \A n \in 1 .. Len(accepted) : accepted'[n] = accepted[n]
      BY <1>3, <2>2, AppendProperties
    <3>2. Len(accepted) \in Nat /\ Len(delivered) \in Nat
      BY <1>3
    <3>3. QED
      BY <1>1, <3>1, <3>2 DEF ConsumerSound, DeliveredInOrder
  <2>3. QED
    BY <1>1, <1>3, <2>1, <2>2
<1>5. /\ UNCHANGED <<tails, view, known>>
      /\ \/ UNCHANGED <<shown, headSeen>>
         \/ shown' = Len(accepted) /\ headSeen' = head
  <2>1. CASE Producer \/ TailBecomesVisible
    BY <2>1 DEF Producer, Call, TryPushFull, TryPushRoom, Push, FinishPush, PushRoom, PushTimeout,
                WriteSlot, PublishHead, UpdateHighWaterMark, RaiseMark, TailBecomesVisible,
                HeadShown, HeadBecomesVisible, ringVars, memory
  <2>2. CASE HeadShown
    BY <2>2 DEF HeadShown, HeadBecomesVisible
  <2>3. QED
    BY <2>1, <2>2
<1>6. /\ tail \in Slot /\ head \in Slot /\ headSeen \in Slot /\ Len(delivered) \in Nat
      /\ Len(accepted) = Len(delivered) + Distance(tail, head)
      /\ Distance(tail, headSeen) <= Distance(tail, head)
      /\ Distance(tail, head) \in Nat /\ Distance(tail, headSeen) \in Nat
  <2>1. tail \in Slot /\ head \in Slot /\ headSeen \in Slot /\ Len(delivered) \in Nat
        /\ Len(accepted) \in Nat /\ tailSeen \in Slot
    BY DEF IInv, TypeOK
  <2>2. Distance(tail, head) \in Nat /\ Distance(tail, headSeen) \in Nat
    BY <2>1, DistanceType
  <2>3. Distance(tail, headSeen) <= Distance(tail, head)
    BY <2>1, CapacityAssumption DEF IInv, RingOrder, Distance, Slot
  <2>4. Len(accepted) - Len(delivered) = Distance(tail, head)
    BY DEF IInv, QueuedItemsIntact
  <2>5. QED
    BY <2>1, <2>2, <2>3, <2>4
<1>7. shown' = Len(delivered') + Distance(tail', headSeen') /\ shown <= shown' /\ shown' \in Nat
  <2>1. shown = Len(delivered) + Distance(tail, headSeen)
    BY DEF ConsumerSound, IndicesSound
  <2>2. CASE UNCHANGED <<shown, headSeen>>
    <3>1. Distance(tail', headSeen') = Distance(tail, headSeen)
      BY <1>1, <2>2 DEF Distance
    <3>2. QED
      BY <1>1, <1>6, <2>1, <2>2, <3>1
  <2>3. CASE shown' = Len(accepted) /\ headSeen' = head
    <3>1. Distance(tail', headSeen') = Distance(tail, head)
      BY <1>1, <2>3 DEF Distance
    <3>2. QED
      BY <1>1, <1>6, <2>1, <2>3, <3>1
  <2>4. QED
    BY <1>5, <2>2, <2>3
<1>8. IndicesSound' /\ (tails \in Seq(Slot))'
  BY <1>1, <1>5, <1>7 DEF ConsumerSound, IndicesSound
<1>9. LoadsSound'
  <2>1. shown \in Nat /\ UNCHANGED thread
    BY <1>6 DEF ConsumerSound, IndicesSound, lifecycle
  <2>2. QED
    BY <1>1, <1>5, <1>7, <2>1 DEF ConsumerSound, LoadsSound, Running
<1>10. QED
  BY <1>2, <1>4, <1>8, <1>9 DEF ConsumerSound

\* start() that does not come too soon, the other calls of the owner, and what becomes
\* visible to a thread.
LEMMA OwnerKeeps ==
  ASSUME LInv, IInv, ConsumerSound, ~tooSoon',
         \/ Stop \/ Destroy \/ Joined
         \/ \E c \in Consumers : Start(c) \/ Visibility(c)
  PROVE  ConsumerSound'
<1>1. UNCHANGED vars /\ UNCHANGED <<handled, tails, shown>>
  BY DEF Stop, Destroy, Joined, Start, Visibility, StopBecomesVisible, HeadReaches, TailReaches,
         lifecycle, memory
<1>2. UNCHANGED <<cpc, cmsg, accepted, delivered, handled, tail, headSeen, tails, shown>>
  BY <1>1 DEF vars, consumerVars, history, ringVars
<1>3. DeliveredInOrder' /\ IndicesSound' /\ (tails \in Seq(Slot))'
  BY <1>2 DEF ConsumerSound, DeliveredInOrder, IndicesSound, Distance
<1>4. CASE thread' = thread
  <2>1. OneThread' /\ PopsInLoop' /\ HandledSound'
    BY <1>2, <1>4 DEF ConsumerSound, OneThread, PopsInLoop, HandledSound, Running
  <2>2. \A c \in Consumers : Running(c)' <=> Running(c)
    BY <1>4 DEF Running
  <2>3. LoadsSound'
    <3>1. CASE UNCHANGED <<view, known>>
      BY <1>2, <2>2, <3>1 DEF ConsumerSound, LoadsSound
    <3>2. CASE Joined
      <4>1. joining \in Consumers /\ view' = view
        BY <3>2 DEF Joined, LInv
      <4>2. view[joining].tail \in Nat /\ view[joining].head \in Nat
            /\ known.tail \in Nat /\ known.head \in Nat
        BY <4>1 DEF ConsumerSound, LoadsSound
      <4>3. known' \in [tail : Nat, head : Nat]
        BY <3>2, <4>2 DEF Joined, Later
      <4>4. QED
        BY <1>2, <2>2, <4>1, <4>3 DEF ConsumerSound, LoadsSound
    <3>3. ASSUME NEW c \in Consumers, HeadReaches(c) \/ TailReaches(c) PROVE LoadsSound'
      <4>1. Running(c) /\ known' = known
        BY <3>3 DEF HeadReaches, TailReaches
      <4>2. /\ view[c].tail = Len(tails) /\ view[c].head \in Nat /\ shown \in Int
            /\ Len(tails) \in Nat /\ Len(delivered) \in Nat
            /\ Len(delivered) <= view[c].head
        <5>1. Distance(tail, headSeen) \in Nat
          BY DistanceType DEF IInv, TypeOK
        <5>2. QED
          BY <4>1, <5>1 DEF ConsumerSound, LoadsSound, IndicesSound, IInv, TypeOK
      <4>3. ~TailReaches(c)
        BY <4>2 DEF TailReaches
      <4>4. PICK n \in view[c].head + 1 .. shown : view' = [view EXCEPT ![c].head = n]
        BY <3>3, <4>3 DEF HeadReaches
      <4>5. n \in Nat /\ Len(delivered) < n /\ n <= shown
        BY <4>2, <4>4
      <4>6. view \in [Consumers -> [tail : Nat, head : Nat]]
        BY DEF ConsumerSound, LoadsSound
      <4>7. /\ view' \in [Consumers -> [tail : Nat, head : Nat]]
            /\ view'[c].tail = view[c].tail /\ view'[c].head = n
            /\ \A d \in Consumers : d # c => view'[d] = view[d]
        BY <4>4, <4>5, <4>6
      <4>8. ASSUME NEW d \in Consumers, Running(d)
            PROVE  /\ view'[d].tail = Len(tails)
                   /\ Len(delivered) <= view'[d].head /\ view'[d].head <= shown
                   /\ cpc[d] # "idle" => Len(delivered) < view'[d].head
        <5>1. CASE d = c
          BY <4>2, <4>5, <4>7, <5>1
        <5>2. CASE d # c
          BY <4>7, <4>8, <5>2 DEF ConsumerSound, LoadsSound
        <5>3. QED
          BY <5>1, <5>2
      <4>9. known' \in [tail : Nat, head : Nat]
        BY <4>1 DEF ConsumerSound, LoadsSound
      <4>10. QED
        BY <1>2, <2>2, <4>7, <4>8, <4>9 DEF LoadsSound
    <3>4. QED
      BY <1>4, <3>1, <3>2, <3>3 DEF Stop, Destroy, Start, Launch, Visibility, StopBecomesVisible, memory,
         LInv
  <2>4. QED
    BY <1>3, <2>1, <2>3 DEF ConsumerSound
<1>5. CASE \E c \in Consumers : Start(c)
  <2>1. PICK c \in Consumers : Start(c)
    BY <1>5
  <2>2. /\ thread[c] = "new" /\ thread' = [thread EXCEPT ![c] = "looping"]
        /\ \A d \in Consumers : ~Running(d)
    BY <2>1 DEF Start, Launch, FirstLoads
  <2>3. thread \in [Consumers -> {"new", "looping", "callback", "done"}]
    BY DEF LInv
  <2>4. OneThread' /\ PopsInLoop'
    BY <1>2, <2>2, <2>3 DEF ConsumerSound, OneThread, PopsInLoop, Running
  <2>5. HandledSound'
    BY <1>2, <2>2, <2>3 DEF ConsumerSound, HandledSound, Running
  <2>6. LoadsSound'
    <3>1. /\ known.tail \in Nat /\ known.head \in Nat /\ known' = known
          /\ view \in [Consumers -> [tail : Nat, head : Nat]]
      BY <2>1 DEF Start, ConsumerSound, LoadsSound
    <3>2. /\ Len(tails) \in Nat /\ Len(tails) = Len(delivered) /\ shown \in Int
      <4>1. Distance(tail, headSeen) \in Nat
        BY DistanceType DEF IInv, TypeOK
      <4>2. QED
        BY <4>1 DEF ConsumerSound, IndicesSound, IInv, TypeOK
    <3>3. PICK t \in known.tail .. Len(tails), h \in known.head .. shown :
             /\ view' = [view EXCEPT ![c] = [tail |-> t, head |-> h]]
             /\ ~(t < Len(tails)) /\ ~(h < Len(tails))
      BY <2>1 DEF Start, FirstLoads
    <3>4. t = Len(tails) /\ h \in Nat /\ t \in Nat /\ Len(delivered) <= h /\ h <= shown
      BY <3>1, <3>2, <3>3
    <3>5. /\ view' \in [Consumers -> [tail : Nat, head : Nat]]
          /\ view'[c].tail = t /\ view'[c].head = h
      BY <3>1, <3>3, <3>4
    <3>6. \A d \in Consumers : Running(d)' => d = c
      BY <2>2, <2>3 DEF Running
    <3>7. cpc[c] = "idle"
      BY <2>2 DEF ConsumerSound, PopsInLoop
    <3>8. QED
      BY <1>2, <3>1, <3>4, <3>5, <3>6, <3>7 DEF ConsumerSound, LoadsSound
  <2>7. QED
    BY <1>3, <2>4, <2>5, <2>6 DEF ConsumerSound
<1>6. QED
  BY <1>4, <1>5 DEF Stop, Destroy, Joined, Visibility, StopBecomesVisible, HeadReaches, TailReaches,
     lifecycle

\* The steps of the one thread that runs, apart from what they do to the indices.
LEMMA ThreadKeeps ==
  ASSUME LInv, IInv, ConsumerSound, NEW c \in Consumers, ThreadStep(c)
  PROVE  OneThread' /\ PopsInLoop' /\ DeliveredInOrder' /\ HandledSound'
<1>0. /\ thread \in [Consumers -> {"new", "looping", "callback", "done"}]
      /\ cpc \in [Consumers -> {"idle", "read", "release"}]
      /\ cmsg \in [Consumers -> Item \cup {NoItem}]
      /\ accepted \in Seq(Item) /\ delivered \in Seq(Item) /\ handled \in Seq(Item)
  BY DEF LInv, IInv, TypeOK, ConsumerSound, HandledSound
<1>1. Running(c)
  BY DEF ThreadStep, PopInLoop, PoppedInLoop, Callback, LeaveLoop, Running
<1>2. \A d \in Consumers : d # c => ~Running(d) /\ thread[d] # "callback" /\ cpc[d] = "idle"
  <2>1. \A d \in Consumers : d # c => ~Running(d)
    BY <1>1 DEF ConsumerSound, OneThread
  <2>2. QED
    BY <2>1 DEF ConsumerSound, PopsInLoop, Running
<1>3. CASE PopInLoop(c)
  <2>1. thread[c] = "looping" /\ UNCHANGED <<thread, handled>>
    BY <1>3 DEF PopInLoop, lifecycle
  <2>2. /\ UNCHANGED <<accepted, delivered>>
        /\ \A d \in Consumers : d # c => cpc'[d] = cpc[d]
    BY <1>0, <1>3 DEF PopInLoop, PopItem, PopNothing, ReadSlot, vars, history, consumerVars
  <2>3. OneThread' /\ PopsInLoop' /\ DeliveredInOrder'
    BY <1>2, <2>1, <2>2 DEF ConsumerSound, OneThread, PopsInLoop, DeliveredInOrder, Running
  <2>4. HandledSound'
    BY <1>2, <2>1, <2>2 DEF ConsumerSound, HandledSound
  <2>5. QED
    BY <2>3, <2>4
<1>4. CASE PoppedInLoop(c)
  <2>1. /\ thread[c] = "looping" /\ thread' = [thread EXCEPT ![c] = "callback"]
        /\ ReleaseSlot(c) /\ handled' = handled
    BY <1>4 DEF PoppedInLoop
  <2>2. /\ delivered' = Append(delivered, cmsg[c]) /\ cpc' = [cpc EXCEPT ![c] = "idle"]
        /\ accepted' = accepted /\ cmsg' = cmsg
    BY <2>1 DEF ReleaseSlot, StoreTail
  <2>3. Len(delivered) < Len(accepted) /\ cmsg[c] = accepted[Len(delivered) + 1]
    BY <2>1, ReleasesNext
  <2>4. OneThread' /\ PopsInLoop'
    BY <1>0, <1>2, <2>1, <2>2 DEF OneThread, PopsInLoop, Running
  <2>5. handled = delivered
    BY <1>2, <2>1 DEF ConsumerSound, HandledSound
  <2>6. HandledSound'
    BY <1>0, <1>2, <2>1, <2>2, <2>5 DEF HandledSound
  <2>7. DeliveredInOrder'
    <3>1. Len(delivered) \in Nat /\ Len(accepted) \in Nat /\ cmsg[c] \in Item
      BY <1>0, <2>3
    <3>2. /\ Len(delivered') = Len(delivered) + 1 /\ delivered'[Len(delivered) + 1] = cmsg[c]
          /\ \A n \in 1 .. Len(delivered) : delivered'[n] = delivered[n]
      BY <1>0, <2>2, <3>1, AppendProperties
    <3>3. ASSUME NEW n \in 1 .. Len(delivered) + 1 PROVE delivered'[n] = accepted[n]
      <4>1. CASE n = Len(delivered) + 1
        BY <2>3, <3>2, <4>1
      <4>2. CASE n \in 1 .. Len(delivered)
        BY <3>2, <4>2 DEF ConsumerSound, DeliveredInOrder
      <4>3. QED
        BY <3>1, <4>1, <4>2
    <3>4. QED
      BY <2>2, <2>3, <3>1, <3>2, <3>3 DEF DeliveredInOrder
  <2>8. QED
    BY <2>4, <2>6, <2>7
<1>5. CASE Callback(c)
  <2>1. /\ thread[c] = "callback" /\ thread' = [thread EXCEPT ![c] = "looping"]
        /\ handled' = Append(handled, cmsg[c]) /\ UNCHANGED <<cpc, cmsg, accepted, delivered>>
    BY <1>5 DEF Callback, vars, consumerVars, history
  <2>2. handled' = delivered
    BY <2>1 DEF ConsumerSound, HandledSound
  <2>3. OneThread' /\ PopsInLoop' /\ DeliveredInOrder'
    BY <1>0, <1>2, <2>1 DEF ConsumerSound, OneThread, PopsInLoop, DeliveredInOrder, Running
  <2>4. HandledSound'
    BY <1>0, <1>2, <2>1, <2>2 DEF HandledSound
  <2>5. QED
    BY <2>3, <2>4
<1>6. CASE LeaveLoop(c)
  <2>1. /\ thread[c] = "looping" /\ cpc[c] = "idle" /\ thread' = [thread EXCEPT ![c] = "done"]
        /\ handled' = handled /\ UNCHANGED <<cpc, cmsg, accepted, delivered>>
    BY <1>6 DEF LeaveLoop, vars, consumerVars, history
  <2>2. OneThread' /\ PopsInLoop' /\ DeliveredInOrder'
    BY <1>0, <1>2, <2>1 DEF ConsumerSound, OneThread, PopsInLoop, DeliveredInOrder, Running
  <2>3. HandledSound'
    BY <1>0, <1>2, <2>1 DEF ConsumerSound, HandledSound
  <2>4. QED
    BY <2>2, <2>3
<1>7. QED
  BY <1>3, <1>4, <1>5, <1>6 DEF ThreadStep

\* What a thread's steps do to the indices: only tryPop's store moves _tail.
LEMMA ThreadKeepsIndices ==
  ASSUME LInv, IInv, ConsumerSound, NEW c \in Consumers, ThreadStep(c)
  PROVE  IndicesSound' /\ LoadsSound' /\ tails' \in Seq(Slot)
<1>0. /\ thread \in [Consumers -> {"new", "looping", "callback", "done"}]
      /\ cpc \in [Consumers -> {"idle", "read", "release"}]
      /\ view \in [Consumers -> [tail : Nat, head : Nat]]
      /\ tails \in Seq(Slot) /\ Len(delivered) \in Nat /\ tail \in Slot /\ headSeen \in Slot
  BY DEF LInv, IInv, TypeOK, ConsumerSound, LoadsSound
<1>1. Running(c)
  BY DEF ThreadStep, PopInLoop, PoppedInLoop, Callback, LeaveLoop, Running
<1>2. \A d \in Consumers : Running(d)' => d = c
  <2>1. \A d \in Consumers : d # c => thread'[d] = thread[d]
    BY <1>0 DEF ThreadStep, PopInLoop, PoppedInLoop, Callback, LeaveLoop, lifecycle
  <2>2. QED
    BY <1>1, <2>1 DEF ConsumerSound, OneThread, Running
<1>3. CASE PopInLoop(c)
  <2>1. UNCHANGED <<tails, shown, view, known, delivered, tail, headSeen>>
    BY <1>3 DEF PopInLoop, PopItem, PopNothing, ReadSlot, vars, memory, ringVars, history
  <2>2. cpc'[c] # "idle" => Len(delivered) < view[c].head
    <3>1. CASE PopItem(c, LoadedTail(c), LoadedHead(c))
      BY <1>1, <3>1, LoadsAreTheRings
    <3>2. CASE ReadSlot(c) \/ PopNothing(c, LoadedTail(c), LoadedHead(c))
      BY <1>0, <1>1, <3>2 DEF ReadSlot, PopNothing, ConsumerSound, LoadsSound, vars, consumerVars
    <3>3. QED
      BY <1>3, <3>1, <3>2 DEF PopInLoop
  <2>3. QED
    BY <1>0, <1>1, <1>2, <2>1, <2>2 DEF ConsumerSound, LoadsSound, IndicesSound, Distance
<1>4. CASE PoppedInLoop(c)
  <2>1. /\ ReleaseSlot(c) /\ tails' = Append(tails, tail') /\ UNCHANGED <<shown, known>>
        /\ view' = [view EXCEPT ![c].tail = Len(tails) + 1]
    BY <1>4 DEF PoppedInLoop
  <2>2. /\ cpc[c] = "release" /\ tail' = Increment(tail) /\ tail # headSeen
        /\ delivered' = Append(delivered, cmsg[c]) /\ cpc' = [cpc EXCEPT ![c] = "idle"]
        /\ headSeen' = headSeen
    BY <2>1 DEF ReleaseSlot, StoreTail, IInv, ConsumerKnows
  <2>3. tail' \in Slot /\ Len(tails) \in Nat
    BY <1>0, <2>2, IncrementType
  <2>4. /\ tails' \in Seq(Slot) /\ Len(tails') = Len(tails) + 1 /\ tails'[Len(tails')] = tail'
    BY <1>0, <2>1, <2>3, AppendProperties
  <2>5. Len(delivered') = Len(delivered) + 1
    <3>1. delivered \in Seq(Item) /\ cmsg[c] \in Item \cup {NoItem}
      BY DEF IInv, TypeOK
    <3>2. delivered \in Seq(Item \cup {NoItem})
      BY <3>1
    <3>3. QED
      BY <2>2, <3>1, <3>2, AppendProperties
  <2>6. tail' = Len(delivered') % Capacity
    BY <1>0, <2>2, <2>5, NextPlace DEF ConsumerSound, IndicesSound
  <2>7. shown = (Len(delivered) + 1) + Distance(tail', headSeen)
    <3>1. Distance(tail', headSeen) = Distance(tail, headSeen) - 1
      BY <1>0, <2>2, DistanceNear
    <3>2. Distance(tail, headSeen) \in Nat
      BY <1>0, DistanceType
    <3>3. shown = Len(delivered) + Distance(tail, headSeen)
      BY DEF ConsumerSound, IndicesSound
    <3>4. QED
      BY <1>0, <3>1, <3>2, <3>3
  <2>8. IndicesSound'
    <3>1. shown' = Len(delivered') + Distance(tail', headSeen')
      BY <2>1, <2>2, <2>5, <2>7
    <3>2. Len(tails') = Len(delivered') /\ Len(tails') # 0
      BY <2>3, <2>4, <2>5 DEF ConsumerSound, IndicesSound
    <3>3. QED
      BY <2>4, <2>6, <3>1, <3>2 DEF IndicesSound, Distance
  <2>9. LoadsSound'
    <3>1. /\ view' \in [Consumers -> [tail : Nat, head : Nat]]
          /\ view'[c].tail = Len(tails) + 1 /\ view'[c].head = view[c].head
      <4>1. PICK n \in Nat : n = Len(tails) + 1
        BY <2>3
      <4>2. view' = [view EXCEPT ![c].tail = n]
        BY <2>1, <4>1
      <4>3. QED
        BY <1>0, <4>1, <4>2
    <3>2. Len(delivered) < view[c].head /\ view[c].head <= shown /\ view[c].head \in Nat
      BY <1>0, <1>1, <2>2 DEF ConsumerSound, LoadsSound
    <3>3. cpc'[c] = "idle"
      BY <1>0, <2>2
    <3>4. Len(delivered') <= view'[c].head /\ view'[c].head <= shown'
      BY <1>0, <2>1, <2>5, <3>1, <3>2
    <3>5. known' \in [tail : Nat, head : Nat]
      BY <2>1 DEF ConsumerSound, LoadsSound
    <3>6. QED
      BY <1>2, <2>4, <3>1, <3>3, <3>4, <3>5 DEF LoadsSound
  <2>10. QED
    BY <2>4, <2>8, <2>9
<1>5. CASE Callback(c) \/ LeaveLoop(c)
  <2>1. UNCHANGED <<tails, shown, view, known, delivered, tail, headSeen, cpc>>
    BY <1>5 DEF Callback, LeaveLoop, vars, memory, ringVars, history, consumerVars
  <2>2. QED
    BY <1>0, <1>1, <1>2, <2>1 DEF ConsumerSound, LoadsSound, IndicesSound, Distance
<1>6. QED
  BY <1>3, <1>4, <1>5 DEF ThreadStep

\* Every step keeps KInv.
LEMMA NextKInv == LInv /\ KInv /\ [ConsumerNext]_allVars => KInv'
<1>1. SUFFICES ASSUME LInv, KInv, [ConsumerNext]_allVars, ~tooSoon'
               PROVE  IInv' /\ ConsumerSound'
  BY DEF KInv
<1>2. ~tooSoon
  <2>1. CASE \E c \in Consumers : Start(c)
    BY <1>1, <2>1 DEF Start, FirstLoads
  <2>2. CASE UNCHANGED tooSoon
    BY <1>1, <2>2
  <2>3. QED
    BY <1>1, <2>1, <2>2 DEF ConsumerNext, Stop, Destroy, Joined, Visibility, StopBecomesVisible,
       HeadReaches, TailReaches, ThreadStep, PopInLoop, PoppedInLoop, Callback, LeaveLoop, lifecycle,
       allVars
<1>3. IInv /\ ConsumerSound
  BY <1>1, <1>2 DEF KInv
<1>4. OneInside
  BY <1>3 DEF ConsumerSound, OneThread, PopsInLoop, OneInside, Running
<1>5. IInv'
  BY <1>1, <1>3, <1>4, StepsAreRingSteps, NextIInv
<1>6. ConsumerSound'
  <2>1. CASE \/ (Producer \/ TailBecomesVisible) /\ UNCHANGED <<memory, lifecycle>>
             \/ HeadShown /\ UNCHANGED lifecycle
    BY <1>1, <1>3, <2>1, ProducerKeeps
  <2>2. CASE Stop \/ Destroy \/ Joined \/ \E c \in Consumers : Start(c) \/ Visibility(c)
    BY <1>1, <1>3, <2>2, OwnerKeeps
  <2>3. CASE \E c \in Consumers : ThreadStep(c)
    BY <1>1, <1>3, <2>3, ThreadKeeps, ThreadKeepsIndices DEF ConsumerSound
  <2>4. CASE UNCHANGED allVars
    <3>1. UNCHANGED <<cpc, cmsg, accepted, delivered, handled, thread>>
      BY <2>4 DEF allVars, vars, lifecycle, consumerVars, history
    <3>2. UNCHANGED <<tail, headSeen, tails, shown, view, known>>
      BY <2>4 DEF allVars, vars, memory, ringVars
    <3>3. OneThread' /\ PopsInLoop' /\ DeliveredInOrder' /\ HandledSound'
      BY <1>3, <3>1 DEF ConsumerSound, OneThread, PopsInLoop, DeliveredInOrder, HandledSound, Running
    <3>4. IndicesSound' /\ LoadsSound' /\ (tails \in Seq(Slot))'
      BY <1>3, <3>1, <3>2 DEF ConsumerSound, IndicesSound, LoadsSound, Distance, Running
    <3>5. QED
      BY <3>3, <3>4 DEF ConsumerSound
  <2>5. QED
    BY <1>1, <2>1, <2>2, <2>3, <2>4 DEF ConsumerNext
<1>7. QED
  BY <1>5, <1>6

\* A prefix, item by item.
LEMMA PrefixIs ==
  ASSUME NEW S, NEW s \in Seq(S), NEW t \in Seq(S), Len(s) <= Len(t),
         \A n \in 1 .. Len(s) : s[n] = t[n]
  PROVE  IsPrefix(s, t)
<1>1. PICK m \in Int : m = Len(s) /\ 0 <= m /\ m <= Len(t)
  OBVIOUS
<1>2. PICK a, b : a = SubSeq(s, 1, m) /\ b = SubSeq(t, 1, m)
  OBVIOUS
<1>3. /\ a \in Seq(S) /\ Len(a) = (m - 1) + 1
      /\ \A i \in 1 .. (m - 1) + 1 : a[i] = s[(1 + i) - 1]
  BY <1>1, <1>2, CutIs
<1>4. /\ b \in Seq(S) /\ Len(b) = (m - 1) + 1
      /\ \A i \in 1 .. (m - 1) + 1 : b[i] = t[(1 + i) - 1]
  BY <1>1, <1>2, CutIs
<1>5. \A i \in 1 .. Len(a) : a[i] = b[i]
  BY <1>1, <1>3, <1>4
<1>6. a = b
  BY <1>3, <1>4, <1>5, SeqEqual
<1>7. QED
  BY <1>1, <1>2, <1>6 DEF IsPrefix

\* Restarts lose nothing, repeat nothing and keep the order, however often the owner
\* stops and starts, if each start comes when the old thread has ended and the new one
\* loads the _tail that it left: a _head that is too old makes it wait, not err.
THEOREM RestartsKeepOrder == ConsumerSpec => []RestartKeepsOrder
<1>1. ConsumerInit => KInv
  <2>1. SUFFICES ASSUME ConsumerInit PROVE KInv
    OBVIOUS
  <2>2. IInv
    BY <2>1, InitIInv DEF ConsumerInit
  <2>3. /\ \A c \in Consumers : thread[c] = "new" /\ cpc[c] = "idle"
        /\ handled = <<>> /\ delivered = <<>> /\ accepted = <<>>
    BY <2>1 DEF ConsumerInit, Init
  <2>4. OneThread /\ PopsInLoop
    BY <2>3 DEF OneThread, PopsInLoop, Running
  <2>5. DeliveredInOrder /\ HandledSound
    BY <2>3 DEF DeliveredInOrder, HandledSound
  <2>6. /\ tails = <<>> /\ shown = 0 /\ tail = 0 /\ headSeen = 0
        /\ view = [c \in Consumers |-> [tail |-> 0, head |-> 0]] /\ known = [tail |-> 0, head |-> 0]
    BY <2>1 DEF ConsumerInit, Init
  <2>7. 0 % Capacity = 0 /\ Distance(0, 0) = 0
    <3>1. Capacity * 0 + 0 = 0 /\ 0 \in 0 .. Capacity - 1
      BY CapacityAssumption
    <3>2. QED
      BY <3>1, CapacityAssumption, ModUnique DEF Distance
  <2>8. tails \in Seq(Slot) /\ IndicesSound
    BY <2>3, <2>6, <2>7 DEF IndicesSound
  <2>9. LoadsSound
    BY <2>3, <2>6 DEF LoadsSound, Running
  <2>10. QED
    BY <2>2, <2>4, <2>5, <2>8, <2>9 DEF KInv, ConsumerSound
<1>2. ConsumerInit /\ [][ConsumerNext]_allVars => [](LInv /\ KInv)
  BY <1>1, InitLInv, NextLInv, NextKInv, PTL
<1>3. ConsumerSpec => ConsumerInit /\ [][ConsumerNext]_allVars
  BY DEF ConsumerSpec
<1>4. ASSUME LInv, KInv PROVE RestartKeepsOrder
  <2>1. SUFFICES ASSUME ~tooSoon
                 PROVE  /\ IsPrefix(handled, accepted)
                        /\ (\A c \in Consumers : ~Running(c)) => handled = delivered
    BY DEF RestartKeepsOrder
  <2>2. /\ handled \in Seq(Item) /\ delivered \in Seq(Item) /\ accepted \in Seq(Item)
        /\ DeliveredInOrder /\ HandledSound
    BY <1>4, <2>1 DEF KInv, ConsumerSound, IInv, TypeOK, HandledSound
  <2>3. (\A c \in Consumers : ~Running(c)) => handled = delivered
    BY <2>2 DEF HandledSound, Running
  <2>4. Len(handled) <= Len(delivered) /\ \A n \in 1 .. Len(handled) : handled[n] = delivered[n]
    <3>1. CASE handled = delivered
      BY <2>2, <3>1
    <3>2. CASE \E m : delivered = Append(handled, m)
      BY <2>2, <3>2
    <3>3. QED
      BY <2>2, <3>1, <3>2 DEF HandledSound
  <2>5. Len(handled) \in Nat /\ Len(delivered) \in Nat /\ Len(accepted) \in Nat
    BY <2>2
  <2>6. Len(handled) <= Len(accepted) /\ \A n \in 1 .. Len(handled) : handled[n] = accepted[n]
    BY <2>2, <2>4, <2>5 DEF DeliveredInOrder
  <2>7. QED
    BY <2>2, <2>3, <2>6, PrefixIs
<1>5. QED
  BY <1>2, <1>3, <1>4, PTL
=============================================================================
