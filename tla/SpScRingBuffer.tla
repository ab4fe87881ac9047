--------------------------- MODULE SpScRingBuffer ---------------------------
(***************************************************************************)
(* The lock-free single-producer single-consumer ring of                   *)
(* libs/common/SpScRingBuffer/SpScRingBuffer.h, at the granularity of its  *)
(* atomic operations: every load, store and slot access of one thread is a *)
(* step that the other thread's steps interleave with.                     *)
(*                                                                         *)
(* Memory order.  _head is written by the producer only and _tail by the   *)
(* consumer only, both with release, and each is loaded by the other       *)
(* thread with acquire (or relaxed, in updateHighWaterMark).  Such a load  *)
(* may return a value older than the last store, but never one older than  *)
(* a value the thread has already read.  headSeen and tailSeen are the     *)
(* values the other thread's next load returns; they catch up with head    *)
(* and tail at any later moment.  The slots are not atomic: NoSlotRace     *)
(* says that no slot is written and read at once, which is what makes      *)
(* their plain accesses well defined.                                      *)
(*                                                                         *)
(* Consumers is the set of threads that call tryPop.  The class is correct *)
(* for at most one (SingleConsumer), whose load of _tail returns its own   *)
(* last store; SpScRingBufferConsumer shows when the program has two, and  *)
(* what their loads return then.                                           *)
(***************************************************************************)
EXTENDS Integers, Sequences

CONSTANTS
    Item,         \* the messages (T)
    NoItem,       \* what an uninitialised slot or message holds
    Capacity,     \* the number of slots (template parameter Capacity)
    Consumers,    \* the threads that call tryPop
    MaxItems,     \* bound: items accepted in a behaviour
    MaxDropped    \* bound: pushes refused in a behaviour

ASSUME CapacityAssumption == Capacity \in Nat \ {0}
ASSUME NoItemAssumption == NoItem \notin Item
ASSUME BoundAssumption == MaxItems \in Nat /\ MaxDropped \in Nat

SingleConsumer == \A c, d \in Consumers : c = d

VARIABLES
    buffer,         \* _buffer
    head,           \* _head, the next slot to fill
    tail,           \* _tail, the next slot to empty
    tailSeen,       \* the value of _tail that the producer's next load returns
    headSeen,       \* the value of _head that a consumer's next load returns
    dropped,        \* _dropped
    highWaterMark,  \* _highWaterMark
    ppc, pitem,     \* the producer's position in tryPush/push, and its argument
    cpc,            \* each consumer's position in tryPop
    ctail, cmsg,    \* its currentTail, and its message
    accepted,       \* history: the items published, in order
    delivered       \* history: the items handed to a consumer, in order

ringVars == <<buffer, head, tail, tailSeen, headSeen, dropped, highWaterMark>>
producerVars == <<ppc, pitem>>
consumerVars == <<cpc, ctail, cmsg>>
history == <<accepted, delivered>>
vars == <<ringVars, producerVars, consumerVars, history>>

Slot == 0 .. Capacity - 1

IncrementNoWrap(i) == i + 1

Increment(i) == IF i + 1 = Capacity THEN 0 ELSE i + 1

Init ==
    /\ buffer = [s \in Slot |-> NoItem]
    /\ head = 0 /\ tail = 0
    /\ tailSeen = 0 /\ headSeen = 0
    /\ dropped = 0 /\ highWaterMark = 0
    /\ ppc = "idle" /\ pitem = NoItem
    /\ cpc = [c \in Consumers |-> "idle"]
    /\ ctail = [c \in Consumers |-> 0]
    /\ cmsg = [c \in Consumers |-> NoItem]
    /\ accepted = <<>> /\ delivered = <<>>

-----------------------------------------------------------------------------
(* The producer. *)

FullNever == FALSE
FullOneTooSoon == Increment(Increment(head)) = tailSeen
FullAtEndOfArray == Increment(head) = tailSeen \/ head + 1 = Capacity

\* nextHead == _tail.load(acquire): one slot always stays empty.
Full == Increment(head) = tailSeen

\* tryPush on a full ring counts the item as dropped and returns false.
TryPushFull ==
    /\ ppc = "idle"
    /\ Full
    /\ dropped < MaxDropped
    /\ dropped' = dropped + 1
    /\ UNCHANGED <<buffer, head, tail, tailSeen, headSeen, highWaterMark,
                   producerVars, consumerVars, history>>

\* tryPush finds room and goes on to fill the slot.
TryPushRoom(x) ==
    /\ ppc = "idle"
    /\ ~Full
    /\ Len(accepted) < MaxItems
    /\ ppc' = "write"
    /\ pitem' = x
    /\ UNCHANGED <<ringVars, consumerVars, history>>

\* push is called and enters its spin loop.
Push(x) ==
    /\ ppc = "idle"
    /\ Len(accepted) < MaxItems
    /\ ppc' = "spin"
    /\ pitem' = x
    /\ UNCHANGED <<ringVars, consumerVars, history>>

\* The spin loop finds room.
PushRoom ==
    /\ ppc = "spin"
    /\ ~Full
    /\ ppc' = "write"
    /\ UNCHANGED <<pitem, ringVars, consumerVars, history>>

\* The spin loop finds the ring full and its time over: push returns false and,
\* unlike tryPush, does not count the item as dropped.
PushTimeout ==
    /\ ppc = "spin"
    /\ Full
    /\ ppc' = "idle"
    /\ UNCHANGED <<pitem, ringVars, consumerVars, history>>

WriteNextSlot ==
    /\ ppc = "write"
    /\ buffer' = [buffer EXCEPT ![Increment(head)] = pitem]
    /\ ppc' = "publish"
    /\ UNCHANGED <<head, tail, tailSeen, headSeen, dropped, highWaterMark, pitem,
                   consumerVars, history>>

\* _buffer[currentHead] = item
WriteSlot ==
    /\ ppc = "write"
    /\ buffer' = [buffer EXCEPT ![head] = pitem]
    /\ ppc' = "publish"
    /\ UNCHANGED <<head, tail, tailSeen, headSeen, dropped, highWaterMark, pitem,
                   consumerVars, history>>

\* _head.store(nextHead, release)
PublishHead ==
    /\ ppc = "publish"
    /\ head' = Increment(head)
    /\ accepted' = Append(accepted, pitem)
    /\ ppc' = "mark"
    /\ UNCHANGED <<buffer, tail, tailSeen, headSeen, dropped, highWaterMark, pitem,
                   consumerVars, delivered>>

\* The number of slots from index i to index j, going round the ring.
UsedSlots(i, j) == (j + Capacity - i) % Capacity

\* updateHighWaterMark(nextHead), whose relaxed load of _tail may be stale; then
\* the call returns true.  Only the producer writes the mark, so its
\* compare-exchange loop ends with the larger of the two.
RaiseMark(used) ==
    /\ ppc = "mark"
    /\ highWaterMark' = IF used > highWaterMark THEN used ELSE highWaterMark
    /\ ppc' = "idle"
    /\ UNCHANGED <<buffer, head, tail, tailSeen, headSeen, dropped, pitem,
                   consumerVars, history>>

UpdateHighWaterMarkWithoutNew == RaiseMark(UsedSlots(Increment(tailSeen), head))

UpdateHighWaterMark == RaiseMark(UsedSlots(tailSeen, head))

\* The consumer's latest store to _tail becomes visible to the producer.
TailBecomesVisible ==
    /\ tailSeen # tail
    /\ tailSeen' = tail
    /\ UNCHANGED <<buffer, head, tail, headSeen, dropped, highWaterMark,
                   producerVars, consumerVars, history>>

-----------------------------------------------------------------------------
(* A consumer. *)

EmptyOneTooSoon(t, h) == t = h \/ Increment(t) = h

\* currentTail == _head.load(acquire), where the loads have returned t and h
Empty(t, h) == t = h

\* tryPop whose loads return t and h: an empty ring makes it return false.
PopNothing(c, t, h) ==
    /\ cpc[c] = "idle"
    /\ Empty(t, h)
    /\ UNCHANGED vars

PopItem(c, t, h) ==
    /\ cpc[c] = "idle"
    /\ ~Empty(t, h)
    /\ cpc' = [cpc EXCEPT ![c] = "read"]
    /\ ctail' = [ctail EXCEPT ![c] = t]
    /\ UNCHANGED <<cmsg, ringVars, producerVars, history>>

\* tryPop of the only consumer.
TryPopEmpty(c) == PopNothing(c, tail, headSeen)

TryPop(c) == PopItem(c, tail, headSeen)

\* item = _buffer[currentTail]
ReadSlot(c) ==
    /\ cpc[c] = "read"
    /\ cmsg' = [cmsg EXCEPT ![c] = buffer[ctail[c]]]
    /\ cpc' = [cpc EXCEPT ![c] = "release"]
    /\ UNCHANGED <<ctail, ringVars, producerVars, history>>

StoreTail(c, i) ==
    /\ cpc[c] = "release"
    /\ tail' = i
    /\ delivered' = Append(delivered, cmsg[c])
    /\ cpc' = [cpc EXCEPT ![c] = "idle"]
    /\ UNCHANGED <<buffer, head, tailSeen, headSeen, dropped, highWaterMark,
                   ctail, cmsg, producerVars, accepted>>

ReleaseSlotLost(c) == StoreTail(c, ctail[c])

\* _tail.store(increment(currentTail), release), and tryPop returns true.
ReleaseSlot(c) == StoreTail(c, Increment(ctail[c]))

\* The producer's latest store to _head becomes visible to the consumer.
HeadBecomesVisible ==
    /\ headSeen # head
    /\ headSeen' = head
    /\ UNCHANGED <<buffer, head, tail, tailSeen, dropped, highWaterMark,
                   producerVars, consumerVars, history>>

-----------------------------------------------------------------------------
Call == TryPushFull \/ \E x \in Item : TryPushRoom(x) \/ Push(x)

FinishPush == PushRoom \/ WriteSlot \/ PublishHead \/ UpdateHighWaterMark

Pop(c) == TryPop(c) \/ ReadSlot(c) \/ ReleaseSlot(c)

Next ==
    \/ Call
    \/ FinishPush
    \/ PushTimeout
    \/ TailBecomesVisible
    \/ HeadBecomesVisible
    \/ \E c \in Consumers : Pop(c) \/ TryPopEmpty(c)

Spec == Init /\ [][Next]_vars

\* A thread inside a call keeps running, the consumer keeps polling (the loop of
\* SpScRingBufferConsumer::consumeLoop), and a store to an atomic becomes visible
\* in finite time.  Nothing is assumed of the producer's calls or of its clock.
Fairness ==
    /\ WF_vars(FinishPush)
    /\ WF_vars(TailBecomesVisible)
    /\ WF_vars(HeadBecomesVisible)
    /\ \A c \in Consumers : WF_vars(Pop(c))

FairSpec == Spec /\ Fairness

-----------------------------------------------------------------------------
(* Properties. *)

\* The slots from index i up to index j, going round the ring.
Distance(i, j) == IF i <= j THEN j - i ELSE j + Capacity - i

\* Slot i, counted past the end of the array, going round.
Wrap(i) == IF i < Capacity THEN i ELSE i - Capacity

\* Every index stays within the array, every position is one the code can be at,
\* and no uninitialised slot's content is ever delivered.
TypeOK ==
    /\ buffer \in [Slot -> Item \cup {NoItem}]
    /\ head \in Slot /\ tail \in Slot
    /\ tailSeen \in Slot /\ headSeen \in Slot
    /\ dropped \in Nat /\ highWaterMark \in Nat
    /\ ppc \in {"idle", "spin", "write", "publish", "mark"}
    /\ pitem \in Item \cup {NoItem}
    /\ ppc # "idle" => pitem \in Item
    /\ cpc \in [Consumers -> {"idle", "read", "release"}]
    /\ ctail \in [Consumers -> Slot]
    /\ cmsg \in [Consumers -> Item \cup {NoItem}]
    /\ accepted \in Seq(Item)
    /\ delivered \in Seq(Item)

\* The two threads never access the same slot at once, whatever stale index each
\* has read: tryPush's plain store to _buffer[currentHead] does not race with
\* tryPop's plain load of _buffer[currentTail].
NoSlotRace ==
    \A c \in Consumers : ~(ppc = "write" /\ cpc[c] = "read" /\ head = ctail[c])

\* The slots from _tail to _head hold the accepted and not yet delivered items, in
\* order: nothing queued is overwritten, lost or duplicated by the wrap-around.
QueuedItemsIntact ==
    /\ Len(accepted) - Len(delivered) = Distance(tail, head)
    /\ \A k \in 0 .. Distance(tail, head) - 1 :
          buffer[Wrap(tail + k)] = accepted[Len(delivered) + k + 1]

\* _highWaterMark never exceeds the usable capacity, and between two pushes it is
\* at least the number of items in the ring, although it is computed from a _tail
\* that may be stale and after _head was published.
HighWaterMarkSound ==
    /\ highWaterMark < Capacity
    /\ ppc # "mark" => Distance(tail, head) <= highWaterMark

\* tryPush refuses an item only when the ring holds Capacity - 1 items, those
\* counted that the consumer has taken without the producer seeing it yet.
DropsOnlyWhenFull ==
    [][dropped' # dropped =>
         Len(accepted) - Len(delivered) + Distance(tailSeen, tail) = Capacity - 1]_vars

Fifo == INSTANCE BoundedFifo WITH Limit <- Capacity - 1

\* The ring implements a first-in first-out queue of Capacity - 1 places: push
\* takes effect when _head is stored and tryPop when _tail is stored.
ImplementsFifo == Fifo!Spec

\* Every accepted item is delivered, because the consumer polls and stores become
\* visible.
EveryItemDelivered ==
    \A n \in 1 .. MaxItems : Len(accepted) >= n ~> Len(delivered) >= n

\* A push that spins on a full ring gets out of its loop, even if its time never
\* runs out: the consumer makes room and the producer comes to see it.
PushUnblocks == ppc = "spin" ~> ppc # "spin"
=============================================================================
