----------------------- MODULE SpScRingBufferConsumer -----------------------
(***************************************************************************)
(* The threaded consumer of libs/common/SpScRingBuffer and the PinnedThread*)
(* it runs on (libs/concurrency/PinnedThread.h), around the ring of        *)
(* SpScRingBuffer.                                                         *)
(*                                                                         *)
(* The owner of the consumer calls start, stop and finally the destructor. *)
(* start builds the new PinnedThread first and only then, by assigning it  *)
(* to _pinnedThread, destroys the previous one, whose destructor asks its  *)
(* thread to stop and joins it.  stop only asks.  Each thread runs         *)
(* consumeLoop: it looks at its own stop flag, pops, and hands what it     *)
(* popped to the callback.                                                 *)
(*                                                                         *)
(* Consumers is here the set of threads the owner can create, one per call *)
(* of start.  The stop flag is stored and loaded relaxed: a thread sees it *)
(* some time after it was set.                                             *)
(*                                                                         *)
(* Memory order.  tryPop loads _tail relaxed, because it takes it for the  *)
(* caller's own.  A thread that start has made is not ordered after the    *)
(* stores of the previous thread, which is joined only later: its loads of *)
(* _tail and of _head may be as old as what the owner has joined, though   *)
(* never older than its own earlier ones, and catch up in finite time.  A  *)
(* place in an index's order of stores is the number of stores before it.  *)
(***************************************************************************)
EXTENDS SpScRingBuffer, SequencesExt

CONSTANTS
    NoThread,
    MaxPops       \* bound: items popped, of which two threads can pop one twice

ASSUME NoThreadAssumption == NoThread \notin Consumers
ASSUME PopsAssumption == MaxPops \in Nat /\ MaxPops >= MaxItems

VARIABLES
    thread,     \* each thread: "new", "looping", "callback" or "done"
    stopFlag,   \* PinnedThread::_stopFlag of each thread
    stopSeen,   \* what the thread's next stopRequested() returns
    current,    \* the thread of *_pinnedThread, or NoThread
    joining,    \* the thread that a PinnedThread destructor waits for, or NoThread
    owner,      \* the owner of the consumer: "active" or "destroyed"
    tails,      \* the values stored to _tail, in the order of the stores
    shown,      \* the stores to _head that the newest load of a thread can return
    view,       \* the place of each thread's next loads of _tail and _head
    known,      \* the oldest places that the loads of a thread made now may have
    handled,    \* history: the items given to the callback, in order
    tooSoon     \* history: a thread was started while another ran, or with loads
                \* too old to see where the last one stopped

lifecycle == <<thread, stopFlag, stopSeen, current, joining, owner, handled, tooSoon>>

memory == <<tails, shown, view, known>>

allVars == <<vars, memory, lifecycle>>

ConsumerInit ==
    /\ Init
    /\ thread = [c \in Consumers |-> "new"]
    /\ stopFlag = [c \in Consumers |-> FALSE]
    /\ stopSeen = [c \in Consumers |-> FALSE]
    /\ current = NoThread /\ joining = NoThread
    /\ owner = "active"
    /\ tails = <<>> /\ shown = 0
    /\ view = [c \in Consumers |-> [tail |-> 0, head |-> 0]]
    /\ known = [tail |-> 0, head |-> 0]
    /\ handled = <<>>
    /\ tooSoon = FALSE

Running(c) == thread[c] \in {"looping", "callback"}

-----------------------------------------------------------------------------
(* The owner. *)

\* The owner is between two calls.
Ready == owner = "active" /\ joining = NoThread

\* PinnedThread::requestStop on the thread t, if there is one.
RequestStop(t) == stopFlag' = [c \in Consumers |-> stopFlag[c] \/ c = t]

RequestStopNobody(t) == UNCHANGED stopFlag

\* ~PinnedThread of the thread t: ask it to stop and start to wait for it.
DestroyThreadWithoutStop(t) == RequestStopNobody(t) /\ joining' = t

DestroyThreadWithoutJoin(t) == RequestStop(t) /\ UNCHANGED joining

DestroyThread(t) == RequestStop(t) /\ joining' = t

\* The constructor of PinnedThread: the thread c runs its worker.
Launch(c) ==
    /\ thread[c] = "new"
    /\ thread' = [thread EXCEPT ![c] = "looping"]

FirstLoadsAtZero(c) ==
    \E h \in known.head .. shown :
        /\ view' = [view EXCEPT ![c] = [tail |-> 0, head |-> h]]
        /\ tooSoon' = (tooSoon \/ h < Len(tails) \/ \E d \in Consumers : Running(d))

\* The first loads of the thread c return values between what the owner knows of and
\* the newest.
FirstLoads(c) ==
    \E t \in known.tail .. Len(tails), h \in known.head .. shown :
        /\ view' = [view EXCEPT ![c] = [tail |-> t, head |-> h]]
        /\ tooSoon' = (tooSoon \/ t < Len(tails) \/ h < Len(tails) \/ \E d \in Consumers : Running(d))

\* start: the new thread runs before the previous one is asked to stop.
Start(c) ==
    /\ Ready
    /\ Launch(c)
    /\ FirstLoads(c)
    /\ current' = c
    /\ DestroyThread(current)
    /\ UNCHANGED <<vars, tails, shown, known, stopSeen, owner, handled>>

\* stop
Stop ==
    /\ Ready
    /\ current # NoThread
    /\ RequestStop(current)
    /\ UNCHANGED <<vars, memory, thread, stopSeen, current, joining, owner, handled, tooSoon>>

\* The destructor of the consumer destroys *_pinnedThread.
Destroy ==
    /\ Ready
    /\ DestroyThread(current)
    /\ current' = NoThread
    /\ owner' = "destroyed"
    /\ UNCHANGED <<vars, memory, thread, stopSeen, handled, tooSoon>>

Later(m, n) == IF m > n THEN m ELSE n

\* _thread.join() returns: what its thread has read and stored comes before whatever
\* the owner does next.
Joined ==
    /\ joining # NoThread
    /\ thread[joining] = "done"
    /\ joining' = NoThread
    /\ known' = [tail |-> Later(known.tail, view[joining].tail),
                 head |-> Later(known.head, view[joining].head)]
    /\ UNCHANGED <<vars, tails, shown, view,
                   thread, stopFlag, stopSeen, current, owner, handled, tooSoon>>

-----------------------------------------------------------------------------
(* What the loads of a thread return. *)

LoadedTail(c) == IF view[c].tail = 0 THEN 0 ELSE tails[view[c].tail]

\* The producer goes round the slots.
LoadedHead(c) == view[c].head % Capacity

\* The latest store to _head becomes visible to some thread ...
HeadShown == HeadBecomesVisible /\ shown' = Len(accepted) /\ UNCHANGED <<tails, view, known>>

\* ... and this or an older one to the thread c,
HeadReaches(c) ==
    /\ Running(c)
    /\ \E n \in view[c].head + 1 .. shown : view' = [view EXCEPT ![c].head = n]
    /\ UNCHANGED <<vars, tails, shown, known, lifecycle>>

\* and so for another thread's stores to _tail.
TailReaches(c) ==
    /\ Running(c)
    /\ \E n \in view[c].tail + 1 .. Len(tails) : view' = [view EXCEPT ![c].tail = n]
    /\ UNCHANGED <<vars, tails, shown, known, lifecycle>>

-----------------------------------------------------------------------------
(* A thread, in consumeLoop. *)

StopBecomesVisible(c) ==
    /\ stopFlag[c] # stopSeen[c]
    /\ stopSeen' = [stopSeen EXCEPT ![c] = stopFlag[c]]
    /\ UNCHANGED <<vars, memory, thread, stopFlag, current, joining, owner, handled, tooSoon>>

StopRequestedByAny(c) == \E d \in Consumers : stopSeen[d]

\* token.stopRequested()
StopRequested(c) == stopSeen[c]

\* The loop's condition fails and the thread ends.
LeaveLoop(c) ==
    /\ thread[c] = "looping" /\ cpc[c] = "idle"
    /\ StopRequested(c)
    /\ thread' = [thread EXCEPT ![c] = "done"]
    /\ UNCHANGED <<vars, memory, stopFlag, stopSeen, current, joining, owner, handled, tooSoon>>

\* tryPop, begun after the loop's condition; an empty ring makes the loop go round.
PopInLoop(c) ==
    /\ thread[c] = "looping"
    /\ \/ /\ ~StopRequested(c)
          /\ \/ Len(delivered) < MaxPops /\ PopItem(c, LoadedTail(c), LoadedHead(c))
             \/ PopNothing(c, LoadedTail(c), LoadedHead(c))
       \/ ReadSlot(c)
    /\ UNCHANGED <<memory, lifecycle>>

\* tryPop returns true.
PoppedInLoop(c) ==
    /\ thread[c] = "looping"
    /\ ReleaseSlot(c)
    /\ tails' = Append(tails, tail')
    /\ view' = [view EXCEPT ![c].tail = Len(tails) + 1]
    /\ thread' = [thread EXCEPT ![c] = "callback"]
    /\ UNCHANGED <<shown, known, stopFlag, stopSeen, current, joining, owner, handled, tooSoon>>

\* _callback(_message)
Callback(c) ==
    /\ thread[c] = "callback"
    /\ thread' = [thread EXCEPT ![c] = "looping"]
    /\ handled' = Append(handled, cmsg[c])
    /\ UNCHANGED <<vars, memory, stopFlag, stopSeen, current, joining, owner, tooSoon>>

-----------------------------------------------------------------------------
ThreadStep(c) == PopInLoop(c) \/ PoppedInLoop(c) \/ Callback(c) \/ LeaveLoop(c)

Producer == Call \/ FinishPush \/ PushTimeout

Visibility(c) == StopBecomesVisible(c) \/ HeadReaches(c) \/ TailReaches(c)

ConsumerNext ==
    \/ (Producer \/ TailBecomesVisible) /\ UNCHANGED <<memory, lifecycle>>
    \/ HeadShown /\ UNCHANGED lifecycle
    \/ Stop \/ Destroy \/ Joined
    \/ \E c \in Consumers : Start(c) \/ Visibility(c) \/ ThreadStep(c)

ConsumerSpec == ConsumerInit /\ [][ConsumerNext]_allVars

\* Threads keep running, stores become visible and a join whose thread has ended
\* returns.  Nothing is assumed of the producer's calls or of the owner's.
FairConsumerSpec ==
    /\ ConsumerSpec
    /\ WF_allVars(FinishPush /\ UNCHANGED <<memory, lifecycle>>)
    /\ WF_allVars(TailBecomesVisible /\ UNCHANGED <<memory, lifecycle>>)
    /\ WF_allVars(HeadShown /\ UNCHANGED lifecycle)
    /\ WF_allVars(Joined)
    /\ \A c \in Consumers :
          /\ WF_allVars(StopBecomesVisible(c))
          /\ WF_allVars(HeadReaches(c))
          /\ WF_allVars(TailReaches(c))
          /\ WF_allVars(ThreadStep(c))

-----------------------------------------------------------------------------
(* Properties. *)

\* The callback gets every accepted item once and in order.  It does not hold when
\* start is called again while the previous thread still runs, or so soon after it
\* has ended that the new thread does not see where it stopped.
HandledInOrder == IsPrefix(handled, accepted)

\* As long as no start comes too soon, the callback gets the accepted items once each
\* and in order, across any number of stops and restarts: a stop between tryPop and
\* the callback loses nothing, and the next thread goes on where the last one left
\* off, with the items left in the ring, although it may know of fewer of them.
RestartKeepsOrder ==
    ~tooSoon =>
        /\ IsPrefix(handled, accepted)
        /\ (\A c \in Consumers : ~Running(c)) => handled = delivered

\* Once the destructor of the consumer has returned no thread touches it any more,
\* however often it was restarted: each PinnedThread was joined before it was lost.
QuietAfterDestruction ==
    owner = "destroyed" /\ joining = NoThread => \A c \in Consumers : ~Running(c)

\* The owner never waits for ever in start or in the destructor: the thread it joins
\* sees its stop flag and leaves its loop, however busy the ring is.
JoinReturns == joining # NoThread ~> joining = NoThread

\* A thread that nobody asks to stop handles every accepted item, also one that was
\* accepted before it was started, by the first start or by a later one: what was asked
\* of the threads before it does not stop it.
HandledUnlessStopped ==
    \A c \in Consumers, n \in 1 .. MaxItems :
        Len(accepted) >= n /\ current = c /\ ~tooSoon ~> Len(handled) >= n \/ stopFlag[c]
=============================================================================
