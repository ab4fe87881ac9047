------------------------ MODULE ServiceThreadProofs ------------------------
(***************************************************************************)
(* Theorems about ServiceThread, for any number of threads: the classes    *)
(* with a loop of their own never lose a thread or a descriptor, leave     *)
(* nothing running behind stop() and the destructor, and can be restarted. *)
(***************************************************************************)
EXTENDS ServiceThread, TLAPS

Places ==
    {"none", "check", "recv", "callback", "sleep", "socket", "bind", "listen", "accept",
     "close", "ended"}

\* The shapes of the variables.
Shape ==
    /\ kind \in Kinds
    /\ tried \in Nat /\ ctor \in Nat
    /\ running \in BOOLEAN
    /\ member \in Thread \cup {NoThread}
    /\ threads \subseteq Thread
    /\ pc \in [Thread -> Places]

\* The threads that exist are the member and those in the vector.
Held ==
    /\ \A t \in Thread : pc[t] # "none" <=> t \in threads \/ t = member
    /\ member \notin threads

\* Before the first start, and when stop or the destructor has returned, the object
\* holds no thread.
NoneHeld ==
    owner \in {"building", "failed", "stopped", "gone"} => member = NoThread /\ threads = {}

\* _running is what TcpHeartbeat::start takes it for.
HeartbeatFlag == kind = "heartbeat" /\ owner = "started" => running

\* A server owns no socket object; each of its threads has one descriptor open, from
\* the moment it has a socket until it closes it.
ServerDescriptors ==
    kind = "server" =>
        /\ built = {}
        /\ fds = {t \in Thread : pc[t] \notin {"none", "socket", "ended"}}

\* The other objects have the descriptors of their sockets, and of the one under
\* construction.
SocketDescriptors ==
    kind # "server" =>
        /\ owner = "building" => fds = built \cup (IF ctor = 0 THEN {} ELSE {Socket})
        /\ owner = "building" /\ kind = "manager" =>
              (tried = 0 => built = {}) /\ (tried = 1 => "client2" \notin built)
        /\ owner = "building" /\ ~(tried < Len(Sockets)) => ctor = 0
        /\ owner = "failed" => fds = {} \/ kind = "udpPipeline"
        /\ owner = "gone" => fds = {}
        /\ owner \notin {"building", "failed", "gone"} => fds = built

\* The inductive invariant.
IInv ==
    /\ Shape /\ Held /\ NoneHeld /\ HeartbeatFlag
    /\ ServerDescriptors /\ SocketDescriptors

-----------------------------------------------------------------------------
\* The invariant holds when the object's construction begins.
LEMMA InitIInv == Init => IInv
<1>1. SUFFICES ASSUME Init PROVE IInv
  OBVIOUS
<1>2. Shape
  BY <1>1 DEF Init, Shape, Places
<1>3. Held /\ NoneHeld /\ HeartbeatFlag
  BY <1>1, ThreadAssumption DEF Init, Held, NoneHeld, HeartbeatFlag
<1>4. ServerDescriptors
  BY <1>1 DEF Init, ServerDescriptors
<1>5. SocketDescriptors
  BY <1>1 DEF Init, SocketDescriptors
<1>6. QED
  BY <1>2, <1>3, <1>4, <1>5 DEF IInv

\* The constructors of the sockets keep the invariant: TcpClient's closes its
\* socket before it throws.
LEMMA ConstructionIInv ==
  ASSUME IInv, CtorStep \/ AddConnectionThrows \/ CtorThrows \/ Built
  PROVE  IInv'
<1>1. /\ owner = "building" /\ tried \in Nat /\ ctor \in Nat
      /\ UNCHANGED <<kind, running, member, threads, pc>>
  BY DEF IInv, Shape, CtorStep, AddConnectionThrows, CtorThrows, Built, control, construction
<1>2. owner' \in {"building", "failed", "stopped"}
  BY <1>1 DEF CtorStep, AddConnectionThrows, CtorThrows, Built, control
<1>3. tried' \in Nat /\ ctor' \in Nat
  BY <1>1 DEF CtorStep, AddConnectionThrows, CtorThrows, Built, construction
<1>4. (Shape /\ Held /\ NoneHeld /\ HeartbeatFlag)'
  BY <1>1, <1>2, <1>3 DEF IInv, Shape, Held, NoneHeld, HeartbeatFlag
<1>5. kind = "server" => Built
  BY <1>1 DEF CtorStep, AddConnectionThrows, CtorThrows, Sockets
<1>6. ServerDescriptors'
  BY <1>1, <1>5 DEF IInv, ServerDescriptors, Built, construction
<1>7. SocketDescriptors'
  <2>0. SUFFICES ASSUME kind # "server" PROVE SocketDescriptors'
    BY <1>1 DEF SocketDescriptors
  <2>1. CASE CtorStep
    <3>1. owner' = "building"
      BY <1>1, <2>1 DEF CtorStep, control
    <3>2. fds' = built' \cup (IF ctor' = 0 THEN {} ELSE {Socket'})
      <4>1. CASE ctor + 1 = Len(CtorOf(Socket))
        BY <1>1, <2>0, <2>1, <4>1 DEF CtorStep, IInv, SocketDescriptors
      <4>2. CASE ctor + 1 # Len(CtorOf(Socket))
        <5>1. ctor' # 0 /\ Socket' = Socket /\ built' = built
          BY <1>1, <2>1, <4>2 DEF CtorStep, Socket, Sockets
        <5>2. QED
          BY <1>1, <2>0, <2>1, <5>1 DEF CtorStep, IInv, SocketDescriptors
      <4>3. QED
        BY <4>1, <4>2
    <3>3. kind = "manager" =>
             (tried' = 0 => built' = {}) /\ (tried' = 1 => "client2" \notin built')
      <4>1. kind = "manager" => (tried = 0 /\ Socket = "client") \/ tried = 1
        BY <1>1, <2>1 DEF CtorStep, Socket, Sockets
      <4>2. QED
        BY <1>1, <2>0, <2>1, <4>1 DEF CtorStep, IInv, SocketDescriptors
    <3>4. ~(tried' < Len(Sockets')) => ctor' = 0
      BY <1>1, <2>1 DEF CtorStep, Sockets
    <3>5. QED
      BY <1>1, <3>1, <3>2, <3>3, <3>4 DEF SocketDescriptors
  <2>2. CASE AddConnectionThrows
    <3>1. /\ owner' = "building" /\ kind = "manager"
          /\ built' = built /\ ctor' = 0 /\ tried' = tried + 1
      BY <1>1, <2>2 DEF AddConnectionThrows, control
    <3>2. (tried = 0 /\ Socket = "client") \/ (tried = 1 /\ Socket = "client2")
      BY <1>1, <2>2 DEF AddConnectionThrows, Socket, Sockets
    <3>3. ClosedByThrow(Socket) = {Socket}
      BY <3>2 DEF ClosedByThrow, CtorOf
    <3>4. Socket \notin built /\ fds = built \cup (IF ctor = 0 THEN {} ELSE {Socket})
      BY <1>1, <3>1, <3>2 DEF IInv, SocketDescriptors
    <3>5. fds' = built'
      BY <2>2, <3>1, <3>3, <3>4 DEF AddConnectionThrows
    <3>6. (tried' = 0 => built' = {}) /\ (tried' = 1 => "client2" \notin built')
      BY <1>1, <3>1, <3>2 DEF IInv, SocketDescriptors
    <3>7. QED
      BY <1>1, <3>1, <3>5, <3>6 DEF SocketDescriptors
  <2>3. CASE CtorThrows
    <3>1. owner' = "failed" /\ fds' = (fds \ ClosedByThrow(Socket)) \ built
      BY <2>3 DEF CtorThrows
    <3>2. kind \in {"tcpPipeline", "udpPipeline"}
      BY <1>1, <2>0, <2>3, KindsAssumption DEF CtorThrows, Sockets, IInv, Shape
    <3>3. kind = "tcpPipeline" => Socket = "client"
      BY <1>1, <2>3 DEF CtorThrows, Socket, Sockets
    <3>4. kind = "tcpPipeline" => ClosedByThrow(Socket) = {Socket}
      BY <3>3 DEF ClosedByThrow, CtorOf
    <3>5. kind = "tcpPipeline" => fds' = {}
      BY <1>1, <2>0, <3>1, <3>4 DEF IInv, SocketDescriptors
    <3>6. QED
      BY <1>1, <3>1, <3>2, <3>5 DEF SocketDescriptors
  <2>4. CASE Built
    <3>1. ctor = 0
      BY <1>1, <2>0, <2>4 DEF Built, Sockets, IInv, SocketDescriptors
    <3>2. QED
      BY <1>1, <2>0, <2>4, <3>1 DEF Built, construction, IInv, SocketDescriptors
  <2>5. QED
    BY <2>1, <2>2, <2>3, <2>4
<1>8. QED
  BY <1>4, <1>6, <1>7 DEF IInv

\* start keeps the invariant: it puts the new thread where stop will look for it.
LEMMA StartThreadIInv ==
  ASSUME IInv, NEW t \in Thread, NEW first \in Places \ {"none"}, StartThread(t, first),
         kind = "server" => first = "socket"
  PROVE  IInv'
<1>1. /\ Idle /\ running' = TRUE /\ pc[t] = "none"
      /\ UNCHANGED <<kind, tried, ctor, built, fds, threads>>
  BY DEF StartThread, construction
<1>2. CASE member = NoThread
  <2>1. member' = t /\ owner' = "started" /\ pc' = [pc EXCEPT ![t] = first]
    BY <1>2 DEF StartThread
  <2>2. Shape'
    BY <1>1, <2>1 DEF IInv, Shape
  <2>3. (Held /\ NoneHeld /\ HeartbeatFlag)'
    BY <1>1, <1>2, <2>1, ThreadAssumption DEF IInv, Shape, Held, NoneHeld, HeartbeatFlag
  <2>4. ServerDescriptors'
    BY <1>1, <2>1 DEF IInv, Shape, ServerDescriptors
  <2>5. SocketDescriptors'
    BY <1>1, <2>1 DEF IInv, SocketDescriptors, Idle
  <2>6. QED
    BY <2>2, <2>3, <2>4, <2>5 DEF IInv
<1>3. CASE member # NoThread
  <2>1. owner' = "terminated" /\ UNCHANGED <<member, pc>>
    BY <1>3 DEF StartThread
  <2>2. (Shape /\ Held /\ NoneHeld /\ HeartbeatFlag /\ ServerDescriptors)'
    BY <1>1, <2>1 DEF IInv, Shape, Held, NoneHeld, HeartbeatFlag, ServerDescriptors
  <2>3. SocketDescriptors'
    BY <1>1, <2>1 DEF IInv, SocketDescriptors, Idle
  <2>4. QED
    BY <2>2, <2>3 DEF IInv
<1>4. QED
  BY <1>2, <1>3

\* So does the start of any of the classes.
LEMMA StartIInv ==
  ASSUME IInv, Start
  PROVE  IInv'
<1>1. CASE \E t \in Thread : \/ TcpPipelineStart(t) \/ UdpPipelineStart(t) \/ InjectorStart(t)
                             \/ HeartbeatStart(t)
  <2>1. PICK t \in Thread : kind # "server" /\ StartThread(t, "check")
    BY <1>1 DEF TcpPipelineStart, UdpPipelineStart, InjectorStart, HeartbeatStart
  <2>2. QED
    BY <2>1, StartThreadIInv DEF Places
<1>2. CASE \E t \in Thread : ServerStart(t)
  <2>1. PICK t \in Thread : StartThread(t, "socket")
    BY <1>2 DEF ServerStart
  <2>2. QED
    BY <2>1, StartThreadIInv DEF Places
<1>3. CASE \E T \in SUBSET Thread : StartAll(T)
  <2>1. PICK T \in SUBSET Thread : StartAll(T)
    BY <1>3
  <2>2. /\ kind = "manager" /\ Idle /\ running' = TRUE /\ owner' = "started"
        /\ \A t \in T : pc[t] = "none"
        /\ threads' = threads \cup T
        /\ pc' = [t \in Thread |-> IF t \in T THEN "check" ELSE pc[t]]
        /\ UNCHANGED <<kind, tried, ctor, built, fds, member>>
    BY <2>1 DEF StartAll, construction
  <2>3. Shape'
    BY <2>2 DEF IInv, Shape, Places
  <2>4. member \notin T
    BY <2>2, ThreadAssumption DEF IInv, Shape, Held
  <2>5. (Held /\ NoneHeld /\ HeartbeatFlag)'
    BY <2>2, <2>4 DEF IInv, Shape, Held, NoneHeld, HeartbeatFlag
  <2>6. (ServerDescriptors /\ SocketDescriptors)'
    BY <2>2 DEF IInv, ServerDescriptors, SocketDescriptors, Idle
  <2>7. QED
    BY <2>3, <2>5, <2>6 DEF IInv
<1>4. QED
  BY <1>1, <1>2, <1>3 DEF Start

\* stop, the joins and the return of stop and of the destructor keep the invariant:
\* stop returns only when the object holds no thread.
LEMMA StopIInv ==
  ASSUME IInv, Stop \/ Destroy \/ Join
  PROVE  IInv'
<1>1. CASE Stop \/ Destroy
  <2>1. /\ Idle /\ running' = FALSE /\ owner' \in {"joining", "destroying"}
        /\ UNCHANGED <<kind, tried, ctor, built, fds, member, threads, pc>>
    BY <1>1 DEF Stop, Destroy, construction
  <2>2. (Shape /\ Held /\ NoneHeld /\ HeartbeatFlag /\ ServerDescriptors)'
    BY <2>1 DEF IInv, Shape, Held, NoneHeld, HeartbeatFlag, ServerDescriptors
  <2>3. SocketDescriptors'
    BY <2>1 DEF IInv, SocketDescriptors, Idle
  <2>4. QED
    BY <2>2, <2>3 DEF IInv
<1>2. CASE JoinMember \/ \E t \in Thread : JoinInVector(t)
  <2>1. PICK t \in Thread :
          /\ Waiting /\ pc[t] = "ended"
          /\ pc' = [pc EXCEPT ![t] = "none"]
          /\ UNCHANGED <<kind, tried, ctor, built, fds, owner, running>>
          /\ \/ t = member /\ member' = NoThread /\ threads' = threads
             \/ t \in threads /\ member' = member /\ threads' = threads \ {t}
    BY <1>2 DEF JoinMember, JoinInVector, construction, IInv, Shape
  <2>2. Shape'
    BY <2>1 DEF IInv, Shape, Places
  <2>3. (Held /\ NoneHeld /\ HeartbeatFlag)'
    BY <2>1, ThreadAssumption DEF IInv, Shape, Held, NoneHeld, HeartbeatFlag, Waiting
  <2>4. ServerDescriptors'
    BY <2>1 DEF IInv, Shape, ServerDescriptors
  <2>5. SocketDescriptors'
    BY <2>1 DEF IInv, SocketDescriptors, Waiting
  <2>6. QED
    BY <2>2, <2>3, <2>4, <2>5 DEF IInv
<1>3. CASE StopReturns
  <2>1. /\ Waiting /\ member = NoThread /\ threads = {}
        /\ UNCHANGED <<kind, tried, ctor, running, member, threads, pc>>
    BY <1>3 DEF StopReturns, AllJoined
  <2>2. \/ owner' = "stopped" /\ UNCHANGED <<built, fds>>
        \/ owner' = "gone" /\ built' = {} /\ fds' = fds \ built
    BY <1>3 DEF StopReturns
  <2>3. (Shape /\ Held /\ NoneHeld /\ HeartbeatFlag)'
    BY <2>1, <2>2 DEF IInv, Shape, Held, NoneHeld, HeartbeatFlag
  <2>4. ServerDescriptors'
    BY <2>1, <2>2 DEF IInv, ServerDescriptors
  <2>5. SocketDescriptors'
    BY <2>1, <2>2 DEF IInv, SocketDescriptors, Waiting
  <2>6. QED
    BY <2>3, <2>4, <2>5 DEF IInv
<1>4. QED
  BY <1>1, <1>2, <1>3 DEF Join

\* A step of a thread that exists, to another place of its loop.
Moves(t) ==
    /\ pc[t] # "none"
    /\ \E place \in Places \ {"none"} : pc' = [pc EXCEPT ![t] = place]
    /\ UNCHANGED <<kind, tried, ctor, built, owner, running, member, threads>>

\* Such a step keeps what the invariant says of the threads.
LEMMA MovesHeld ==
  ASSUME IInv, NEW t \in Thread, Moves(t)
  PROVE  (Shape /\ Held /\ NoneHeld /\ HeartbeatFlag)'
<1>1. PICK place \in Places \ {"none"} : pc' = [pc EXCEPT ![t] = place]
  BY DEF Moves
<1>2. pc[t] # "none" /\ UNCHANGED <<kind, tried, ctor, owner, running, member, threads>>
  BY DEF Moves
<1>3. Shape'
  BY <1>1, <1>2 DEF IInv, Shape
<1>4. (Held /\ NoneHeld /\ HeartbeatFlag)'
  BY <1>1, <1>2 DEF IInv, Shape, Held, NoneHeld, HeartbeatFlag
<1>5. QED
  BY <1>3, <1>4

\* A thread of a class other than the server keeps the invariant: it opens and closes
\* nothing.
LEMMA LoopIInv ==
  ASSUME IInv, NEW t \in Thread,
         TcpReadLoop(t) \/ UdpReadLoop(t) \/ ManagerLoop(t) \/ HeartbeatLoop(t) \/ InjectLoop(t)
  PROVE  IInv'
<1>1. kind # "server" /\ Moves(t) /\ fds' = fds
  BY DEF TcpReadLoop, UdpReadLoop, ManagerLoop, HeartbeatLoop, InjectLoop, While, Recv,
         Callback, Sleep, Goto, Moves, Places, construction, control
<1>2. (Shape /\ Held /\ NoneHeld /\ HeartbeatFlag)'
  BY <1>1, MovesHeld
<1>3. (ServerDescriptors /\ SocketDescriptors)'
  BY <1>1 DEF IInv, Moves, ServerDescriptors, SocketDescriptors, Socket, Sockets
<1>4. QED
  BY <1>2, <1>3 DEF IInv

\* The threads of the server keep the invariant: a new client's thread is in the
\* vector, and a thread that ends has closed its descriptor.
LEMMA ServerIInv ==
  ASSUME IInv, NEW t \in Thread, ListenLoop(t) \/ ClientLoop(t)
  PROVE  IInv'
<1> DEFINE Open(p) == p \notin {"none", "socket", "ended"}
<1>1. kind = "server"
  BY DEF ListenLoop, ClientLoop
<1>2. CASE \E u \in Thread : AcceptClient(t, u)
  <2>1. PICK u \in Thread : AcceptClient(t, u)
    BY <1>2
  <2>2. /\ pc[t] = "accept" /\ pc[u] = "none"
        /\ pc' = [pc EXCEPT ![t] = "listen", ![u] = "check"]
        /\ threads' = threads \cup {u} /\ fds' = fds \cup {u}
        /\ UNCHANGED <<kind, tried, ctor, built, owner, running, member>>
    BY <2>1 DEF AcceptClient, construction
  <2>3. Shape'
    BY <2>2 DEF IInv, Shape, Places
  <2>4. (Held /\ NoneHeld /\ HeartbeatFlag)'
    BY <2>2, ThreadAssumption DEF IInv, Shape, Held, NoneHeld, HeartbeatFlag
  <2>5. (ServerDescriptors /\ SocketDescriptors)'
    BY <1>1, <2>2 DEF IInv, Shape, ServerDescriptors, SocketDescriptors
  <2>6. QED
    BY <2>3, <2>4, <2>5 DEF IInv
<1>3. CASE ~\E u \in Thread : AcceptClient(t, u)
  <2>1. PICK place \in Places \ {"none"} :
          /\ pc[t] # "none" /\ pc' = [pc EXCEPT ![t] = place]
          /\ UNCHANGED <<kind, tried, ctor, built, owner, running, member, threads>>
          /\ \/ fds' = fds /\ (Open(pc[t]) <=> Open(place))
             \/ fds' = fds \cup {t} /\ Open(place)
             \/ fds' = fds \ {t} /\ ~Open(place)
    BY <1>3 DEF ListenLoop, ClientLoop, OpenListener, Close, While, Recv, Callback, Goto,
                Places, construction, control
  <2>2. (Shape /\ Held /\ NoneHeld /\ HeartbeatFlag)'
    BY <2>1, MovesHeld DEF Moves
  <2>3. fds' = {u \in Thread : pc'[u] \notin {"none", "socket", "ended"}}
    BY <1>1, <2>1 DEF IInv, Shape, ServerDescriptors
  <2>4. (ServerDescriptors /\ SocketDescriptors)'
    BY <1>1, <2>1, <2>3 DEF IInv, ServerDescriptors, SocketDescriptors
  <2>5. QED
    BY <2>2, <2>4 DEF IInv
<1>4. QED
  BY <1>2, <1>3

\* Every step keeps the invariant.
LEMMA NextIInv == IInv /\ [Next]_vars => IInv'
<1>1. SUFFICES ASSUME IInv, [Next]_vars PROVE IInv'
  OBVIOUS
<1>2. CASE Next
  <2>1. CASE CtorStep \/ AddConnectionThrows \/ CtorThrows \/ Built
    BY <1>1, <2>1, ConstructionIInv
  <2>2. CASE Start
    BY <1>1, <2>2, StartIInv
  <2>3. CASE Stop \/ Destroy \/ Join
    BY <1>1, <2>3, StopIInv
  <2>4. CASE \E t \in Thread : ThreadStep(t)
    BY <1>1, <2>4, LoopIInv, ServerIInv DEF ThreadStep
  <2>5. QED
    BY <1>2, <2>1, <2>2, <2>3, <2>4 DEF Next
<1>3. CASE UNCHANGED vars
  BY <1>1, <1>3 DEF vars, construction, control, IInv, Shape, Held, NoneHeld, HeartbeatFlag,
                    ServerDescriptors, SocketDescriptors, Socket, Sockets
<1>4. QED
  BY <1>1, <1>2, <1>3

-----------------------------------------------------------------------------
\* The inductive invariant of the services holds for any number of threads.
THEOREM ServiceInvariant == Spec => []IInv
  BY InitIInv, NextIInv, PTL DEF Spec

\* stop() and the destructor know of every thread: those of the accept loop and of a
\* repeated startAll() are in the vector.
THEOREM ThreadsHeld == Spec => []EveryThreadHeld
<1>1. IInv => EveryThreadHeld
  BY ThreadAssumption DEF IInv, Shape, Held, EveryThreadHeld
<1>2. QED
  BY <1>1, ServiceInvariant, PTL

\* Nothing runs when stop() or the destructor has returned.
THEOREM QuietWhenStopped == Spec => []QuietAfterStop
<1>1. IInv => QuietAfterStop
  BY ThreadAssumption DEF IInv, Held, NoneHeld, QuietAfterStop
<1>2. QED
  BY <1>1, ServiceInvariant, PTL

\* No descriptor is lost, except by the UDP constructors.
THEOREM NoDescriptorLost == Spec => []DescriptorsClosed
<1>1. ASSUME IInv PROVE DescriptorsClosed
  <2>1. CASE kind = "server"
    <3>1. owner \in {"stopped", "gone", "failed"} => fds = {}
      BY <1>1, <2>1, ThreadAssumption DEF IInv, Held, NoneHeld, ServerDescriptors
    <3>2. QED
      BY <1>1, <2>1, <3>1 DEF IInv, ServerDescriptors, DescriptorsClosed
  <2>2. CASE kind # "server"
    BY <1>1, <2>2 DEF IInv, SocketDescriptors, DescriptorsClosed
  <2>3. QED
    BY <2>1, <2>2
<1>2. QED
  BY <1>1, ServiceInvariant, PTL

\* A start() that follows a stop() never meets a joinable thread.
THEOREM StartAfterStop == Spec => RestartSafe
<1>1. ASSUME IInv, [Next]_vars
      PROVE  [owner' = "terminated" =>
                owner = "started" /\ kind \notin {"heartbeat", "manager"}]_vars
  <2>1. SUFFICES ASSUME Next, owner' = "terminated"
                 PROVE  owner = "started" /\ kind \notin {"heartbeat", "manager"}
    BY <1>1
  <2>2. ~\E T \in SUBSET Thread : StartAll(T)
    BY <2>1 DEF StartAll
  <2>3. ~(Stop \/ Destroy \/ CtorThrows \/ Built \/ CtorStep \/ AddConnectionThrows)
    BY <2>1 DEF Stop, Destroy, CtorThrows, Built, CtorStep, AddConnectionThrows, control
  <2>4. ~Join
    BY <2>1 DEF Join, JoinMember, JoinInVector, StopReturns, Waiting
  <2>5. ~\E t \in Thread : ThreadStep(t)
    BY <2>1 DEF ThreadStep, TcpReadLoop, UdpReadLoop, ManagerLoop, HeartbeatLoop, InjectLoop,
                ListenLoop, ClientLoop, OpenListener, AcceptClient, While, Recv, Callback,
                Sleep, Goto, control
  <2>6. PICK t \in Thread, first \in Places :
          /\ StartThread(t, first) /\ kind # "manager"
          /\ kind = "heartbeat" => ~running
    BY <2>1, <2>2, <2>3, <2>4, <2>5
       DEF Next, Start, TcpPipelineStart, UdpPipelineStart, InjectorStart, ServerStart,
           HeartbeatStart, Places
  <2>7. Idle /\ member # NoThread
    BY <2>1, <2>6 DEF StartThread
  <2>8. owner = "started"
    BY <1>1, <2>7 DEF Idle, IInv, NoneHeld
  <2>9. QED
    BY <1>1, <2>6, <2>8 DEF IInv, HeartbeatFlag
<1>2. QED
  BY <1>1, ServiceInvariant, PTL DEF Spec, RestartSafe
=============================================================================
