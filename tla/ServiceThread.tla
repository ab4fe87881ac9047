--------------------------- MODULE ServiceThread ---------------------------
(***************************************************************************)
(* The classes that run a loop in threads of their own between start() and *)
(* stop(): TcpPipeline, UdpPipeline, TcpConnectionManager, TcpHeartbeat and*)
(* TcpServer of libs/networking, SyntheticDataInjector of libs/market-data.*)
(*                                                                         *)
(* A behaviour is the life of one object of one of these classes, its      *)
(* kind.  First the sockets it works on are constructed, by constructors   *)
(* that throw when a system call fails; then its owner, a single thread,   *)
(* calls start, stop and the destructor in any order.  The classes share   *)
(* the shape of start, stop and the loop and differ in what the loop       *)
(* blocks on, in what ends it, and in how the threads are held: in one     *)
(* std::thread member, in a vector, or (the server) in both.               *)
(*                                                                         *)
(* recv, read and accept (external) return when the peer wants it, with    *)
(* data, a connection or a failure, or never.  _running is one atomic      *)
(* variable whose stores the threads see in finite time; a late load is    *)
(* the same as a late step of the thread.                                  *)
(***************************************************************************)
EXTENDS Naturals, Sequences, FiniteSets

CONSTANTS
    Kinds,     \* the classes to consider
    Thread,    \* the threads that can exist at the same time
    NoThread   \* an empty std::thread

ASSUME ThreadAssumption == NoThread \notin Thread
ASSUME KindsAssumption ==
    Kinds \subseteq {"tcpPipeline", "udpPipeline", "manager", "heartbeat", "server", "injector"}

VARIABLES
    kind,      \* the class of the object
    tried,     \* the number of sockets whose constructor has ended
    ctor,      \* the steps done of the constructor that runs
    built,     \* the sockets constructed (and not yet destroyed)
    fds,       \* open descriptors: of a socket object, or of a server thread
    owner,     \* where the owner is
    running,   \* _running
    member,    \* _readThread, _thread or _acceptThread
    threads,   \* _threads or _clientThreads
    pc         \* where each thread is; "none": there is no such thread

construction == <<kind, tried, ctor, built>>
control == <<owner, running, member, threads>>
vars == <<construction, fds, control, pc>>

Init ==
    /\ kind \in Kinds
    /\ tried = 0 /\ ctor = 0 /\ built = {} /\ fds = {}
    /\ owner = "building"
    /\ running = FALSE
    /\ member = NoThread /\ threads = {}
    /\ pc = [t \in Thread |-> "none"]

-----------------------------------------------------------------------------
(* The sockets. *)

\* The calls of each constructor that make it throw when they fail; the first
\* opens the descriptor.
TcpClientCtor == <<"socket", "inet_pton", "connect">>
ReceiverCtor == <<"socket", "reuse", "bind", "inet_pton", "membership">>
SenderCtor == <<"socket", "ttl", "loopback", "inet_pton">>

\* The socket objects the kind works on, in the order of their construction: the
\* manager has one TcpClient per addConnection.
Sockets ==
    IF kind = "tcpPipeline" THEN <<"client">>
    ELSE IF kind = "udpPipeline" THEN <<"receiver", "sender">>
    ELSE IF kind = "manager" THEN <<"client", "client2">>
    ELSE <<>>

Socket == Sockets[tried + 1]

CtorOf(s) ==
    IF s = "receiver" THEN ReceiverCtor ELSE IF s = "sender" THEN SenderCtor ELSE TcpClientCtor

NoneCloses(s) == {}

\* What a constructor closes before it throws: TcpClient's closes its socket, those
\* of the UDP classes do not, and their destructor does not run either.
ClosedByThrow(s) == IF CtorOf(s) = TcpClientCtor THEN {s} ELSE {}

\* The next call of the constructor succeeds.
CtorStep ==
    /\ owner = "building" /\ tried < Len(Sockets)
    /\ fds' = fds \cup {Socket}
    /\ IF ctor + 1 = Len(CtorOf(Socket))
         THEN ctor' = 0 /\ tried' = tried + 1 /\ built' = built \cup {Socket}
         ELSE ctor' = ctor + 1 /\ UNCHANGED <<tried, built>>
    /\ UNCHANGED <<kind, control, pc>>

\* addConnection throws: the clients added before stay.
AddConnectionThrows ==
    /\ owner = "building" /\ tried < Len(Sockets)
    /\ kind = "manager"
    /\ fds' = fds \ ClosedByThrow(Socket)
    /\ ctor' = 0 /\ tried' = tried + 1
    /\ UNCHANGED <<kind, built, control, pc>>

\* The constructor of a pipeline's socket throws, which destroys the sockets
\* constructed before it.
CtorThrows ==
    /\ owner = "building" /\ tried < Len(Sockets)
    /\ kind # "manager"
    /\ fds' = (fds \ ClosedByThrow(Socket)) \ built
    /\ built' = {}
    /\ owner' = "failed"
    /\ UNCHANGED <<kind, tried, ctor, running, member, threads, pc>>

Built ==
    /\ owner = "building" /\ tried = Len(Sockets)
    /\ owner' = "stopped"
    /\ UNCHANGED <<construction, fds, running, member, threads, pc>>

-----------------------------------------------------------------------------
(* start *)

Idle == owner \in {"stopped", "started"}

\* _running = true; member = std::thread(...), with the new thread t at its first
\* step.  Assigning to a thread that is still joinable is std::terminate.
StartThread(t, first) ==
    /\ Idle
    /\ running' = TRUE
    /\ pc[t] = "none"
    /\ IF member = NoThread
         THEN member' = t /\ owner' = "started" /\ pc' = [pc EXCEPT ![t] = first]
         ELSE owner' = "terminated" /\ UNCHANGED <<member, pc>>
    /\ UNCHANGED <<construction, fds, threads>>

TcpPipelineStart(t) == kind = "tcpPipeline" /\ StartThread(t, "check")
UdpPipelineStart(t) == kind = "udpPipeline" /\ StartThread(t, "check")
InjectorStart(t) == kind = "injector" /\ StartThread(t, "check")
ServerStart(t) == kind = "server" /\ StartThread(t, "socket")

HeartbeatStartUnguarded(t) == kind = "heartbeat" /\ StartThread(t, "check")

\* start returns at once while the heartbeat runs.
HeartbeatStart(t) == kind = "heartbeat" /\ ~running /\ StartThread(t, "check")

\* startAll: one thread for each client, beside those of an earlier call.
StartAll(T) ==
    /\ kind = "manager" /\ Idle
    /\ Cardinality(T) = Cardinality(built)
    /\ \A t \in T : pc[t] = "none"
    /\ running' = TRUE
    /\ owner' = "started"
    /\ threads' = threads \cup T
    /\ pc' = [t \in Thread |-> IF t \in T THEN "check" ELSE pc[t]]
    /\ UNCHANGED <<construction, fds, member>>

-----------------------------------------------------------------------------
(* stop and the destructor, which calls stop *)

Stop ==
    /\ Idle
    /\ running' = FALSE
    /\ owner' = "joining"
    /\ UNCHANGED <<construction, fds, member, threads, pc>>

Destroy ==
    /\ Idle
    /\ running' = FALSE
    /\ owner' = "destroying"
    /\ UNCHANGED <<construction, fds, member, threads, pc>>

Waiting == owner \in {"joining", "destroying"}

\* join of the member returns.
JoinMember ==
    /\ Waiting
    /\ member # NoThread /\ pc[member] = "ended"
    /\ pc' = [pc EXCEPT ![member] = "none"]
    /\ member' = NoThread
    /\ UNCHANGED <<construction, fds, owner, running, threads>>

\* join of a thread of the vector returns; the server joins its member first.
JoinInVector(t) ==
    /\ Waiting
    /\ member = NoThread
    /\ t \in threads /\ pc[t] = "ended"
    /\ pc' = [pc EXCEPT ![t] = "none"]
    /\ threads' = threads \ {t}
    /\ UNCHANGED <<construction, fds, owner, running, member>>

MemberJoined == member = NoThread

AllJoined == member = NoThread /\ threads = {}

\* stop returns; after the destructor the sockets are destroyed and closed.
StopReturns ==
    /\ Waiting
    /\ AllJoined
    /\ IF owner = "joining"
         THEN owner' = "stopped" /\ UNCHANGED <<built, fds>>
         ELSE owner' = "gone" /\ built' = {} /\ fds' = fds \ built
    /\ UNCHANGED <<kind, tried, ctor, running, member, threads, pc>>

-----------------------------------------------------------------------------
(* The loops. *)

Goto(t, place) ==
    /\ pc' = [pc EXCEPT ![t] = place]
    /\ UNCHANGED <<construction, control>>

WhileForEver(t, body, after) ==
    /\ pc[t] = "check"
    /\ Goto(t, body)
    /\ UNCHANGED fds

\* while (_running)
While(t, body, after) ==
    /\ pc[t] = "check"
    /\ Goto(t, IF running THEN body ELSE after)
    /\ UNCHANGED fds

\* n > 0, or a failure or the end of the stream.
Recv(t, failed) ==
    /\ pc[t] = "recv"
    /\ Goto(t, "callback") \/ Goto(t, failed)
    /\ UNCHANGED fds

\* The message goes to the callback, by way of the decoder in a pipeline.
Callback(t, next) == pc[t] = "callback" /\ Goto(t, next) /\ UNCHANGED fds

Sleep(t) == pc[t] = "sleep" /\ Goto(t, "check") /\ UNCHANGED fds

\* "if (n <= 0) break"
TcpReadLoop(t) ==
    kind = "tcpPipeline" /\ (While(t, "recv", "ended") \/ Recv(t, "ended") \/ Callback(t, "check"))

\* "if (n <= 0) continue"
UdpReadLoop(t) ==
    kind = "udpPipeline" /\ (While(t, "recv", "ended") \/ Recv(t, "check") \/ Callback(t, "check"))

\* isConnected() holds for as long as the client exists.
ManagerLoop(t) ==
    /\ kind = "manager"
    /\ While(t, "recv", "ended") \/ Recv(t, "sleep") \/ Callback(t, "check") \/ Sleep(t)

\* The callback is the heartbeat; what is left of the interval is slept or spun.
HeartbeatLoop(t) ==
    /\ kind = "heartbeat"
    /\ While(t, "callback", "ended") \/ Callback(t, "sleep") \/ Sleep(t)

\* The callback is one round of synthetic orders.
InjectLoop(t) ==
    /\ kind = "injector"
    /\ While(t, "callback", "ended") \/ Callback(t, "sleep") \/ Sleep(t)

Close(t) == fds' = fds \ {t}

\* socket, then bind and listen, of the accept thread: on a failure it returns.
OpenListener(t) ==
    \/ pc[t] = "socket" /\ Goto(t, "ended") /\ UNCHANGED fds
    \/ pc[t] = "socket" /\ Goto(t, "bind") /\ fds' = fds \cup {t}
    \/ pc[t] = "bind" /\ Goto(t, "listen") /\ UNCHANGED fds
    \/ pc[t] = "bind" /\ Goto(t, "ended") /\ Close(t)

AcceptClientDetached(t, u) ==
    /\ pc[t] = "accept" /\ pc[u] = "none"
    /\ pc' = [pc EXCEPT ![t] = "listen", ![u] = "check"]
    /\ fds' = fds \cup {u}
    /\ UNCHANGED <<construction, control>>

\* accept returns a connection, and the thread u that reads it starts.
AcceptClient(t, u) ==
    /\ pc[t] = "accept" /\ pc[u] = "none"
    /\ pc' = [pc EXCEPT ![t] = "listen", ![u] = "check"]
    /\ threads' = threads \cup {u}
    /\ fds' = fds \cup {u}
    /\ UNCHANGED <<construction, owner, running, member>>

ListenLoop(t) ==
    /\ kind = "server"
    /\ \/ OpenListener(t)
       \/ pc[t] = "listen" /\ Goto(t, IF running THEN "accept" ELSE "close") /\ UNCHANGED fds
       \/ \E u \in Thread : AcceptClient(t, u)
       \/ pc[t] = "accept" /\ Goto(t, "listen") /\ UNCHANGED fds

\* The loop of a client's thread; both loops close their descriptor after it.
ClientLoop(t) ==
    /\ kind = "server"
    /\ \/ While(t, "recv", "close") \/ Recv(t, "close") \/ Callback(t, "check")
       \/ pc[t] = "close" /\ Goto(t, "ended") /\ Close(t)

-----------------------------------------------------------------------------
ThreadStep(t) ==
    /\ owner # "terminated"
    /\ \/ TcpReadLoop(t) \/ UdpReadLoop(t) \/ ManagerLoop(t)
       \/ HeartbeatLoop(t) \/ InjectLoop(t)
       \/ ListenLoop(t) \/ ClientLoop(t)

Start ==
    \/ \E t \in Thread :
          \/ TcpPipelineStart(t) \/ UdpPipelineStart(t) \/ InjectorStart(t)
          \/ ServerStart(t) \/ HeartbeatStart(t)
    \/ \E T \in SUBSET Thread : StartAll(T)

Join == JoinMember \/ (\E t \in Thread : JoinInVector(t)) \/ StopReturns

Next ==
    \/ CtorStep \/ AddConnectionThrows \/ CtorThrows \/ Built
    \/ Start \/ Stop \/ Destroy \/ Join
    \/ \E t \in Thread : ThreadStep(t)

Spec == Init /\ [][Next]_vars

Blocked(t) == pc[t] \in {"recv", "accept"}

\* Threads run, joins of ended threads return.  Nothing is assumed of the owner, and
\* nothing of the peers: a blocking call may never return.
FairSpec ==
    /\ Spec
    /\ WF_vars(Join)
    /\ \A t \in Thread : WF_vars(~Blocked(t) /\ ThreadStep(t))
-----------------------------------------------------------------------------
(* Properties. *)

\* Every thread that exists is held by the object, once: stop and the destructor
\* know of all the threads they have to wait for, also of those that the accept
\* thread starts while stop() runs and of those of a repeated startAll().
EveryThreadHeld ==
    owner # "terminated" =>
        /\ {t \in Thread : pc[t] # "none"} = threads \cup ({member} \ {NoThread})
        /\ member \notin threads

\* After stop() or the destructor has returned no thread of the object runs: no
\* callback comes any more, and no thread touches a destroyed object.
QuietAfterStop ==
    owner \in {"stopped", "gone"} => \A t \in Thread : pc[t] = "none"

\* start() ends the program only if it is called a second time without a stop() in
\* between, and never in TcpHeartbeat, which tests _running, or in the manager: an
\* owner that stops before it starts again is safe, although a loop may have ended
\* by itself and left _running set.
RestartSafe ==
    [][owner' = "terminated" =>
          owner = "started" /\ kind \notin {"heartbeat", "manager"}]_vars

\* No descriptor is lost, whichever call fails: when the object is stopped the open
\* descriptors are those of its sockets, a server's listening socket and connections
\* closed; and after its life, or a constructor that threw, none is open.  The UDP
\* constructors do not keep this (ConstructorsClose); for the other classes it holds.
DescriptorsClosed ==
    /\ owner = "stopped" => fds = built
    /\ owner = "gone" => fds = {}
    /\ owner = "failed" /\ kind # "udpPipeline" => fds = {}

\* The sockets are managed by their objects: a constructor that throws has closed what
\* it opened.  (The code does not keep it: UdpMulticastReceiver and UdpMulticastSender
\* throw with _socket open, and the destructor, that would close it, does not run.)
ConstructorsClose == owner = "failed" => fds = {}

\* stop() and the destructor return unless a thread stays for ever in a recv, read
\* or accept whose peer is silent: each loop sees _running cleared, a connection
\* accepted after that does not keep the server, and the threads that end by
\* themselves are joined too.
StopReturnsUnlessSilent ==
    (\A t \in Thread : []<>~Blocked(t)) => (Waiting ~> owner \in {"stopped", "gone"})
=============================================================================
