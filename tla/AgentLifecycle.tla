--------------------------- MODULE AgentLifecycle ---------------------------
(***************************************************************************)
(* The lifecycle of one UACPAgent (src/src/agent.cpp): start(), stop(),    *)
(* the destructor and the receiver thread, one action per statement that   *)
(* reads or writes shared state.  Several user threads may call the agent, *)
(* and a message handler, which runs on the receiver thread, may call      *)
(* stop().                                                                 *)
(*                                                                         *)
(* Abstracted: the messages (AgentNetwork has them), the transport beyond  *)
(* "bound or not" (UdpTransport has it).  A call that returns at once      *)
(* without changing anything, such as start() on a running agent, is no    *)
(* step.  An exception that leaves stop() is caught by the user thread.    *)
(***************************************************************************)
EXTENDS Integers

CONSTANTS
    Callers,          \* user threads that call the agent
    Starters,         \* those of them that call start()
    Receivers,        \* OS threads that start() may create (bounds the starts)
    HandlerStops,     \* may a message handler call stop()?
    ThreadsMayFail,   \* may the creation of the receiver thread throw?
    ConfiguredPort,   \* the constructor's port; 0 lets the OS choose
    EphemeralPorts,   \* the ports the OS may choose
    NoThread          \* the value of a std::thread that is not joinable

ASSUME LifecycleAssumption ==
    /\ Callers \cap Receivers = {} /\ Starters \subseteq Callers
    /\ NoThread \notin Callers \cup Receivers
    /\ HandlerStops \in BOOLEAN /\ ThreadsMayFail \in BOOLEAN
    /\ ConfiguredPort \in Nat
    /\ EphemeralPorts \subseteq Nat \ {0} /\ EphemeralPorts # {}

VARIABLES
    alive,        \* the object's lifetime has not ended
    destroyer,    \* the caller that runs the destructor, or NoThread
    running,      \* running_
    handle,       \* receiver_thread_: the thread it names, or NoThread
    fresh,        \* per caller: the thread start() has created and not yet
                  \* moved into receiver_thread_, or NoThread
    deaf,         \* history: a start() could not create its thread, and
                  \* nobody has cleared running_ since
    bound,        \* transport_ is bound
    localPort,    \* transport_->getLocalPort()
    port,         \* port_
    pc,           \* where each thread is
    terminated    \* std::terminate was called

vars == <<alive, destroyer, running, handle, fresh, deaf, bound, localPort, port,
          pc, terminated>>

Threads == Callers \cup Receivers
Ports == {0, ConfiguredPort} \cup EphemeralPorts

StartLabels == {"bind", "port", "flag", "spawn", "test", "assign"}
StopLabels == {"unflag", "joinable", "join", "close"}
CallerLabels == {"idle", "members", "gone"} \cup StartLabels \cup StopLabels
LoopLabels == {"loop", "receive", "poll", "handle"}
ReceiverLabels == {"unborn", "exited"} \cup LoopLabels \cup StopLabels

\* A receiver thread that has begun its loop and not left it.
Live(r) == pc[r] \in LoopLabels \cup StopLabels

(***************************************************************************)
(* Where a thread goes when a call of stop() is over: a user thread goes   *)
(* on to destroy the members if it runs the destructor, and the receiver   *)
(* returns from the handler to its loop.                                   *)
(***************************************************************************)
AfterStop(t) ==
    IF t \in Receivers THEN "loop"
    ELSE IF t = destroyer THEN "members" ELSE "idle"

Goto(t, label) == pc' = [pc EXCEPT ![t] = label]

Init ==
    /\ alive = TRUE /\ destroyer = NoThread
    /\ running = FALSE
    /\ handle = NoThread /\ fresh = [c \in Callers |-> NoThread] /\ deaf = FALSE
    /\ bound = FALSE /\ localPort = 0
    /\ port = ConfiguredPort
    /\ pc = [t \in Threads |-> IF t \in Callers THEN "idle" ELSE "unborn"]
    /\ terminated = FALSE

-----------------------------------------------------------------------------
(* start() *)

\* A user thread may begin a call only before anyone destroys the agent.
MayCall(c) == alive /\ destroyer = NoThread /\ pc[c] = "idle"

StartCheck(c) ==
    /\ c \in Starters /\ MayCall(c) /\ ~running
    /\ \E r \in Receivers : pc[r] = "unborn"   \* the bound on starts
    /\ Goto(c, "bind")
    /\ UNCHANGED <<alive, destroyer, running, handle, fresh, deaf, bound, localPort, port, terminated>>

\* Mutant: the port of the new socket is not asked for.
Bug_BindForgetsPort(c) ==
    /\ pc[c] = "bind" /\ ~bound
    /\ bound' = TRUE /\ localPort' = -1
    /\ Goto(c, "port")
    /\ UNCHANGED <<alive, destroyer, running, handle, fresh, deaf, port, terminated>>

StartBind(c) ==
    /\ pc[c] = "bind" /\ ~bound
    /\ bound' = TRUE
    /\ localPort' \in IF port = 0 THEN EphemeralPorts ELSE {port}
    /\ Goto(c, "port")
    /\ UNCHANGED <<alive, destroyer, running, handle, fresh, deaf, port, terminated>>

\* bind() refuses: the transport is already bound, or the OS says no.
StartBindFails(c) ==
    /\ pc[c] = "bind"
    /\ Goto(c, "idle")
    /\ UNCHANGED <<alive, destroyer, running, handle, fresh, deaf, bound, localPort, port, terminated>>

StartPort(c) ==
    /\ pc[c] = "port"
    /\ port' = localPort
    /\ Goto(c, "flag")
    /\ UNCHANGED <<alive, destroyer, running, handle, fresh, deaf, bound, localPort, terminated>>

StartFlag(c) ==
    /\ pc[c] = "flag"
    /\ running' = TRUE
    /\ Goto(c, "spawn")
    /\ UNCHANGED <<alive, destroyer, handle, fresh, deaf, bound, localPort, port, terminated>>

\* The constructor of the temporary std::thread: the receiver may run at once,
\* before receiver_thread_ names it.
StartSpawn(c) ==
    /\ pc[c] = "spawn"
    /\ \E r \in Receivers :
        /\ pc[r] = "unborn"
        /\ pc' = [pc EXCEPT ![c] = "test", ![r] = "loop"]
        /\ fresh' = [fresh EXCEPT ![c] = r]
    /\ UNCHANGED <<alive, destroyer, running, handle, deaf, bound, localPort, port, terminated>>

\* std::thread throws when the OS has no thread to give: start() is left
\* with running_ set and the transport bound.
StartSpawnFails(c) ==
    /\ ThreadsMayFail
    /\ pc[c] = "spawn"
    /\ deaf' = TRUE
    /\ Goto(c, "idle")
    /\ UNCHANGED <<alive, destroyer, running, handle, fresh, bound, localPort, port, terminated>>

\* The move assignment first looks at receiver_thread_: assigning over a
\* std::thread that is joinable calls std::terminate.
StartTest(c) ==
    /\ pc[c] = "test"
    /\ terminated' = (handle # NoThread)
    /\ Goto(c, "assign")
    /\ UNCHANGED <<alive, destroyer, running, handle, fresh, deaf, bound, localPort, port>>

(***************************************************************************)
(* ... and then swaps.  If another start() has put its thread there since  *)
(* the test, a data race, that thread comes to the temporary, whose        *)
(* destructor calls std::terminate, or is lost.                            *)
(***************************************************************************)
StartAssign(c) ==
    /\ pc[c] = "assign"
    /\ handle' = fresh[c]
    /\ fresh' = [fresh EXCEPT ![c] = NoThread]
    /\ terminated' \in IF handle = NoThread THEN {FALSE} ELSE BOOLEAN
    /\ Goto(c, "idle")
    /\ UNCHANGED <<alive, destroyer, running, deaf, bound, localPort, port>>

Start(c) ==
    \/ StartCheck(c) \/ StartBind(c) \/ StartBindFails(c) \/ StartPort(c)
    \/ StartFlag(c) \/ StartSpawn(c) \/ StartSpawnFails(c)
    \/ StartTest(c) \/ StartAssign(c)

-----------------------------------------------------------------------------
(* stop() *)

StopCheck(t) ==
    /\ running
    /\ \/ t \in Callers /\ MayCall(t)
       \/ t \in Receivers /\ HandlerStops /\ pc[t] = "handle"
    /\ Goto(t, "unflag")
    /\ UNCHANGED <<alive, destroyer, running, handle, fresh, deaf, bound, localPort, port, terminated>>

\* Mutant: the flag is left set.
Bug_StopKeepsFlag(t) ==
    /\ pc[t] = "unflag"
    /\ Goto(t, "joinable")
    /\ UNCHANGED <<alive, destroyer, running, handle, fresh, deaf, bound, localPort, port, terminated>>

\* Mutant: the transport is closed before the join.
Bug_StopClosesFirst(t) ==
    /\ pc[t] = "unflag"
    /\ running' = FALSE /\ deaf' = FALSE /\ bound' = FALSE
    /\ Goto(t, "joinable")
    /\ UNCHANGED <<alive, destroyer, handle, fresh, localPort, port, terminated>>

StopUnflag(t) ==
    /\ pc[t] = "unflag"
    /\ running' = FALSE /\ deaf' = FALSE
    /\ Goto(t, "joinable")
    /\ UNCHANGED <<alive, destroyer, handle, fresh, bound, localPort, port, terminated>>

\* Mutant: stop() does not join.
Bug_StopSkipsJoin(t) ==
    /\ pc[t] = "joinable"
    /\ Goto(t, "close")
    /\ UNCHANGED <<alive, destroyer, running, handle, fresh, deaf, bound, localPort, port, terminated>>

StopJoinable(t) ==
    /\ pc[t] = "joinable"
    /\ Goto(t, IF handle = NoThread THEN "close" ELSE "join")
    /\ UNCHANGED <<alive, destroyer, running, handle, fresh, deaf, bound, localPort, port, terminated>>

\* Mutant: detach() in the place of join().
Bug_StopDetaches(t) ==
    /\ pc[t] = "join" /\ handle # NoThread
    /\ handle' = NoThread
    /\ Goto(t, "close")
    /\ UNCHANGED <<alive, destroyer, running, fresh, deaf, bound, localPort, port, terminated>>

\* Mutant: stop() returns after the join.
Bug_StopReturnsEarly(t) ==
    /\ pc[t] = "join"
    /\ handle # NoThread /\ pc[handle] = "exited"
    /\ handle' = NoThread
    /\ Goto(t, AfterStop(t))
    /\ UNCHANGED <<alive, destroyer, running, fresh, deaf, bound, localPort, port, terminated>>

StopJoin(t) ==
    /\ pc[t] = "join"
    /\ handle # NoThread /\ pc[handle] = "exited"
    /\ handle' = NoThread
    /\ Goto(t, "close")
    /\ UNCHANGED <<alive, destroyer, running, fresh, deaf, bound, localPort, port, terminated>>

\* Mutant: a receiver that joins itself waits, as with a bare pthread_join
\* that does not look for it.
Bug_SelfJoinWaits(t) ==
    /\ pc[t] = "join"
    /\ handle = NoThread
    /\ terminated' = (t = destroyer)
    /\ Goto(t, IF t \in Receivers THEN "loop" ELSE "idle")
    /\ UNCHANGED <<alive, destroyer, running, handle, fresh, deaf, bound, localPort, port>>

(***************************************************************************)
(* join() throws std::system_error: the thread was joined in between, it   *)
(* is the calling thread itself, or another thread is joining it already.  *)
(* On the receiver thread receiverLoop's catch (...) swallows it; out of   *)
(* the destructor, which is noexcept, it calls std::terminate.             *)
(***************************************************************************)
StopJoinThrows(t) ==
    /\ pc[t] = "join"
    /\ \/ handle = NoThread
       \/ handle = t
       \/ \E u \in Threads \ {t, handle} : pc[u] = "join"
    /\ terminated' = (t = destroyer)
    /\ Goto(t, IF t \in Receivers THEN "loop" ELSE "idle")
    /\ UNCHANGED <<alive, destroyer, running, handle, fresh, deaf, bound, localPort, port>>

StopClose(t) ==
    /\ pc[t] = "close"
    /\ bound' = FALSE /\ localPort' = 0
    /\ Goto(t, AfterStop(t))
    /\ UNCHANGED <<alive, destroyer, running, handle, fresh, deaf, port, terminated>>

Stop(t) ==
    \/ StopCheck(t) \/ StopUnflag(t) \/ StopJoinable(t)
    \/ StopJoin(t) \/ StopJoinThrows(t) \/ StopClose(t)

-----------------------------------------------------------------------------
(* ~UACPAgent() *)

\* The language lets nobody else be inside a call when the destructor starts.
Destroy(c) ==
    /\ MayCall(c)
    /\ \A d \in Callers \ {c} : pc[d] = "idle"
    /\ destroyer' = c
    /\ Goto(c, IF running THEN "unflag" ELSE "members")
    /\ UNCHANGED <<alive, running, handle, fresh, deaf, bound, localPort, port, terminated>>

\* The members go in reverse order: receiver_thread_ first, whose destructor
\* calls std::terminate if it is joinable, later the transport, which closes.
DestroyMembers(c) ==
    /\ pc[c] = "members"
    /\ IF handle # NoThread
       THEN /\ terminated' = TRUE
            /\ UNCHANGED <<alive, bound, localPort>>
       ELSE /\ alive' = FALSE
            /\ bound' = FALSE /\ localPort' = 0
            /\ UNCHANGED terminated
    /\ Goto(c, "gone")
    /\ UNCHANGED <<destroyer, running, handle, fresh, deaf, port>>

-----------------------------------------------------------------------------
(* receiverLoop() *)

LoopCheck(r) ==
    /\ pc[r] = "loop"
    /\ Goto(r, IF running THEN "receive" ELSE "exited")
    /\ UNCHANGED <<alive, destroyer, running, handle, fresh, deaf, bound, localPort, port, terminated>>

\* receiveFromPeer() returns at once when the transport is not bound.
Receive(r) ==
    /\ pc[r] = "receive"
    /\ Goto(r, IF bound THEN "poll" ELSE "loop")
    /\ UNCHANGED <<alive, destroyer, running, handle, fresh, deaf, bound, localPort, port, terminated>>

\* 100 ms without a datagram.
PollTimeout(r) ==
    /\ pc[r] = "poll"
    /\ Goto(r, "loop")
    /\ UNCHANGED <<alive, destroyer, running, handle, fresh, deaf, bound, localPort, port, terminated>>

PollData(r) ==
    /\ pc[r] = "poll" /\ bound
    /\ Goto(r, "handle")
    /\ UNCHANGED <<alive, destroyer, running, handle, fresh, deaf, bound, localPort, port, terminated>>

HandlerReturns(r) ==
    /\ pc[r] = "handle"
    /\ Goto(r, "loop")
    /\ UNCHANGED <<alive, destroyer, running, handle, fresh, deaf, bound, localPort, port, terminated>>

ReceiverLoop(r) ==
    LoopCheck(r) \/ Receive(r) \/ PollTimeout(r) \/ PollData(r) \/ HandlerReturns(r)

-----------------------------------------------------------------------------

CallerStep(c) == Start(c) \/ Stop(c) \/ Destroy(c) \/ DestroyMembers(c)
ReceiverStep(r) == Stop(r) \/ ReceiverLoop(r)

Next ==
    /\ ~terminated
    /\ \/ \E c \in Callers : CallerStep(c)
       \/ \E r \in Receivers : ReceiverStep(r)

Spec == Init /\ [][Next]_vars

(***************************************************************************)
(* The OS schedules every thread that can move: a call that has begun goes *)
(* on, and the loop goes on because a poll ends after 100 ms.  Nobody has  *)
(* to call start(), stop() or the destructor, and no data has to arrive.   *)
(***************************************************************************)
InCall(c) ==
    /\ ~terminated /\ pc[c] \in StartLabels \cup StopLabels \cup {"members"}
    /\ Start(c) \/ Stop(c) \/ DestroyMembers(c)

LoopGoesOn(r) ==
    /\ ~terminated
    /\ \/ LoopCheck(r) \/ Receive(r) \/ PollTimeout(r) \/ HandlerReturns(r)
       \/ pc[r] \in StopLabels /\ Stop(r)

FairSpec ==
    /\ Spec
    /\ \A c \in Callers : WF_vars(InCall(c))
    /\ \A r \in Receivers : WF_vars(LoopGoesOn(r))

-----------------------------------------------------------------------------
(* Properties *)

TypeOK ==
    /\ alive \in BOOLEAN /\ running \in BOOLEAN
    /\ bound \in BOOLEAN /\ terminated \in BOOLEAN
    /\ destroyer \in Callers \cup {NoThread}
    /\ handle \in Receivers \cup {NoThread}
    /\ fresh \in [Callers -> Receivers \cup {NoThread}] /\ deaf \in BOOLEAN
    /\ localPort \in Ports /\ port \in Ports
    /\ pc \in [Threads -> CallerLabels \cup ReceiverLabels]
    /\ \A c \in Callers : pc[c] \in CallerLabels
    /\ \A r \in Receivers : pc[r] \in ReceiverLabels

(***************************************************************************)
(* Whatever threads stop the agent and whatever the handlers do, a running *)
(* receiver thread is the one receiver_thread_ names or the one a start()  *)
(* is about to move there: none is lost, so that some stop() can join it   *)
(* (agent.cpp:54, 66-68).  It takes one thread that calls start().         *)
(***************************************************************************)
NoOrphanReceiver ==
    ~terminated => \A r \in Receivers :
        Live(r) => handle = r \/ \E c \in Callers : fresh[c] = r

(***************************************************************************)
(* No receiver thread runs on an agent that has been destroyed: the        *)
(* destructor of receiver_thread_ or the join in stop() comes first        *)
(* (agent.cpp:38-40).                                                      *)
(***************************************************************************)
NoReceiverAfterDestruction ==
    ~alive => \A r \in Receivers : ~Live(r)

\* Both: every receiver thread is accounted for, to the end of the agent
\* (agent.cpp:38-40, 54, 66-68).
ReceiversAccounted == NoOrphanReceiver /\ NoReceiverAfterDestruction

(***************************************************************************)
(* A receiver thread that waits inside poll() waits on a bound socket:     *)
(* stop() closes the transport only after the join (agent.cpp:66-70).      *)
(***************************************************************************)
PollsBoundSocket ==
    \A r \in Receivers : pc[r] = "poll" => bound

(***************************************************************************)
(* An agent nobody is calling is running with everything in place, stopped *)
(* with everything released, so that start() can work again, or deaf: from *)
(* a start() whose thread could not be created until the next stop() it    *)
(* says it runs, keeps the socket and has no receiver (agent.cpp:42-71).   *)
(***************************************************************************)
Settled == alive /\ ~terminated /\ \A c \in Callers : pc[c] = "idle"

StoppedMeansReleased ==
    Settled /\ ~running => handle = NoThread /\ ~bound

RunningMeansReceiving ==
    Settled /\ running => bound /\ (handle = NoThread <=> deaf)

\* Both: what running_ says of an agent between calls is the case
\* (agent.cpp:42-71).
SettledMeansComplete == StoppedMeansReleased /\ RunningMeansReceiving

\* start(), stop() and the destructor never reach std::terminate
\* (agent.cpp:54, 67, 38).
NeverTerminates == ~terminated

\* A port once known stays the agent's port: a restart binds the port the OS
\* gave to the first start (agent.cpp:47-51).
PortIsSticky == [][port # 0 => port' = port]_vars

\* The thread is created over an open socket and joined before the socket is
\* closed (agent.cpp:47-54, 64-70).  The agent owns it from its creation on.
OwnsWorker == handle # NoThread \/ \E c \in Callers : fresh[c] # NoThread

Resources == INSTANCE AgentResources WITH socket <- bound, worker <- OwnsWorker
ResourceOrder == Resources!Spec

\* A call of stop() returns: the receiver notices the flag within a poll and
\* the join succeeds (agent.cpp:59-71, 332).
StopReturns ==
    \A c \in Callers : pc[c] \in StopLabels ~> pc[c] \in {"idle", "gone"}

\* A handler's call of stop() returns to the handler's loop, on the receiver
\* that joins itself too: that join throws (agent.cpp:66-68, 352).
HandlerStopReturns ==
    \A r \in Receivers :
        pc[r] \in StopLabels ~> pc[r] \notin StopLabels \/ terminated
=============================================================================
