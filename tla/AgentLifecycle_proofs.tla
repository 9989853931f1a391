----------------------- MODULE AgentLifecycle_proofs -----------------------
(***************************************************************************)
(* Proofs about AgentLifecycle.  The first part holds for any number of    *)
(* user threads that stop the agent, one that starts it, and any handler;  *)
(* the second for an agent whose lifecycle one thread controls, the third  *)
(* for such an agent when no message handler calls stop().                 *)
(***************************************************************************)
EXTENDS AgentLifecycle, TLAPS

\* Once the destructor runs nobody else is inside a call, only the destructor
\* reaches the members, and the lifetime ends after the destructor began.
Destruction ==
    /\ destroyer # NoThread =>
          \A c \in Callers : /\ c # destroyer => pc[c] = "idle"
                             /\ pc[c] \notin StartLabels
    /\ \A c \in Callers : pc[c] = "members" => c = destroyer
    /\ ~alive => destroyer # NoThread

(***************************************************************************)
(* The temporary std::thread of a start() lives from its construction to   *)
(* its move; the two names are of different threads, both created.  With   *)
(* one starter receiver_thread_ is still empty when the move comes, even   *)
(* though others may have called stop() since the test.                    *)
(***************************************************************************)
Naming ==
    /\ \A c \in Callers : pc[c] \in StartLabels => c \in Starters
    /\ handle # NoThread => pc[handle] # "unborn"
    /\ ~terminated => \A c \in Callers :
        /\ fresh[c] # NoThread <=> pc[c] \in {"test", "assign"}
        /\ fresh[c] # NoThread => pc[fresh[c]] # "unborn" /\ fresh[c] # handle
        /\ pc[c] = "assign" => handle = NoThread

Inv == TypeOK /\ Destruction /\ Naming /\ NoOrphanReceiver /\ NoReceiverAfterDestruction

\* One user thread at most calls start().
OneStarter == \A c, d \in Starters : c = d

\* The type invariant holds initially: every thread starts on a label of its
\* kind and port_ is the constructor's port (agent.cpp:21-36).
LEMMA InitType == Init => TypeOK
  BY LifecycleAssumption
  DEF Init, TypeOK, Threads, Ports, CallerLabels, ReceiverLabels

\* Every step of every thread keeps the state well typed.
LEMMA StepType == TypeOK /\ [Next]_vars => TypeOK'
<1> SUFFICES ASSUME TypeOK, [Next]_vars PROVE TypeOK'
  OBVIOUS
<1> USE LifecycleAssumption
    DEF TypeOK, Threads, Ports, CallerLabels, ReceiverLabels, StartLabels,
        StopLabels, LoopLabels, Goto
<1>1. ASSUME NEW c \in Callers, Start(c) PROVE TypeOK'
  <2>1. CASE StartCheck(c) \/ StartBind(c) \/ StartBindFails(c)
    BY <1>1, <2>1 DEF StartCheck, StartBind, StartBindFails, MayCall
  <2>2. CASE StartPort(c) \/ StartFlag(c) \/ StartSpawnFails(c)
    BY <1>1, <2>2 DEF StartPort, StartFlag, StartSpawnFails
  <2>3. CASE StartSpawn(c)
    BY <1>1, <2>3 DEF StartSpawn
  <2>4. CASE StartTest(c)
    BY <1>1, <2>4 DEF StartTest
  <2>5. CASE StartAssign(c)
    BY <1>1, <2>5 DEF StartAssign
  <2> QED
    BY <1>1, <2>1, <2>2, <2>3, <2>4, <2>5 DEF Start
<1>2. ASSUME NEW t \in Threads, Stop(t) PROVE TypeOK'
  <2>1. CASE StopCheck(t) \/ StopUnflag(t)
    BY <1>2, <2>1 DEF StopCheck, StopUnflag, MayCall
  <2>2. CASE StopJoinable(t)
    BY <1>2, <2>2 DEF StopJoinable
  <2>3. CASE StopJoin(t)
    BY <1>2, <2>3 DEF StopJoin
  <2>4. CASE StopJoinThrows(t)
    BY <1>2, <2>4 DEF StopJoinThrows
  <2>5. CASE StopClose(t)
    BY <1>2, <2>5 DEF StopClose, AfterStop
  <2> QED
    BY <1>2, <2>1, <2>2, <2>3, <2>4, <2>5 DEF Stop
<1>3. ASSUME NEW c \in Callers, Destroy(c) \/ DestroyMembers(c) PROVE TypeOK'
  BY <1>3 DEF Destroy, DestroyMembers, MayCall
<1>4. ASSUME NEW r \in Receivers, ReceiverLoop(r) PROVE TypeOK'
  BY <1>4 DEF ReceiverLoop, LoopCheck, Receive, PollTimeout, PollData, HandlerReturns
<1>5. CASE UNCHANGED vars
  BY <1>5 DEF vars
<1>6. QED
  BY <1>1, <1>2, <1>3, <1>4, <1>5 DEF Next, CallerStep, ReceiverStep

\* The agent's fields and every thread's place stay within their types, for
\* any number of user threads and receiver threads (agent.cpp:42-71, 331-359).
THEOREM TypeCorrect == Spec => []TypeOK
<1>1. QED
  BY InitType, StepType, PTL DEF Spec

-----------------------------------------------------------------------------
(* One starter, any number of threads that call stop(), any handler *)

\* At first there is neither a receiver thread nor a socket (agent.cpp:21-36).
LEMMA InitInv == Init => Inv
  BY InitType, LifecycleAssumption
  DEF Init, Inv, Destruction, Naming, NoOrphanReceiver, NoReceiverAfterDestruction,
      Live, LoopLabels, StopLabels, StartLabels, Threads

\* Every step keeps a name for every receiver that runs
\* (agent.cpp:54, 66-68).
LEMMA StepInv == OneStarter => (Inv /\ [Next]_vars => Inv')
<1> SUFFICES ASSUME OneStarter, Inv, [Next]_vars PROVE Inv'
  OBVIOUS
<1>0. TypeOK'
  BY StepType DEF Inv
<1> USE LifecycleAssumption
    DEF OneStarter, Inv, TypeOK, Destruction, Naming, NoOrphanReceiver,
        NoReceiverAfterDestruction, Live, Threads, CallerLabels, ReceiverLabels,
        StartLabels, StopLabels, LoopLabels, Goto
<1>1. ASSUME NEW c \in Callers, Start(c), ~terminated PROVE Inv'
  <2>1. CASE StartSpawn(c)
    BY <1>0, <1>1, <2>1 DEF StartSpawn
  <2>2. CASE StartTest(c)
    BY <1>0, <1>1, <2>2 DEF StartTest
  <2>3. CASE StartAssign(c)
    BY <1>0, <1>1, <2>3 DEF StartAssign
  <2>4. CASE StartCheck(c)
    BY <1>0, <1>1, <2>4 DEF StartCheck, MayCall
  <2>5. CASE StartBind(c) \/ StartBindFails(c)
    BY <1>0, <1>1, <2>5 DEF StartBind, StartBindFails
  <2>6. CASE StartPort(c) \/ StartFlag(c) \/ StartSpawnFails(c)
    BY <1>0, <1>1, <2>6 DEF StartPort, StartFlag, StartSpawnFails
  <2> QED
    BY <1>1, <2>1, <2>2, <2>3, <2>4, <2>5, <2>6 DEF Start
<1>2. ASSUME NEW t \in Threads, Stop(t), ~terminated PROVE Inv'
  <2>1. CASE StopCheck(t)
    BY <1>0, <1>2, <2>1 DEF StopCheck, MayCall
  <2>2. CASE StopUnflag(t) \/ StopJoinable(t)
    BY <1>0, <1>2, <2>2 DEF StopUnflag, StopJoinable
  <2>3. CASE StopJoin(t)
    BY <1>0, <1>2, <2>3 DEF StopJoin
  <2>4. CASE StopJoinThrows(t)
    BY <1>0, <1>2, <2>4 DEF StopJoinThrows
  <2>5. CASE StopClose(t)
    BY <1>0, <1>2, <2>5 DEF StopClose, AfterStop
  <2> QED
    BY <1>2, <2>1, <2>2, <2>3, <2>4, <2>5 DEF Stop
<1>3. ASSUME NEW c \in Callers, Destroy(c), ~terminated PROVE Inv'
  BY <1>0, <1>3 DEF Destroy, MayCall
<1>4. ASSUME NEW c \in Callers, DestroyMembers(c), ~terminated PROVE Inv'
  BY <1>0, <1>4 DEF DestroyMembers
<1>5. ASSUME NEW r \in Receivers, ReceiverLoop(r), ~terminated PROVE Inv'
  BY <1>0, <1>5 DEF ReceiverLoop, LoopCheck, Receive, PollTimeout, PollData, HandlerReturns
<1>6. CASE UNCHANGED vars
  BY <1>0, <1>6 DEF vars
<1>7. QED
  BY <1>1, <1>2, <1>3, <1>4, <1>5, <1>6 DEF Next, CallerStep, ReceiverStep

\* Whoever stops the agent and whatever the handlers do, a receiver that runs
\* has a name a stop() can join, or start() is about to give it one: with one
\* starter no thread is lost (agent.cpp:54, 66-68).
THEOREM NoOrphan == ASSUME OneStarter PROVE Spec => []NoOrphanReceiver
<1>1. Inv => NoOrphanReceiver
  BY DEF Inv
<1>2. Inv /\ [Next]_vars => Inv'
  BY StepInv
<1>3. QED
  BY <1>1, <1>2, InitInv, PTL DEF Spec

\* No receiver thread outlives the agent it works for (agent.cpp:38-40).
THEOREM ReceiverDiesFirst == ASSUME OneStarter PROVE Spec => []NoReceiverAfterDestruction
<1>1. Inv => NoReceiverAfterDestruction
  BY DEF Inv
<1>2. Inv /\ [Next]_vars => Inv'
  BY StepInv
<1>3. QED
  BY <1>1, <1>2, InitInv, PTL DEF Spec

\* Every receiver thread is accounted for, whoever stops the agent
\* (agent.cpp:38-40, 54, 66-68).
THEOREM AllAccounted == ASSUME OneStarter PROVE Spec => []ReceiversAccounted
<1>1. NoOrphanReceiver /\ NoReceiverAfterDestruction => ReceiversAccounted
  BY DEF ReceiversAccounted
<1>2. QED
  BY <1>1, NoOrphan, ReceiverDiesFirst, PTL

-----------------------------------------------------------------------------
(* One thread controls the lifecycle; handlers may call stop() *)

OneOwner == \A c, d \in Callers : c = d

(***************************************************************************)
(* What the owner's place in a call says of the socket, and how far a      *)
(* handler's stop() gets: while receiver_thread_ names the receiver, to    *)
(* the join on itself, which throws; between the creation of the receiver  *)
(* and the move that names it, to the close, as the only receiver.         *)
(***************************************************************************)
Window ==
    ~terminated =>
        /\ \A c \in Callers : pc[c] \in {"port", "flag", "spawn"} => bound
        /\ \A c \in Callers : pc[c] \in {"test", "assign"} /\ running => bound
        /\ \A c \in Callers : pc[c] = "close" => handle = NoThread
        /\ \A c \in Callers, r \in Receivers :
              fresh[c] = r /\ pc[r] \in StopLabels =>
                  bound /\ (pc[r] # "unflag" => ~running)
        /\ \A r \in Receivers : pc[r] = "close" =>
              /\ bound /\ ~running
              /\ \A q \in Receivers : Live(q) => q = r
              /\ \A c \in Callers :
                    pc[c] \in {"idle", "bind", "test", "assign", "members", "gone"}

OwnerInv == Inv /\ Window

\* A constructed agent holds neither thread nor socket (agent.cpp:21-36).
LEMMA InitWindow == Init => OwnerInv
  BY InitInv, LifecycleAssumption DEF OwnerInv, Window, Init, Threads, StopLabels

\* With one owner every step keeps what is said of the window between the
\* creation of the receiver and its name (agent.cpp:47-54, 64-70).
LEMMA StepWindow == OneOwner => (OwnerInv /\ [Next]_vars => OwnerInv')
<1>o. OneOwner => OneStarter
  BY LifecycleAssumption DEF OneOwner, OneStarter
<1> SUFFICES ASSUME OneOwner, OwnerInv, [Next]_vars PROVE Window'
  BY <1>o, StepInv DEF OwnerInv
<1> USE LifecycleAssumption
    DEF OneOwner, OwnerInv, Inv, TypeOK, Naming, NoOrphanReceiver, Window,
        Live, Threads, CallerLabels, ReceiverLabels, StartLabels, StopLabels,
        LoopLabels, Goto
<1>1. ASSUME NEW c \in Callers, Start(c), ~terminated PROVE Window'
  <2>1. CASE StartCheck(c) \/ StartBind(c) \/ StartBindFails(c)
    BY <1>1, <2>1 DEF StartCheck, StartBind, StartBindFails, MayCall
  <2>2. CASE StartPort(c) \/ StartFlag(c) \/ StartSpawnFails(c)
    BY <1>1, <2>2 DEF StartPort, StartFlag, StartSpawnFails
  <2>3. CASE StartSpawn(c)
    BY <1>1, <2>3 DEF StartSpawn
  <2>4. CASE StartTest(c)
    BY <1>1, <2>4 DEF StartTest
  <2>5. CASE StartAssign(c)
    BY <1>1, <2>5 DEF StartAssign
  <2> QED
    BY <1>1, <2>1, <2>2, <2>3, <2>4, <2>5 DEF Start
<1>2. ASSUME NEW t \in Threads, Stop(t), ~terminated PROVE Window'
  <2>1. CASE StopCheck(t)
    BY <1>2, <2>1 DEF StopCheck, MayCall
  <2>2. CASE StopUnflag(t)
    BY <1>2, <2>2 DEF StopUnflag
  <2>3. CASE StopJoinable(t)
    BY <1>2, <2>3 DEF StopJoinable
  <2>4. CASE StopJoin(t)
    BY <1>2, <2>4 DEF StopJoin
  <2>5. CASE StopJoinThrows(t)
    BY <1>2, <2>5 DEF StopJoinThrows
  <2>6. CASE StopClose(t)
    BY <1>2, <2>6 DEF StopClose, AfterStop
  <2> QED
    BY <1>2, <2>1, <2>2, <2>3, <2>4, <2>5, <2>6 DEF Stop
<1>3. ASSUME NEW c \in Callers, Destroy(c) \/ DestroyMembers(c), ~terminated PROVE Window'
  BY <1>3 DEF Destroy, DestroyMembers, MayCall
<1>4. ASSUME NEW r \in Receivers, ReceiverLoop(r), ~terminated PROVE Window'
  BY <1>4 DEF ReceiverLoop, LoopCheck, Receive, PollTimeout, PollData, HandlerReturns
<1>5. CASE UNCHANGED vars
  BY <1>5 DEF vars
<1>6. QED
  BY <1>1, <1>2, <1>3, <1>4, <1>5 DEF Next, CallerStep, ReceiverStep

\* With one owner no step takes the socket from under a receiver in poll()
\* (agent.cpp:66-70, udp_transport.cpp:343).
LEMMA StepPolls == OneOwner => (OwnerInv /\ PollsBoundSocket /\ [Next]_vars => PollsBoundSocket')
<1> SUFFICES ASSUME OneOwner, OwnerInv, PollsBoundSocket, [Next]_vars PROVE PollsBoundSocket'
  OBVIOUS
<1> USE LifecycleAssumption
    DEF OneOwner, OwnerInv, Inv, TypeOK, Naming, NoOrphanReceiver, Window,
        PollsBoundSocket, Live, Threads, LoopLabels, StopLabels, Goto
<1>1. ASSUME NEW c \in Callers, Start(c) PROVE PollsBoundSocket'
  <2>1. CASE StartCheck(c) \/ StartBind(c) \/ StartBindFails(c)
    BY <1>1, <2>1 DEF StartCheck, StartBind, StartBindFails, MayCall
  <2>2. CASE StartPort(c) \/ StartFlag(c) \/ StartSpawnFails(c)
    BY <1>1, <2>2 DEF StartPort, StartFlag, StartSpawnFails
  <2>3. CASE StartSpawn(c)
    BY <1>1, <2>3 DEF StartSpawn
  <2>4. CASE StartTest(c)
    BY <1>1, <2>4 DEF StartTest
  <2>5. CASE StartAssign(c)
    BY <1>1, <2>5 DEF StartAssign
  <2> QED
    BY <1>1, <2>1, <2>2, <2>3, <2>4, <2>5 DEF Start
<1>2. ASSUME NEW t \in Threads, Stop(t), ~terminated PROVE PollsBoundSocket'
  BY <1>2 DEF Stop, StopCheck, StopUnflag, StopJoinable, StopJoin, StopJoinThrows,
     StopClose, AfterStop, MayCall
<1>3. ASSUME NEW c \in Callers, Destroy(c) \/ DestroyMembers(c), ~terminated PROVE PollsBoundSocket'
  BY <1>3 DEF Destroy, DestroyMembers, MayCall
<1>4. ASSUME NEW r \in Receivers, ReceiverLoop(r) PROVE PollsBoundSocket'
  BY <1>4 DEF ReceiverLoop, LoopCheck, Receive, PollTimeout, PollData, HandlerReturns
<1>5. CASE UNCHANGED vars
  BY <1>5 DEF vars
<1>6. QED
  BY <1>1, <1>2, <1>3, <1>4, <1>5 DEF Next, CallerStep, ReceiverStep

\* A receiver in poll() has a bound socket under it, even if handlers call
\* stop(): the handler of the receiver that is not named yet may close the
\* transport, but then no other receiver is there to poll (agent.cpp:54, 66-70).
THEOREM OwnerPolls == ASSUME OneOwner PROVE Spec => []PollsBoundSocket
<1>1. Init => PollsBoundSocket
  BY LifecycleAssumption DEF Init, PollsBoundSocket, Threads
<1>2. OwnerInv /\ [Next]_vars => OwnerInv'
  BY StepWindow
<1>3. OwnerInv /\ PollsBoundSocket /\ [Next]_vars => PollsBoundSocket'
  BY StepPolls
<1>4. QED
  BY <1>1, <1>2, <1>3, InitWindow, PTL DEF Spec

\* What start() writes to port_ is the port that is there, if there is one.
PortKnown == \A c \in Callers : pc[c] = "port" => port = 0 \/ localPort = port

\* With one owner nobody closes the socket between its bind and the writing of
\* port_ (agent.cpp:47-51).
LEMMA StepPort == OneOwner => (OwnerInv /\ PortKnown /\ [Next]_vars => PortKnown')
<1> SUFFICES ASSUME OneOwner, OwnerInv, PortKnown, [Next]_vars PROVE PortKnown'
  OBVIOUS
<1> USE LifecycleAssumption
    DEF OneOwner, OwnerInv, Inv, TypeOK, Window, PortKnown, Threads, Goto
<1>1. ASSUME NEW c \in Callers, Start(c), ~terminated PROVE PortKnown'
  <2>1. CASE StartCheck(c) \/ StartBind(c) \/ StartBindFails(c)
    BY <1>1, <2>1 DEF StartCheck, StartBind, StartBindFails, MayCall
  <2>2. CASE StartPort(c) \/ StartFlag(c) \/ StartSpawnFails(c)
    BY <1>1, <2>2 DEF StartPort, StartFlag, StartSpawnFails
  <2>3. CASE StartSpawn(c)
    BY <1>1, <2>3 DEF StartSpawn
  <2>4. CASE StartTest(c)
    BY <1>1, <2>4 DEF StartTest
  <2>5. CASE StartAssign(c)
    BY <1>1, <2>5 DEF StartAssign
  <2> QED
    BY <1>1, <2>1, <2>2, <2>3, <2>4, <2>5 DEF Start
<1>2. ASSUME NEW t \in Threads, Stop(t), ~terminated PROVE PortKnown'
  BY <1>2 DEF Stop, StopCheck, StopUnflag, StopJoinable, StopJoin, StopJoinThrows,
     StopClose, AfterStop, MayCall
<1>3. ASSUME NEW c \in Callers, Destroy(c) \/ DestroyMembers(c), ~terminated PROVE PortKnown'
  BY <1>3 DEF Destroy, DestroyMembers, MayCall
<1>4. ASSUME NEW r \in Receivers, ReceiverLoop(r), ~terminated PROVE PortKnown'
  BY <1>4 DEF ReceiverLoop, LoopCheck, Receive, PollTimeout, PollData, HandlerReturns
<1>5. CASE UNCHANGED vars
  BY <1>5 DEF vars
<1>6. QED
  BY <1>1, <1>2, <1>3, <1>4, <1>5 DEF Next, CallerStep, ReceiverStep

\* A restarted agent keeps the port it had, whatever its handlers do
\* (agent.cpp:47-51).
THEOREM OwnerPortSticky == ASSUME OneOwner PROVE Spec => PortIsSticky
<1>1. PortKnown /\ [Next]_vars => (port # 0 => port' = port)
  <2> SUFFICES ASSUME PortKnown, Next, port # 0 PROVE port' = port
    BY DEF vars
  <2>1. ASSUME NEW c \in Callers, StartPort(c) PROVE port' = port
    BY <2>1 DEF PortKnown, StartPort
  <2>2. QED
    BY <2>1 DEF Next, CallerStep, ReceiverStep, Start, StartCheck, StartBind,
       StartBindFails, StartFlag, StartSpawn, StartSpawnFails, StartTest, StartAssign, Stop, StopCheck,
       StopUnflag, StopJoinable, StopJoin, StopJoinThrows, StopClose, Destroy,
       DestroyMembers, ReceiverLoop, LoopCheck, Receive, PollTimeout, PollData,
       HandlerReturns
<1>2. Init => PortKnown
  BY LifecycleAssumption DEF Init, PortKnown, Threads
<1>3. OwnerInv /\ [Next]_vars => OwnerInv'
  BY StepWindow
<1>4. OwnerInv /\ PortKnown /\ [Next]_vars => PortKnown'
  BY StepPort
<1>5. QED
  BY <1>1, <1>2, <1>3, <1>4, InitWindow, PTL DEF Spec, PortIsSticky

-----------------------------------------------------------------------------
(* One owner, and no handler calls stop() *)

\* What the fields hold at each place of the owner's calls.
Place ==
    /\ ~terminated
    /\ \A r \in Receivers : pc[r] \notin StopLabels
    /\ alive => \A c \in Callers :
        /\ pc[c] \in {"idle"} \cup StartLabels => destroyer = NoThread
        /\ pc[c] = "idle" /\ running => bound /\ (handle = NoThread <=> deaf)
        /\ pc[c] = "idle" /\ ~running => ~bound /\ handle = NoThread /\ ~deaf
        /\ pc[c] = "bind" => ~running /\ ~bound /\ handle = NoThread /\ ~deaf
        /\ pc[c] \in {"port", "flag"} => ~running /\ bound /\ handle = NoThread /\ ~deaf
        /\ pc[c] \in {"spawn", "test", "assign"} =>
              running /\ bound /\ handle = NoThread /\ ~deaf
        /\ pc[c] = "unflag" => running /\ bound
        /\ pc[c] \in {"joinable", "join", "close"} => ~running /\ bound /\ ~deaf
        /\ pc[c] = "join" => handle # NoThread
        /\ pc[c] = "close" => handle = NoThread
        /\ pc[c] = "members" => ~running /\ ~bound /\ handle = NoThread
        /\ pc[c] # "gone"
    /\ ~alive => \A c \in Callers : pc[c] = "gone"

PlaceInv == OwnerInv /\ Place

\* Nobody is inside start() or stop() at first.
LEMMA InitPlace == Init => PlaceInv
  BY InitWindow, LifecycleAssumption 
  DEF PlaceInv, Place, Init, Threads, StartLabels, StopLabels

\* With one owner, and handlers that do not stop their agent, every step keeps
\* what the fields say at each place of start() and stop() (agent.cpp:42-71).
LEMMA StepPlace == OneOwner /\ ~HandlerStops => (PlaceInv /\ [Next]_vars => PlaceInv')
<1> SUFFICES ASSUME OneOwner, ~HandlerStops, PlaceInv, [Next]_vars PROVE Place'
  BY StepWindow DEF PlaceInv
<1> USE LifecycleAssumption
    DEF OneOwner, PlaceInv, OwnerInv, Inv, TypeOK, Naming, Destruction, Place, Threads,
        CallerLabels, ReceiverLabels, StartLabels, StopLabels, LoopLabels, Goto
<1>1. ASSUME NEW c \in Callers, Start(c) PROVE Place'
  <2>1. CASE StartCheck(c) \/ StartBind(c) \/ StartBindFails(c)
    BY <1>1, <2>1 DEF StartCheck, StartBind, StartBindFails, MayCall
  <2>2. CASE StartPort(c) \/ StartFlag(c) \/ StartSpawnFails(c)
    BY <1>1, <2>2 DEF StartPort, StartFlag, StartSpawnFails
  <2>3. CASE StartSpawn(c)
    BY <1>1, <2>3 DEF StartSpawn
  <2>4. CASE StartTest(c)
    BY <1>1, <2>4 DEF StartTest
  <2>5. CASE StartAssign(c)
    BY <1>1, <2>5 DEF StartAssign
  <2> QED
    BY <1>1, <2>1, <2>2, <2>3, <2>4, <2>5 DEF Start
<1>2. ASSUME NEW t \in Threads, Stop(t) PROVE Place'
  <2>1. CASE StopCheck(t) \/ StopUnflag(t)
    BY <1>2, <2>1 DEF StopCheck, StopUnflag, MayCall
  <2>2. CASE StopJoinable(t) \/ StopJoin(t)
    BY <1>2, <2>2 DEF StopJoinable, StopJoin
  <2>3. CASE StopJoinThrows(t)
    BY <1>2, <2>3 DEF StopJoinThrows
  <2>4. CASE StopClose(t)
    BY <1>2, <2>4 DEF StopClose, AfterStop
  <2>5. QED
    BY <1>2, <2>1, <2>2, <2>3, <2>4 DEF Stop
<1>3. ASSUME NEW c \in Callers, Destroy(c) \/ DestroyMembers(c) PROVE Place'
  BY <1>3 DEF Destroy, DestroyMembers, MayCall
<1>4. ASSUME NEW r \in Receivers, ReceiverLoop(r) PROVE Place'
  BY <1>4 DEF ReceiverLoop, LoopCheck, Receive, PollTimeout, PollData, HandlerReturns
<1>5. CASE UNCHANGED vars
  BY <1>5 DEF vars
<1>6. QED
  BY <1>1, <1>2, <1>3, <1>4, <1>5 DEF Next, CallerStep, ReceiverStep, Threads

(***************************************************************************)
(* With one owner, and handlers that do not stop their agent, the agent    *)
(* creates its thread over an open socket and joins it before it closes    *)
(* the socket (agent.cpp:47-54, 64-70): the lifecycle implements           *)
(* AgentResources.                                                         *)
(***************************************************************************)
THEOREM OrderImplemented == ASSUME OneOwner, ~HandlerStops PROVE Spec => ResourceOrder
<1>1. Init => Resources!Init
  BY DEF Init, Resources!Init, OwnsWorker
<1>2. ASSUME PlaceInv, Next
      PROVE  Resources!Next \/ UNCHANGED <<bound, OwnsWorker>>
  <2> USE LifecycleAssumption
      DEF OneOwner, PlaceInv, OwnerInv, Inv, TypeOK, Naming, Destruction, Place,
          OwnsWorker, Threads, StartLabels, StopLabels, Resources!Next
  <2>open. ASSUME NEW c \in Callers, StartBind(c) PROVE Resources!OpenSocket
    BY <1>2, <2>open DEF StartBind, Resources!OpenSocket
  <2>create. ASSUME NEW c \in Callers, StartSpawn(c) PROVE Resources!CreateWorker
    BY <1>2, <2>create DEF StartSpawn, Resources!CreateWorker
  <2>name. ASSUME NEW c \in Callers, StartTest(c) \/ StartAssign(c)
           PROVE  UNCHANGED <<bound, OwnsWorker>>
    BY <1>2, <2>name DEF StartTest, StartAssign
  <2>join. ASSUME NEW t \in Threads, StopJoin(t) PROVE Resources!JoinWorker
    BY <1>2, <2>join DEF StopJoin, Resources!JoinWorker
  <2>close. ASSUME \/ \E t \in Threads : StopClose(t)
                   \/ \E c \in Callers : DestroyMembers(c)
            PROVE  Resources!CloseSocket \/ UNCHANGED <<bound, OwnsWorker>>
    BY <1>2, <2>close DEF StopClose, DestroyMembers, Resources!CloseSocket
  <2>call. ASSUME NEW c \in Callers,
                  \/ StartCheck(c) \/ StartBindFails(c) \/ StartPort(c)
                  \/ StartFlag(c) \/ StartSpawnFails(c) \/ Destroy(c)
           PROVE  UNCHANGED <<bound, handle, fresh>>
    BY <2>call DEF StartCheck, StartBindFails, StartPort, StartFlag, StartSpawnFails, Destroy
  <2>stop. ASSUME NEW t \in Threads,
                  StopCheck(t) \/ StopUnflag(t) \/ StopJoinable(t) \/ StopJoinThrows(t)
           PROVE  UNCHANGED <<bound, handle, fresh>>
    BY <2>stop DEF StopCheck, StopUnflag, StopJoinable, StopJoinThrows
  <2>loop. ASSUME NEW r \in Receivers, ReceiverLoop(r) PROVE UNCHANGED <<bound, handle, fresh>>
    BY <2>loop DEF ReceiverLoop, LoopCheck, Receive, PollTimeout, PollData, HandlerReturns
  <2> QED
    BY <1>2, <2>open, <2>create, <2>name, <2>join, <2>close, <2>call, <2>stop, <2>loop
    DEF Next, CallerStep, ReceiverStep, Start, Stop
<1>3. PlaceInv /\ [Next]_vars => [Resources!Next]_<<bound, OwnsWorker>>
  BY <1>2 DEF vars, OwnsWorker
<1>4. QED
  BY <1>1, <1>3, StepPlace, InitPlace, PTL DEF Spec, ResourceOrder, Resources!Spec

\* start(), stop() and the destructor never reach std::terminate
\* (agent.cpp:38, 54, 67).
THEOREM OwnerNeverTerminates ==
  ASSUME OneOwner, ~HandlerStops PROVE Spec => []NeverTerminates
<1>1. PlaceInv => NeverTerminates
  BY DEF PlaceInv, Place, NeverTerminates
<1>2. PlaceInv /\ [Next]_vars => PlaceInv'
  BY StepPlace
<1>3. QED
  BY <1>1, <1>2, InitPlace, PTL DEF Spec

\* Between calls a stopped agent holds neither thread nor socket
\* (agent.cpp:59-71).
THEOREM OwnerReleases ==
  ASSUME OneOwner, ~HandlerStops, Callers # {} PROVE Spec => []StoppedMeansReleased
<1>1. PlaceInv => StoppedMeansReleased
  BY DEF PlaceInv, Place, StoppedMeansReleased, Settled
<1>2. PlaceInv /\ [Next]_vars => PlaceInv'
  BY StepPlace
<1>3. QED
  BY <1>1, <1>2, InitPlace, PTL DEF Spec

\* Between calls a running agent holds its socket and its receiver; only after
\* a start() that could not create the receiver, and until the next stop(), is
\* the receiver missing (agent.cpp:42-57).
THEOREM OwnerReceives ==
  ASSUME OneOwner, ~HandlerStops, Callers # {} PROVE Spec => []RunningMeansReceiving
<1>1. PlaceInv => RunningMeansReceiving
  BY DEF PlaceInv, Place, RunningMeansReceiving, Settled
<1>2. PlaceInv /\ [Next]_vars => PlaceInv'
  BY StepPlace
<1>3. QED
  BY <1>1, <1>2, InitPlace, PTL DEF Spec

\* Between calls of one owner, running_ tells what the agent holds
\* (agent.cpp:42-71).
THEOREM OwnerSettled ==
  ASSUME OneOwner, ~HandlerStops, Callers # {} PROVE Spec => []SettledMeansComplete
<1>1. StoppedMeansReleased /\ RunningMeansReceiving => SettledMeansComplete
  BY DEF SettledMeansComplete
<1>2. QED
  BY <1>1, OwnerReleases, OwnerReceives, PTL

-----------------------------------------------------------------------------
(* The join in stop() comes to its end *)

(***************************************************************************)
(* Who waits in join() waits for a thread that can move or has returned:   *)
(* running_ is clear, receiver_thread_ names a thread, and that thread is  *)
(* in its loop, where no step waits for another thread (agent.cpp:64-68).  *)
(***************************************************************************)
JoinHasItsThread ==
    \A c \in Callers : pc[c] = "join" =>
        /\ ~running
        /\ handle \in Receivers
        /\ pc[handle] \in LoopLabels \cup {"exited"}

\* With one owner, and handlers that do not stop their agent, stop() never
\* joins a thread that is not there or that waits for stop() itself
\* (agent.cpp:64-68).
THEOREM JoinIsSound ==
  ASSUME OneOwner, ~HandlerStops PROVE Spec => []JoinHasItsThread
<1>1. PlaceInv => JoinHasItsThread
  <2> SUFFICES ASSUME PlaceInv, NEW c \in Callers, pc[c] = "join"
               PROVE  ~running /\ handle \in Receivers
                      /\ pc[handle] \in LoopLabels \cup {"exited"}
    BY DEF JoinHasItsThread
  <2>1. alive
    BY DEF PlaceInv, Place
  <2>2. ~running /\ handle # NoThread
    BY <2>1 DEF PlaceInv, Place
  <2>3. handle \in Receivers
    BY <2>2 DEF PlaceInv, OwnerInv, Inv, TypeOK
  <2>4. pc[handle] \in LoopLabels \cup {"exited"}
    BY <2>2, <2>3 DEF PlaceInv, OwnerInv, Inv, TypeOK, Naming, Place, ReceiverLabels
  <2>5. QED
    BY <2>2, <2>3, <2>4
<1>2. PlaceInv /\ [Next]_vars => PlaceInv'
  BY StepPlace
<1>3. QED
  BY <1>1, <1>2, InitPlace, PTL DEF Spec

\* How many steps the joined thread is from the end of its loop, once
\* running_ is clear (agent.cpp:331-359).
StepsToExit ==
    CASE pc[handle] = "receive" -> 4
      [] pc[handle] = "poll" -> 3
      [] pc[handle] = "handle" -> 2
      [] pc[handle] = "loop" -> 1
      [] OTHER -> 0

(***************************************************************************)
(* While stop() waits in join(), every step of the agent brings the        *)
(* receiver nearer to its return, whatever datagrams arrive: it handles    *)
(* one message more at most (agent.cpp:67, 332-356).                       *)
(***************************************************************************)
JoinDrawsNear ==
    [][\A c \in Callers : pc[c] = "join" /\ pc'[c] = "join" =>
           StepsToExit' < StepsToExit]_vars

\* The join of a stop() by the one owner ends after at most four steps of the
\* receiver, which is why stop() returns (agent.cpp:64-71, 332).
THEOREM JoinEnds ==
  ASSUME OneOwner, ~HandlerStops PROVE Spec => JoinDrawsNear
<1>1. ASSUME PlaceInv, Next, NEW c \in Callers, pc[c] = "join", pc'[c] = "join"
      PROVE  StepsToExit' < StepsToExit
  <2>1. alive /\ ~running /\ handle # NoThread
    BY <1>1 DEF PlaceInv, Place
  <2>3. \A d \in Callers : d = c
    BY OneOwner DEF OneOwner
  <2>2. \A r \in Receivers : pc[r] \notin StopLabels /\ (pc[r] \in LoopLabels => handle = r)
    <3>1. \A d \in Callers : fresh[d] = NoThread
      BY <1>1, <2>3 DEF PlaceInv, Place, OwnerInv, Inv, Naming
    <3>2. QED
      BY <1>1, <3>1, LifecycleAssumption
      DEF PlaceInv, Place, OwnerInv, Inv, NoOrphanReceiver, Live
  <2>4. handle \in Receivers /\ pc \in [Threads -> CallerLabels \cup ReceiverLabels]
    BY <1>1, <2>1 DEF PlaceInv, OwnerInv, Inv, TypeOK
  <2>5. ASSUME NEW d \in Callers, CallerStep(d) PROVE FALSE
    <3>1. pc[d] = "join" /\ pc'[d] = "join"
      BY <1>1, <2>3
    <3>2. CASE StopJoin(d)
      BY <3>1, <3>2, <2>4 DEF StopJoin, Goto, Threads
    <3>3. CASE StopJoinThrows(d)
      BY <3>1, <3>3, <2>4, LifecycleAssumption DEF StopJoinThrows, Goto, Threads
    <3>4. QED
      BY <2>5, <3>1, <3>2, <3>3 DEF CallerStep, Start, StartCheck, StartBind,
         StartBindFails, StartPort, StartFlag, StartSpawn, StartSpawnFails, StartTest, StartAssign, MayCall,
         Stop, StopCheck, StopUnflag, StopJoinable, StopClose, Destroy, DestroyMembers
  <2>6. ASSUME NEW r \in Receivers, Stop(r) PROVE FALSE
    BY <2>1, <2>2, <2>6 DEF Stop, StopCheck, StopUnflag, StopJoinable, StopJoin,
       StopJoinThrows, StopClose, StopLabels
  <2>7. ASSUME NEW r \in Receivers, ReceiverLoop(r) PROVE StepsToExit' < StepsToExit
    <3>1. pc[r] \in LoopLabels
      BY <2>7 DEF ReceiverLoop, LoopCheck, Receive, PollTimeout, PollData,
         HandlerReturns, LoopLabels
    <3>2. handle = r /\ handle' = handle
      BY <2>2, <2>7, <3>1 DEF ReceiverLoop, LoopCheck, Receive, PollTimeout, PollData,
         HandlerReturns
    <3>3. \/ pc[r] = "loop" /\ pc'[r] = "exited"
          \/ pc[r] = "receive" /\ pc'[r] \in {"poll", "loop"}
          \/ pc[r] = "poll" /\ pc'[r] \in {"loop", "handle"}
          \/ pc[r] = "handle" /\ pc'[r] = "loop"
      BY <2>1, <2>4, <2>7 DEF ReceiverLoop, LoopCheck, Receive, PollTimeout, PollData,
         HandlerReturns, Goto, Threads
    <3>4. QED
      BY <3>2, <3>3 DEF StepsToExit
  <2>8. QED
    BY <1>1, <2>5, <2>6, <2>7 DEF Next, ReceiverStep
<1>2. ASSUME PlaceInv, [Next]_vars
      PROVE  [\A c \in Callers : pc[c] = "join" /\ pc'[c] = "join" =>
                  StepsToExit' < StepsToExit]_vars
  BY <1>1, <1>2
<1>3. PlaceInv /\ [Next]_vars => PlaceInv'
  BY StepPlace
<1>4. QED
  BY <1>2, <1>3, InitPlace, PTL DEF Spec, JoinDrawsNear
=============================================================================
