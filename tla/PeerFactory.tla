---------------------------- MODULE PeerFactory ----------------------------
(***************************************************************************)
(* The program smart_factory_p2p (src/examples/smart_factory_p2p.cpp): a   *)
(* coordinator and the stations of a factory, each a UACPAgent run by a    *)
(* thread of its own, and a main thread that ends them all.  The           *)
(* coordinator tells every station its order, cycle after cycle; the       *)
(* handler of a station does the job, tells the coordinator, and answers.  *)
(*                                                                         *)
(* Of an agent (src/src/agent.cpp) the program needs start(), stop(), the  *)
(* receiver's loop and the dispatch to a topic handler.  Abstracted: what  *)
(* is printed, and how long threads sleep, since a sleep orders nothing.   *)
(* Datagrams on the loopback are lost (a full buffer, a port that is not   *)
(* bound) and overtake each other, and are not duplicated.                 *)
(***************************************************************************)
EXTENDS TopicMatch

CONSTANTS
    Coordinator,
    Route,          \* the stations, in the order in which they get their orders
    Cycles,         \* production cycles, 5 in the program
    StartsMayFail   \* may a port be taken, so that start() fails?

Stations == {Route[i] : i \in 1..Len(Route)}
Agents == Stations \cup {Coordinator}

ASSUME FactoryAssumption ==
    /\ Route \in Seq(Stations) /\ Route # <<>>
    /\ \A i, j \in 1..Len(Route) : Route[i] = Route[j] => i = j
    /\ Coordinator \notin Stations
    /\ Cycles \in Nat /\ StartsMayFail \in BOOLEAN

VARIABLES
    running,      \* the global flag "running"
    interrupted,  \* history: SIGINT has come
    main,         \* what the main thread waits for or does next
    thread,       \* where the thread of an agent is
    up,           \* running_ of an agent
    receiver,     \* where the receiver thread of an agent is
    hand,         \* the message a receiver handles, or NoMessage
    cycle, next,  \* the coordinator's cycle, and whose order is next: 0 between cycles
    net,          \* the datagrams in flight
    done          \* the cycles for which a station did its job

vars == <<running, interrupted, main, thread, up, receiver, hand, cycle, next, net, done>>
programVars == <<running, interrupted, main>>
orderVars == <<cycle, next>>
receiverVars == <<receiver, hand, done>>

MainStages == {"joinsCoordinator", "clears", "joinsStations", "ended"}
ThreadStages == {"starts", "works", "stopping", "gone"}
HandlerStages == {"working", "telling", "answering"}
ReceiverStages == {"none", "polling", "exited"} \cup HandlerStages

NoTopic == <<>>
Topics == {NoTopic} \cup {<<"factory", s, what>> : s \in Stations, what \in {"command", "status"}}
Messages == [topic : Topics, src : Agents, dst : Agents, cycle : 0..Cycles]

\* The messages of a cycle differ in their payloads and ids.
Message(topic, a, b, c) == [topic |-> topic, src |-> a, dst |-> b, cycle |-> c]
Command(s, c) == Message(<<"factory", s, "command">>, Coordinator, s, c)
Status(s, c) == Message(<<"factory", s, "status">>, s, Coordinator, c)

\* Mutant: the response takes the topic of the request along.
Bug_ResponseKeepsTopic(m) == Message(m.topic, m.dst, m.src, m.cycle)

\* A response has no options, so that it finds no topic handler.
createResponse(m) == Message(NoTopic, m.dst, m.src, m.cycle)

NoMessage == Message(NoTopic, Coordinator, Coordinator, 0)

\* The pattern under which an agent registers its handler.
pattern(a) == IF a = Coordinator THEN <<"factory", "#">> ELSE <<"factory", a, "#">>

Handles(a, m) == m.topic # NoTopic /\ topicMatches(pattern(a), m.topic)

Init ==
    /\ running = TRUE /\ interrupted = FALSE
    /\ main = "joinsCoordinator"
    /\ thread = [a \in Agents |-> "starts"]
    /\ up = [a \in Agents |-> FALSE]
    /\ receiver = [a \in Agents |-> "none"]
    /\ hand = [a \in Agents |-> NoMessage]
    /\ cycle = 0 /\ next = 0
    /\ net = {}
    /\ done = [s \in Stations |-> {}]

Goto(a, stage) == thread' = [thread EXCEPT ![a] = stage]

-----------------------------------------------------------------------------
(* The main thread and SIGINT *)

\* Mutant: main does not wait for the coordinator.
Bug_MainSkipsJoin ==
    /\ main = "joinsCoordinator"
    /\ main' = "clears"
    /\ UNCHANGED <<running, interrupted, thread, up, receiverVars, orderVars, net>>

MainJoinsCoordinator ==
    /\ main = "joinsCoordinator" /\ thread[Coordinator] = "gone"
    /\ main' = "clears"
    /\ UNCHANGED <<running, interrupted, thread, up, receiverVars, orderVars, net>>

\* Mutant: nobody clears the flag.
Bug_MainForgetsFlag ==
    /\ main = "clears"
    /\ main' = "joinsStations"
    /\ UNCHANGED <<running, interrupted, thread, up, receiverVars, orderVars, net>>

MainClears ==
    /\ main = "clears"
    /\ running' = FALSE /\ main' = "joinsStations"
    /\ UNCHANGED <<interrupted, thread, up, receiverVars, orderVars, net>>

MainJoinsStations ==
    /\ main = "joinsStations" /\ \A s \in Stations : thread[s] = "gone"
    /\ main' = "ended"
    /\ UNCHANGED <<running, interrupted, thread, up, receiverVars, orderVars, net>>

\* signalHandler, at any time.
Interrupt ==
    /\ main # "ended" /\ ~interrupted
    /\ running' = FALSE /\ interrupted' = TRUE
    /\ UNCHANGED <<main, thread, up, receiverVars, orderVars, net>>

-----------------------------------------------------------------------------
(* The thread of an agent *)

\* The agent is bound and its receiver runs.
Start(a) ==
    /\ thread[a] = "starts"
    /\ Goto(a, "works")
    /\ up' = [up EXCEPT ![a] = TRUE]
    /\ receiver' = [receiver EXCEPT ![a] = "polling"]
    /\ UNCHANGED <<programVars, hand, done, orderVars, net>>

StartFails(a) ==
    /\ StartsMayFail /\ thread[a] = "starts"
    /\ Goto(a, "gone")
    /\ UNCHANGED <<programVars, up, receiverVars, orderVars, net>>

\* The coordinator looks at the flag between cycles only.
BeginCycle ==
    /\ thread[Coordinator] = "works" /\ next = 0
    /\ running /\ cycle < Cycles
    /\ cycle' = cycle + 1 /\ next' = 1
    /\ UNCHANGED <<programVars, thread, up, receiverVars, net>>

\* Mutant: the loop runs past the last station.
Bug_OrderPastRoute ==
    /\ thread[Coordinator] = "works" /\ next \in 1..Len(Route)
    /\ net' = net \cup {Command(Route[next], cycle)}
    /\ next' = next + 1
    /\ UNCHANGED <<programVars, thread, up, receiverVars, cycle>>

GiveOrder ==
    /\ thread[Coordinator] = "works" /\ next # 0
    /\ net' = net \cup {Command(Route[next], cycle)}
    /\ next' = IF next = Len(Route) THEN 0 ELSE next + 1
    /\ UNCHANGED <<programVars, thread, up, receiverVars, cycle>>

\* The loop of the thread is over.
LeavesLoop(a) ==
    /\ thread[a] = "works"
    /\ IF a = Coordinator THEN next = 0 /\ (~running \/ cycle = Cycles) ELSE ~running

\* stop() begins: running_ is cleared.
Stop(a) ==
    /\ LeavesLoop(a)
    /\ Goto(a, "stopping")
    /\ up' = [up EXCEPT ![a] = FALSE]
    /\ UNCHANGED <<programVars, receiverVars, orderVars, net>>

\* Mutant: no stop() before the return, or a stop() that joins nobody.
Bug_ReturnsWithoutJoin(a) ==
    /\ thread[a] = "stopping"
    /\ Goto(a, "gone")
    /\ UNCHANGED <<programVars, up, receiverVars, orderVars, net>>

\* stop() joins the receiver and closes the socket, and the function
\* returns: its locals die, the last declared first, and ~UACPAgent finds
\* nothing left to stop.
Return(a) ==
    /\ thread[a] = "stopping" /\ receiver[a] = "exited"
    /\ Goto(a, "gone")
    /\ UNCHANGED <<programVars, up, receiverVars, orderVars, net>>

-----------------------------------------------------------------------------
(* The receiver of an agent *)

At(a, stage) == receiver' = [receiver EXCEPT ![a] = stage]

\* A poll is over, with or without a message to handle, and the loop looks
\* at running_ before the next.
Again(a) == At(a, IF up[a] THEN "polling" ELSE "exited")

PollTimesOut(a) ==
    /\ receiver[a] = "polling" /\ ~up[a]
    /\ Again(a)
    /\ UNCHANGED <<programVars, thread, up, hand, done, orderVars, net>>

\* A TELL without a handler leads to no response, as its QoS is 0.
Receive(a, m) ==
    /\ receiver[a] = "polling" /\ m.dst = a
    /\ net' = net \ {m}
    /\ IF Handles(a, m)
       THEN /\ hand' = [hand EXCEPT ![a] = m]
            /\ At(a, IF a = Coordinator THEN "answering" ELSE "working")
       ELSE Again(a) /\ UNCHANGED hand
    /\ UNCHANGED <<programVars, thread, up, done, orderVars>>

\* The job, which in the warehouse adds to the local variable "inventory".
Work(s) ==
    /\ receiver[s] = "working"
    /\ done' = [done EXCEPT ![s] = @ \cup {hand[s].cycle}]
    /\ At(s, "telling")
    /\ UNCHANGED <<programVars, thread, up, hand, orderVars, net>>

TellCoordinator(s) ==
    /\ receiver[s] = "telling"
    /\ net' = net \cup {Status(s, hand[s].cycle)}
    /\ At(s, "answering")
    /\ UNCHANGED <<programVars, thread, up, hand, done, orderVars>>

\* The handler returns a response with a payload, which is sent.
Answer(a) ==
    /\ receiver[a] = "answering"
    /\ net' = net \cup {createResponse(hand[a])}
    /\ hand' = [hand EXCEPT ![a] = NoMessage]
    /\ Again(a)
    /\ UNCHANGED <<programVars, thread, up, done, orderVars>>

Lose(m) ==
    /\ net' = net \ {m}
    /\ UNCHANGED <<programVars, thread, up, receiverVars, orderVars>>

-----------------------------------------------------------------------------

MainStep == MainJoinsCoordinator \/ MainClears \/ MainJoinsStations

CoordinatorStep == BeginCycle \/ GiveOrder

ThreadStep(a) ==
    Start(a) \/ StartFails(a) \/ Stop(a) \/ Return(a)

StationHandler(s) == Work(s) \/ TellCoordinator(s)

ReceiverStep(a) ==
    \/ PollTimesOut(a) \/ Answer(a)
    \/ \E m \in net : Receive(a, m)

Next ==
    \/ MainStep \/ Interrupt \/ CoordinatorStep
    \/ \E a \in Agents : ThreadStep(a) \/ ReceiverStep(a)
    \/ \E s \in Stations : StationHandler(s)
    \/ \E m \in net : Lose(m)

Spec == Init /\ [][Next]_vars

\* Every thread is scheduled: a poll ends after 100 ms, and a sleep ends.
FairSpec ==
    /\ Spec
    /\ WF_vars(MainStep) /\ WF_vars(CoordinatorStep)
    /\ \A a \in Agents : WF_vars(ThreadStep(a)) /\ WF_vars(ReceiverStep(a))
    /\ \A s \in Stations : WF_vars(StationHandler(s))

-----------------------------------------------------------------------------
(* Properties *)

TypeOK ==
    /\ running \in BOOLEAN /\ interrupted \in BOOLEAN
    /\ main \in MainStages
    /\ thread \in [Agents -> ThreadStages]
    /\ up \in [Agents -> BOOLEAN]
    /\ receiver \in [Agents -> ReceiverStages]
    /\ hand \in [Agents -> Messages]
    /\ cycle \in 0..Cycles /\ next \in 0..Len(Route)
    /\ net \subseteq Messages
    /\ done \in [Stations -> SUBSET (1..Cycles)]

(***************************************************************************)
(* No handler runs once the function that registered it has returned:      *)
(* handlers capture the agent and, in the warehouse, "inventory" by        *)
(* reference, and "inventory" is declared after the agent, so that         *)
(* ~UACPAgent comes too late to stop them (smart_factory_p2p.cpp:179-211). *)
(***************************************************************************)
LocalsOutliveHandlers ==
    \A a \in Agents : receiver[a] \in HandlerStages => thread[a] \in {"works", "stopping"}

(***************************************************************************)
(* Without an interrupt no station stops while the coordinator still has   *)
(* orders to give or its own agent to stop (smart_factory_p2p.cpp:231-238, *)
(* 54, 206).                                                               *)
(***************************************************************************)
StationsStayForOrders ==
    \A s \in Stations :
        thread[s] = "stopping" => interrupted \/ thread[Coordinator] = "gone"

(***************************************************************************)
(* A station does the job of an order once: neither its own status report, *)
(* nor the coordinator's "Acknowledged", nor its response come back to it  *)
(* as an order, although each is a TELL under the topic factory/...        *)
(* (smart_factory_p2p.cpp:35-41, 183-197, message.cpp:176-183).            *)
(***************************************************************************)
OneJobPerOrder == [][\A s \in Stations : Work(s) => hand[s].cycle \notin done[s]]_vars

\* The program ends, interrupted or not, whatever starts fail and datagrams
\* get lost (smart_factory_p2p.cpp:230-244).
ProgramEnds == <>(main = "ended")
=============================================================================
