------------------------- MODULE PeerFactory_proofs -------------------------
(***************************************************************************)
(* Proofs about PeerFactory, for any number of stations and cycles.        *)
(***************************************************************************)
EXTENDS PeerFactory, TLAPS

USE FactoryAssumption

ThreadType ==
    /\ running \in BOOLEAN /\ interrupted \in BOOLEAN
    /\ main \in MainStages
    /\ thread \in [Agents -> ThreadStages]
    /\ up \in [Agents -> BOOLEAN]
    /\ receiver \in [Agents -> ReceiverStages]
    /\ cycle \in 0..Cycles /\ next \in 0..Len(Route)

MessageType ==
    /\ hand \in [Agents -> Messages]
    /\ net \subseteq Messages
    /\ done \in [Stations -> SUBSET (1..Cycles)]

(***************************************************************************)
(* Threads: a function that has not started its agent or has returned has  *)
(* no receiver that runs, and the flag is cleared by SIGINT or after the   *)
(* coordinator's thread was joined, which a station's stop() follows.      *)
(***************************************************************************)
ThreadInv ==
    /\ \A a \in Agents :
        /\ thread[a] = "starts" => receiver[a] = "none"
        /\ thread[a] = "gone" => receiver[a] \in {"none", "exited"}
    /\ main # "joinsCoordinator" => thread[Coordinator] = "gone"
    /\ ~running => interrupted \/ main # "joinsCoordinator"
    /\ \A s \in Stations : thread[s] = "stopping" => ~running

\* The coordinator has told station s to do the job of cycle c.
Issued(s, c) ==
    c < cycle \/ (c = cycle /\ (next = 0 \/ \E i \in 1..Len(Route) : i < next /\ Route[i] = s))

(***************************************************************************)
(* Messages: what asks a station for a job is an order the coordinator has *)
(* issued, and an order is either in flight, or in hand, or done.          *)
(***************************************************************************)
OrderInv ==
    /\ next > 0 => cycle > 0
    /\ \A m \in net : m.dst \in Stations /\ m.topic # NoTopic =>
        m = Command(m.dst, m.cycle) /\ m.cycle > 0
    /\ \A s \in Stations :
        /\ receiver[s] \in HandlerStages => hand[s] = Command(s, hand[s].cycle) /\ hand[s].cycle > 0
        /\ receiver[s] = "working" =>
            /\ hand[s].cycle \notin done[s]
            /\ Issued(s, hand[s].cycle)
            /\ hand[s] \notin net
        /\ \A c \in 1..Cycles : Command(s, c) \in net => Issued(s, c) /\ c \notin done[s]
        /\ \A c \in done[s] : Issued(s, c)

Inv == ThreadType /\ MessageType /\ ThreadInv /\ OrderInv

\* The members of the route are the stations.
LEMMA RouteFacts ==
  /\ Len(Route) \in Nat \ {0}
  /\ \A i \in 1..Len(Route) : Route[i] \in Stations
  /\ Stations \subseteq Agents /\ Coordinator \in Agents
<1>1. Len(Route) \in Nat \ {0}
  BY FactoryAssumption
<1>2. QED
  BY <1>1 DEF Stations, Agents

\* Each message the program builds is one.
LEMMA MessagesTyped ==
  /\ NoMessage \in Messages
  /\ \A s \in Stations, c \in 0..Cycles : Command(s, c) \in Messages /\ Status(s, c) \in Messages
  /\ \A m \in Messages : createResponse(m) \in Messages
<1> USE RouteFacts
<1>1. ASSUME NEW topic \in Topics, NEW a \in Agents, NEW b \in Agents, NEW c \in 0..Cycles
      PROVE  Message(topic, a, b, c) \in Messages
  BY DEF Messages, Message
<1>2. NoTopic \in Topics /\ \A s \in Stations, what \in {"command", "status"} :
         <<"factory", s, what>> \in Topics
  BY DEF Topics
<1>3. 0 \in 0..Cycles
  BY FactoryAssumption
<1>4. NoMessage \in Messages
  BY <1>1, <1>2, <1>3 DEF NoMessage
<1>5. ASSUME NEW s \in Stations, NEW c \in 0..Cycles
      PROVE  Command(s, c) \in Messages /\ Status(s, c) \in Messages
  BY <1>1, <1>2 DEF Command, Status
<1>6. ASSUME NEW m \in Messages
      PROVE  createResponse(m) \in Messages
  BY <1>1, <1>2 DEF createResponse, Messages
<1>7. QED
  BY <1>4, <1>5, <1>6

\* At first no thread runs and nothing was said.
LEMMA InitInv == Init => Inv
<1> SUFFICES ASSUME Init PROVE Inv
  OBVIOUS
<1> USE RouteFacts, MessagesTyped DEF Init
<1>1. ThreadType
  <2>1. 0 \in 0..Cycles /\ 0 \in 0..Len(Route)
    BY FactoryAssumption
  <2>2. QED
    BY <2>1 DEF ThreadType, MainStages, ThreadStages, ReceiverStages
<1>2. MessageType
  BY DEF MessageType
<1>3. ThreadInv
  BY DEF ThreadInv, Agents
<1>4. OrderInv
  BY DEF OrderInv, Agents, HandlerStages
<1>5. QED
  BY <1>1, <1>2, <1>3, <1>4 DEF Inv

\* What a station takes for an order is one.
LEMMA HandlesOrders ==
  ASSUME Inv, NEW s \in Stations, NEW m \in net, m.dst = s, Handles(s, m)
  PROVE  m = Command(s, m.cycle) /\ m.cycle \in 1..Cycles
<1>1. m.topic # NoTopic
  BY DEF Handles
<1>2. m = Command(m.dst, m.cycle) /\ m.cycle > 0
  BY <1>1 DEF Inv, OrderInv
<1>3. m.cycle \in 0..Cycles
  BY DEF Inv, MessageType, Messages
<1>4. QED
  BY <1>2, <1>3, FactoryAssumption

-----------------------------------------------------------------------------
(* Types *)

\* Every step keeps the types of the threads' variables.
LEMMA ThreadTypeStep ==
  ASSUME Inv, Next
  PROVE  ThreadType'
<1> USE RouteFacts DEF Inv, ThreadType, MainStages, ThreadStages, ReceiverStages, HandlerStages,
     programVars, orderVars, receiverVars, Goto, At, Again
<1>1. CASE MainStep
  BY <1>1 DEF MainStep, MainJoinsCoordinator, MainClears, MainJoinsStations
<1>2. CASE Interrupt
  BY <1>2 DEF Interrupt
<1>3. CASE BeginCycle
  BY <1>3 DEF BeginCycle
<1>4. CASE GiveOrder
  BY <1>4 DEF GiveOrder
<1>5. ASSUME NEW a \in Agents, ThreadStep(a) PROVE ThreadType'
  BY <1>5 DEF ThreadStep, Start, StartFails, Stop, LeavesLoop, Return
<1>6. ASSUME NEW a \in Agents, PollTimesOut(a) \/ Answer(a) PROVE ThreadType'
  BY <1>6 DEF PollTimesOut, Answer
<1>7. ASSUME NEW a \in Agents, NEW m \in net, Receive(a, m) PROVE ThreadType'
  BY <1>7 DEF Receive
<1>8. ASSUME NEW s \in Stations, StationHandler(s) PROVE ThreadType'
  BY <1>8 DEF StationHandler, Work, TellCoordinator
<1>9. ASSUME NEW m \in net, Lose(m) PROVE ThreadType'
  BY <1>9 DEF Lose
<1>10. QED
  BY <1>1, <1>2, <1>3, <1>4, <1>5, <1>6, <1>7, <1>8, <1>9 DEF Next, CoordinatorStep, ReceiverStep

\* Every step keeps the types of the messages and of what is done.
LEMMA MessageTypeStep ==
  ASSUME Inv, Next
  PROVE  MessageType'
<1> USE RouteFacts, MessagesTyped DEF Inv, MessageType, programVars, orderVars, receiverVars
<1>1. CASE MainStep
  BY <1>1 DEF MainStep, MainJoinsCoordinator, MainClears, MainJoinsStations
<1>2. CASE Interrupt
  BY <1>2 DEF Interrupt
<1>3. CASE BeginCycle
  BY <1>3 DEF BeginCycle
<1>4. CASE GiveOrder
  <2>1. next \in 1..Len(Route) /\ cycle \in 0..Cycles
    BY <1>4 DEF GiveOrder, ThreadType
  <2>2. Command(Route[next], cycle) \in Messages
    BY <2>1
  <2>3. QED
    BY <1>4, <2>2 DEF GiveOrder
<1>5. ASSUME NEW a \in Agents, ThreadStep(a) PROVE MessageType'
  BY <1>5 DEF ThreadStep, Start, StartFails, Stop, LeavesLoop, Return
<1>6. ASSUME NEW a \in Agents, PollTimesOut(a) PROVE MessageType'
  BY <1>6 DEF PollTimesOut
<1>7. ASSUME NEW a \in Agents, Answer(a) PROVE MessageType'
  <2>1. createResponse(hand[a]) \in Messages
    OBVIOUS
  <2>2. QED
    BY <1>7, <2>1 DEF Answer
<1>8. ASSUME NEW a \in Agents, NEW m \in net, Receive(a, m) PROVE MessageType'
  BY <1>8 DEF Receive
<1>9. ASSUME NEW s \in Stations, Work(s) PROVE MessageType'
  <2>1. hand[s].cycle \in 0..Cycles
    BY DEF Messages
  <2>2. hand[s].cycle > 0
    BY <1>9 DEF Work, OrderInv, HandlerStages
  <2>3. hand[s].cycle \in 1..Cycles
    BY <2>1, <2>2, FactoryAssumption
  <2>4. QED
    BY <1>9, <2>3 DEF Work
<1>10. ASSUME NEW s \in Stations, TellCoordinator(s) PROVE MessageType'
  <2>1. hand[s].cycle \in 0..Cycles
    BY DEF Messages
  <2>2. Status(s, hand[s].cycle) \in Messages
    BY <2>1
  <2>3. QED
    BY <1>10, <2>2 DEF TellCoordinator
<1>11. ASSUME NEW m \in net, Lose(m) PROVE MessageType'
  BY <1>11 DEF Lose
<1>12. QED
  BY <1>1, <1>2, <1>3, <1>4, <1>5, <1>6, <1>7, <1>8, <1>9, <1>10, <1>11
     DEF Next, CoordinatorStep, ReceiverStep, StationHandler

-----------------------------------------------------------------------------
(* Threads *)

\* Every step keeps what ties the threads to each other.
LEMMA ThreadInvStep ==
  ASSUME Inv, Next
  PROVE  ThreadInv'
<1> USE RouteFacts, FactoryAssumption DEF Inv, ThreadType, ThreadInv, ThreadStages, ReceiverStages,
     HandlerStages, MainStages, programVars, orderVars, receiverVars, Goto, At, Again
<1>1. CASE MainStep
  BY <1>1 DEF MainStep, MainJoinsCoordinator, MainClears, MainJoinsStations
<1>2. CASE Interrupt
  BY <1>2 DEF Interrupt
<1>3. CASE CoordinatorStep
  BY <1>3 DEF CoordinatorStep, BeginCycle, GiveOrder
<1>4. ASSUME NEW a \in Agents, Start(a) \/ StartFails(a) PROVE ThreadInv'
  BY <1>4 DEF Start, StartFails
<1>5. ASSUME NEW a \in Agents, Stop(a) PROVE ThreadInv'
  BY <1>5 DEF Stop, LeavesLoop
<1>6. ASSUME NEW a \in Agents, Return(a) PROVE ThreadInv'
  BY <1>6 DEF Return
<1>7. ASSUME NEW a \in Agents, PollTimesOut(a) \/ Answer(a) PROVE ThreadInv'
  BY <1>7 DEF PollTimesOut, Answer
<1>8. ASSUME NEW a \in Agents, NEW m \in net, Receive(a, m) PROVE ThreadInv'
  BY <1>8 DEF Receive
<1>9. ASSUME NEW s \in Stations, StationHandler(s) PROVE ThreadInv'
  BY <1>9 DEF StationHandler, Work, TellCoordinator
<1>10. ASSUME NEW m \in net, Lose(m) PROVE ThreadInv'
  BY <1>10 DEF Lose
<1>11. QED
  BY <1>1, <1>2, <1>3, <1>4, <1>5, <1>6, <1>7, <1>8, <1>9, <1>10 DEF Next, ThreadStep, ReceiverStep

-----------------------------------------------------------------------------
(* Orders *)

\* What tells an order from the other messages.
LEMMA MessageFacts ==
  /\ \A s \in Stations, c \in Nat :
      Command(s, c).dst = s /\ Command(s, c).cycle = c /\ Command(s, c).topic # NoTopic
  /\ \A s \in Stations, c \in Nat : Status(s, c).dst \notin Stations
  /\ \A m \in Messages : createResponse(m).topic = NoTopic
<1>1. \A s \in Stations : <<"factory", s, "command">> # <<>>
  OBVIOUS
<1>2. QED
  BY <1>1, FactoryAssumption DEF Command, Status, createResponse, Message, NoTopic

\* Steps that give no order and touch no message keep the invariant.
LEMMA OrdersUntouched ==
  ASSUME Inv, UNCHANGED <<cycle, next, net, hand, done>>,
         \A s \in Stations : receiver'[s] \in HandlerStages => receiver'[s] = receiver[s]
  PROVE  OrderInv'
<1>1. \A s \in Stations : receiver'[s] = "working" => receiver[s] = "working"
  BY DEF HandlerStages
<1>2. \A s, c : Issued(s, c)' <=> Issued(s, c)
  BY DEF Issued
<1>3. QED
  BY <1>1, <1>2 DEF Inv, OrderInv

\* A new cycle: what was issued stays issued.
LEMMA BeginCycleOrders ==
  ASSUME Inv, BeginCycle
  PROVE  OrderInv'
<1> USE RouteFacts DEF Inv, ThreadType
<1>1. cycle' = cycle + 1 /\ UNCHANGED <<net, hand, done, receiver>> /\ next' = 1
  BY DEF BeginCycle, receiverVars
<1>2. \A s \in Stations, c \in 0..Cycles : Issued(s, c) => Issued(s, c)'
  BY <1>1, FactoryAssumption DEF Issued, BeginCycle
<1>3. \A s \in Stations : hand[s].cycle \in 0..Cycles /\ done[s] \subseteq 0..Cycles
  BY FactoryAssumption DEF MessageType, Messages
<1>4. next' > 0 => cycle' > 0
  BY <1>1
<1>5. QED
  BY <1>1, <1>2, <1>3, <1>4, FactoryAssumption DEF OrderInv

\* An order is given: it was not issued before.
LEMMA GiveOrderOrders ==
  ASSUME Inv, GiveOrder
  PROVE  OrderInv'
<1> PICK r : r = Route[next]
  OBVIOUS
<1> PICK n : n = cycle
  OBVIOUS
<1> DEFINE o == Command(r, n)
<1>1. next \in 1..Len(Route) /\ n \in 1..Cycles /\ r \in Stations /\ n \in Nat
  <2>1. next \in 1..Len(Route) /\ next > 0
    BY RouteFacts DEF Inv, ThreadType, GiveOrder
  <2>2. cycle > 0 /\ cycle \in 0..Cycles
    BY <2>1 DEF Inv, ThreadType, OrderInv
  <2>3. QED
    BY <2>1, <2>2, RouteFacts, FactoryAssumption
<1>2. net' = net \cup {o} /\ UNCHANGED <<cycle, hand, done, receiver>>
  BY DEF GiveOrder, receiverVars
<1>3. ~Issued(r, n)
  BY <1>1, RouteFacts, FactoryAssumption DEF Issued
<1>4. \A s \in Stations, c \in 0..Cycles : Issued(s, c) => Issued(s, c)'
  BY <1>1, <1>2, RouteFacts, FactoryAssumption DEF Issued, GiveOrder
<1>5. Issued(r, n)'
  BY <1>1, <1>2, RouteFacts DEF Issued, GiveOrder
<1>6. \A s \in Stations : hand[s].cycle \in 0..Cycles /\ done[s] \subseteq 1..Cycles
  BY DEF Inv, MessageType, Messages, Agents
<1>7. o.dst = r /\ o.cycle = n /\ \A s \in Stations, c \in 0..Cycles :
         Command(s, c) = o => s = r /\ c = n
  BY <1>1, MessageFacts, FactoryAssumption
<1>8. \A m \in net' : m.dst \in Stations /\ m.topic # NoTopic =>
         m = Command(m.dst, m.cycle) /\ m.cycle > 0
  BY <1>1, <1>2, <1>7 DEF Inv, OrderInv
<1>9. ASSUME NEW s \in Stations
      PROVE  /\ receiver'[s] \in HandlerStages =>
                  hand'[s] = Command(s, hand'[s].cycle) /\ hand'[s].cycle > 0
             /\ receiver'[s] = "working" =>
                  /\ hand'[s].cycle \notin done'[s]
                  /\ Issued(s, hand[s].cycle)'
                  /\ hand'[s] \notin net'
  <2>1. receiver[s] = "working" => hand[s] # o
    BY <1>3, <1>6, <1>7 DEF Inv, OrderInv, HandlerStages
  <2>2. QED
    BY <1>2, <1>4, <1>6, <2>1 DEF Inv, OrderInv
<1>10. ASSUME NEW s \in Stations, NEW c \in 1..Cycles, Command(s, c) \in net'
       PROVE  Issued(s, c)' /\ c \notin done'[s]
  <2>1. CASE Command(s, c) \in net
    BY <1>2, <1>4, <2>1 DEF Inv, OrderInv
  <2>2. CASE Command(s, c) = o
    <3>1. s = r /\ c = n
      BY <1>7, <2>2
    <3>2. c \notin done[s]
      BY <1>3, <3>1 DEF Inv, OrderInv
    <3>3. QED
      BY <1>2, <1>5, <3>1, <3>2
  <2>3. QED
    BY <1>2, <1>10, <2>1, <2>2
<1>11. ASSUME NEW s \in Stations, NEW c \in done'[s] PROVE Issued(s, c)'
  BY <1>2, <1>4, <1>6 DEF Inv, OrderInv
<1>12. next' > 0 => cycle' > 0
  BY <1>1, <1>2
<1>13. QED
  BY <1>2, <1>8, <1>9, <1>10, <1>11, <1>12 DEF OrderInv

\* A receiver takes a message: an order that a station takes leaves the network.
LEMMA ReceiveOrders ==
  ASSUME Inv, NEW a \in Agents, NEW m \in net, Receive(a, m)
  PROVE  OrderInv'
<1> USE RouteFacts
<1>1. net' = net \ {m} /\ UNCHANGED <<done, cycle, next>>
  BY DEF Receive, orderVars
<1>2. \A s, c : Issued(s, c)' <=> Issued(s, c)
  BY <1>1 DEF Issued
<1>3. CASE a \in Stations /\ Handles(a, m)
  <2>1. a # Coordinator
    BY <1>3, FactoryAssumption
  <2>2. hand' = [hand EXCEPT ![a] = m] /\ receiver' = [receiver EXCEPT ![a] = "working"]
    BY <1>3, <2>1 DEF Receive, At
  <2>3. m = Command(a, m.cycle) /\ m.cycle \in 1..Cycles
    BY <1>3, HandlesOrders DEF Receive
  <2>4. Issued(a, m.cycle) /\ m.cycle \notin done[a]
    BY <1>3, <2>3 DEF Inv, OrderInv
  <2>5. hand \in [Agents -> Messages] /\ receiver \in [Agents -> ReceiverStages]
    BY DEF Inv, MessageType, ThreadType
  <2>6. ASSUME NEW s \in Stations
        PROVE  /\ receiver'[s] \in HandlerStages =>
                    hand'[s] = Command(s, hand'[s].cycle) /\ hand'[s].cycle > 0
               /\ receiver'[s] = "working" =>
                    /\ hand'[s].cycle \notin done'[s]
                    /\ Issued(s, hand[s].cycle)'
                    /\ hand'[s] \notin net'
    <3>1. CASE s = a
      BY <1>1, <1>2, <2>2, <2>3, <2>4, <2>5, <3>1
    <3>2. CASE s # a
      BY <1>1, <1>2, <2>2, <2>5, <3>2 DEF Inv, OrderInv
    <3>3. QED
      BY <3>1, <3>2
  <2>7. QED
    BY <1>1, <1>2, <2>6 DEF Inv, OrderInv
<1>4. CASE ~(a \in Stations /\ Handles(a, m))
  <2>1. receiver \in [Agents -> ReceiverStages] /\ hand \in [Agents -> Messages]
    BY DEF Inv, ThreadType, MessageType
  <2>2. \A s \in Stations : receiver'[s] \in HandlerStages =>
            receiver'[s] = receiver[s] /\ hand'[s] = hand[s]
    BY <1>4, <2>1 DEF Receive, At, Again, Agents, HandlerStages
  <2>3. \A s \in Stations : receiver'[s] = "working" => receiver[s] = "working"
    BY <2>2 DEF HandlerStages
  <2>4. \A s \in Stations : receiver'[s] = "working" => hand'[s] = hand[s]
    BY <2>2 DEF HandlerStages
  <2>5. QED
    BY <1>1, <1>2, <2>2, <2>3, <2>4 DEF Inv, OrderInv
<1>5. QED
  BY <1>3, <1>4

\* The job is done: its order is no longer in flight.
LEMMA WorkOrders ==
  ASSUME Inv, NEW s \in Stations, Work(s)
  PROVE  OrderInv'
<1> USE RouteFacts
<1> DEFINE c0 == hand[s].cycle
<1>1. /\ receiver[s] = "working" /\ UNCHANGED <<net, hand, cycle, next>>
      /\ done' = [done EXCEPT ![s] = @ \cup {c0}]
      /\ receiver' = [receiver EXCEPT ![s] = "telling"]
  BY DEF Work, At, orderVars
<1>2. \A t, c : Issued(t, c)' <=> Issued(t, c)
  BY <1>1 DEF Issued
<1>3. hand[s] = Command(s, c0) /\ Issued(s, c0) /\ hand[s] \notin net
  BY <1>1 DEF Inv, OrderInv, HandlerStages
<1>4. done \in [Stations -> SUBSET (1..Cycles)] /\ receiver \in [Agents -> ReceiverStages]
  BY DEF Inv, MessageType, ThreadType
<1>5. ASSUME NEW t \in Stations
      PROVE  /\ receiver'[t] \in HandlerStages =>
                  hand'[t] = Command(t, hand'[t].cycle) /\ hand'[t].cycle > 0
             /\ receiver'[t] = "working" =>
                  /\ hand'[t].cycle \notin done'[t]
                  /\ Issued(t, hand[t].cycle)'
                  /\ hand'[t] \notin net'
             /\ \A c \in 1..Cycles : Command(t, c) \in net' => Issued(t, c)' /\ c \notin done'[t]
             /\ \A c \in done'[t] : Issued(t, c)'
  <2>1. CASE t = s
    BY <1>1, <1>2, <1>3, <1>4, <2>1 DEF Inv, OrderInv, HandlerStages
  <2>2. CASE t # s
    BY <1>1, <1>2, <1>4, <2>2 DEF Inv, OrderInv
  <2>3. QED
    BY <2>1, <2>2
<1>6. QED
  BY <1>1, <1>5 DEF Inv, OrderInv

\* A datagram that is no order goes onto the network.
LEMMA OthersSent ==
  ASSUME Inv, NEW m, ~(m.dst \in Stations /\ m.topic # NoTopic),
         net' = net \cup {m}, UNCHANGED <<cycle, next, done>>,
         \A s \in Stations : receiver'[s] \in HandlerStages =>
             /\ hand'[s] = hand[s]
             /\ \/ receiver[s] \in HandlerStages /\ receiver'[s] # "working"
                \/ receiver'[s] = receiver[s]
  PROVE  OrderInv'
<1>1. \A s, c : Issued(s, c)' <=> Issued(s, c)
  BY DEF Issued
<1>2. \A s \in Stations, c \in Nat : Command(s, c) # m
  BY MessageFacts
<1>3. \A s \in Stations : hand[s].cycle \in Nat
  BY RouteFacts, FactoryAssumption DEF Inv, MessageType, Messages
<1>4. \A s \in Stations : receiver'[s] = "working" =>
          receiver[s] = "working" /\ hand'[s] = hand[s] /\ hand[s] # m
  BY <1>2, <1>3 DEF HandlerStages, Inv, OrderInv
<1>5. \A s \in Stations : receiver'[s] \in HandlerStages =>
          hand'[s] = Command(s, hand'[s].cycle) /\ hand'[s].cycle > 0
  BY DEF Inv, OrderInv
<1>6. \A s \in Stations, c \in 1..Cycles : Command(s, c) \in net' => Command(s, c) \in net
  BY <1>2, FactoryAssumption
<1>7. QED
  BY <1>1, <1>4, <1>5, <1>6 DEF Inv, OrderInv

\* Every step keeps the invariant of the orders.
LEMMA OrderInvStep ==
  ASSUME Inv, Next
  PROVE  OrderInv'
<1> USE RouteFacts
<1>1. receiver \in [Agents -> ReceiverStages] /\ hand \in [Agents -> Messages]
  BY DEF Inv, ThreadType, MessageType
<1>2. CASE MainStep \/ Interrupt
  BY <1>2, OrdersUntouched DEF MainStep, MainJoinsCoordinator, MainClears, MainJoinsStations,
     Interrupt, receiverVars, orderVars
<1>3. ASSUME NEW a \in Agents, ThreadStep(a) PROVE OrderInv'
  <2>1. UNCHANGED <<cycle, next, net, hand, done>>
    BY <1>3 DEF ThreadStep, Start, StartFails, Stop, Return, receiverVars, orderVars
  <2>2. \A s \in Stations : receiver'[s] \in HandlerStages => receiver'[s] = receiver[s]
    BY <1>1, <1>3 DEF ThreadStep, Start, StartFails, Stop, Return, receiverVars, HandlerStages
  <2>3. QED
    BY <2>1, <2>2, OrdersUntouched
<1>4. ASSUME NEW a \in Agents, PollTimesOut(a) PROVE OrderInv'
  <2>1. \A s \in Stations : receiver'[s] \in HandlerStages => receiver'[s] = receiver[s]
    BY <1>1, <1>4 DEF PollTimesOut, Again, At, HandlerStages
  <2>2. QED
    BY <1>4, <2>1, OrdersUntouched DEF PollTimesOut, orderVars
<1>5. ASSUME NEW a \in Agents, Answer(a) PROVE OrderInv'
  <2>1. createResponse(hand[a]).topic = NoTopic
    BY <1>1, MessageFacts
  <2>2. \A s \in Stations : receiver'[s] \in HandlerStages =>
            receiver'[s] = receiver[s] /\ hand'[s] = hand[s]
    BY <1>1, <1>5 DEF Answer, Again, At, HandlerStages
  <2>3. net' = net \cup {createResponse(hand[a])} /\ UNCHANGED <<cycle, next, done>>
    BY <1>5 DEF Answer, orderVars
  <2>4. QED
    BY <2>1, <2>2, <2>3, OthersSent
<1>6. ASSUME NEW a \in Agents, NEW m \in net, Receive(a, m) PROVE OrderInv'
  BY <1>6, ReceiveOrders
<1>7. ASSUME NEW s \in Stations, TellCoordinator(s) PROVE OrderInv'
  <2>1. Status(s, hand[s].cycle).dst \notin Stations
    BY <1>1, MessageFacts, FactoryAssumption DEF Messages
  <2>2. \A t \in Stations : receiver'[t] \in HandlerStages =>
            /\ hand'[t] = hand[t]
            /\ \/ receiver[t] \in HandlerStages /\ receiver'[t] # "working"
               \/ receiver'[t] = receiver[t]
    BY <1>1, <1>7 DEF TellCoordinator, At, HandlerStages
  <2>3. net' = net \cup {Status(s, hand[s].cycle)} /\ UNCHANGED <<cycle, next, done>>
    BY <1>7 DEF TellCoordinator, orderVars
  <2>4. QED
    BY <2>1, <2>2, <2>3, OthersSent
<1>8. ASSUME NEW s \in Stations, Work(s) PROVE OrderInv'
  BY <1>8, WorkOrders
<1>9. ASSUME NEW m \in net, Lose(m) PROVE OrderInv'
  <2>1. net' \subseteq net /\ UNCHANGED <<cycle, next, hand, done, receiver>>
    BY <1>9 DEF Lose, orderVars, receiverVars
  <2>2. \A s, c : Issued(s, c)' <=> Issued(s, c)
    BY <2>1 DEF Issued
  <2>3. QED
    BY <2>1, <2>2 DEF Inv, OrderInv
<1>10. QED
  BY <1>2, <1>3, <1>4, <1>5, <1>6, <1>7, <1>8, <1>9, BeginCycleOrders, GiveOrderOrders
     DEF Next, CoordinatorStep, ReceiverStep, StationHandler

\* The invariant is inductive.
LEMMA StepInv == Inv /\ [Next]_vars => Inv'
<1> SUFFICES ASSUME Inv, [Next]_vars PROVE Inv'
  OBVIOUS
<1>1. CASE Next
  BY <1>1, ThreadTypeStep, MessageTypeStep, ThreadInvStep, OrderInvStep DEF Inv
<1>2. CASE UNCHANGED vars
  <2>1. \A s, c : Issued(s, c)' <=> Issued(s, c)
    BY <1>2 DEF vars, Issued
  <2>2. QED
    BY <1>2, <2>1 DEF vars, Inv, ThreadType, MessageType, ThreadInv, OrderInv
<1>3. QED
  BY <1>1, <1>2

-----------------------------------------------------------------------------
(* The theorems *)

\* Type correctness of the program, for any stations and cycles
\* (smart_factory_p2p.cpp:25-245).
THEOREM TypeCorrect == Spec => []TypeOK
<1>1. Inv => TypeOK
  BY DEF Inv, ThreadType, MessageType, TypeOK
<1>2. QED
  BY <1>1, InitInv, StepInv, PTL DEF Spec

\* The locals that a handler captures are alive while it runs: stop() joins
\* the receiver before the function returns (smart_factory_p2p.cpp:179-211).
THEOREM LocalsLive == Spec => []LocalsOutliveHandlers
<1>1. Inv => LocalsOutliveHandlers
  BY DEF Inv, ThreadInv, ThreadType, LocalsOutliveHandlers, HandlerStages, ThreadStages
<1>2. QED
  BY <1>1, InitInv, StepInv, PTL DEF Spec

\* Stations wait for the coordinator, unless interrupted, because main joins
\* its thread before it clears the flag (smart_factory_p2p.cpp:231-238).
THEOREM StationsStay == Spec => []StationsStayForOrders
<1>1. Inv => StationsStayForOrders
  BY DEF Inv, ThreadInv, StationsStayForOrders
<1>2. QED
  BY <1>1, InitInv, StepInv, PTL DEF Spec

\* No station does the job of an order twice: nothing but an order finds its
\* handler, and each order is received once (smart_factory_p2p.cpp:183-197).
THEOREM OrdersOnce == Spec => OneJobPerOrder
<1>1. Inv /\ [Next]_vars =>
        [\A s \in Stations : Work(s) => hand[s].cycle \notin done[s]]_vars
  BY DEF Inv, OrderInv, Work
<1>2. QED
  BY <1>1, InitInv, StepInv, PTL DEF Spec, OneJobPerOrder

-----------------------------------------------------------------------------
(* Whoever is joined can go on *)

\* running_ of an agent is set while its function works, the agent has its
\* receiver until the function returns, and main waits for stations only once
\* it has cleared the flag.
StopInv ==
    /\ \A a \in Agents :
        /\ up[a] => thread[a] = "works"
        /\ thread[a] \in {"works", "stopping"} => receiver[a] # "none"
    /\ main \in {"joinsStations", "ended"} => ~running

\* Every step keeps that.
LEMMA StopInvStep ==
  ASSUME Inv, StopInv, Next
  PROVE  StopInv'
<1> USE RouteFacts, FactoryAssumption DEF Inv, ThreadType, ThreadInv, StopInv, ThreadStages,
     ReceiverStages, HandlerStages, MainStages, programVars, orderVars, receiverVars, Goto, At, Again
<1>1. CASE MainStep
  BY <1>1 DEF MainStep, MainJoinsCoordinator, MainClears, MainJoinsStations
<1>2. CASE Interrupt
  BY <1>2 DEF Interrupt
<1>3. CASE CoordinatorStep
  BY <1>3 DEF CoordinatorStep, BeginCycle, GiveOrder
<1>4. ASSUME NEW a \in Agents, Start(a) \/ StartFails(a) PROVE StopInv'
  BY <1>4 DEF Start, StartFails
<1>5. ASSUME NEW a \in Agents, Stop(a) PROVE StopInv'
  BY <1>5 DEF Stop, LeavesLoop
<1>6. ASSUME NEW a \in Agents, Return(a) PROVE StopInv'
  BY <1>6 DEF Return
<1>7. ASSUME NEW a \in Agents, PollTimesOut(a) \/ Answer(a) PROVE StopInv'
  BY <1>7 DEF PollTimesOut, Answer
<1>8. ASSUME NEW a \in Agents, NEW m \in net, Receive(a, m) PROVE StopInv'
  BY <1>8 DEF Receive
<1>9. ASSUME NEW s \in Stations, StationHandler(s) PROVE StopInv'
  BY <1>9 DEF StationHandler, Work, TellCoordinator
<1>10. ASSUME NEW m \in net, Lose(m) PROVE StopInv'
  BY <1>10 DEF Lose
<1>11. QED
  BY <1>1, <1>2, <1>3, <1>4, <1>5, <1>6, <1>7, <1>8, <1>9, <1>10 DEF Next, ThreadStep, ReceiverStep

\* The invariants of the threads hold together, from the first state on.
LEMMA StopInvInductive ==
  /\ Init => StopInv
  /\ Inv /\ StopInv /\ [Next]_vars => StopInv'
<1>1. Init => StopInv
  BY DEF Init, StopInv
<1>2. ASSUME Inv, StopInv, UNCHANGED vars PROVE StopInv'
  BY <1>2 DEF StopInv, vars
<1>3. QED
  BY <1>1, <1>2, StopInvStep

\* The thread of an agent, or its receiver, has a step to take, and needs
\* neither a datagram nor another agent for it.
CanGoOn(a) ==
    \/ thread[a] = "starts" \/ LeavesLoop(a)
    \/ thread[a] = "stopping" /\ receiver[a] = "exited"
    \/ a = Coordinator /\ thread[a] = "works" /\ (next # 0 \/ (running /\ cycle < Cycles))
    \/ receiver[a] \in HandlerStages
    \/ receiver[a] = "polling" /\ ~up[a]

\* Whom the main thread joins has returned or can go on: the coordinator works
\* through its cycles, and the stations find the flag cleared.
JoinsGoOn ==
    /\ main = "joinsCoordinator" => thread[Coordinator] = "gone" \/ CanGoOn(Coordinator)
    /\ main = "joinsStations" => \A s \in Stations : thread[s] = "gone" \/ CanGoOn(s)

(***************************************************************************)
(* For any number of stations and cycles, whatever gets lost and wherever  *)
(* SIGINT comes, main never joins a thread that is stuck: none waits for a *)
(* datagram, and none for main (smart_factory_p2p.cpp:206-241).            *)
(***************************************************************************)
THEOREM NobodyStuck == Spec => []JoinsGoOn
<1>1. ASSUME Inv, StopInv, NEW a \in Agents, thread[a] = "stopping" PROVE CanGoOn(a)
  <2>1. receiver[a] \in {"polling", "exited"} \cup HandlerStages /\ ~up[a]
    BY <1>1 DEF Inv, ThreadType, StopInv, ReceiverStages
  <2>2. QED
    BY <1>1, <2>1 DEF CanGoOn
<1>2. ASSUME Inv, StopInv, thread[Coordinator] = "works" PROVE CanGoOn(Coordinator)
  <2>1. cycle \in 0..Cycles /\ Cycles \in Nat /\ running \in BOOLEAN
    BY <1>2 DEF Inv, ThreadType
  <2>2. cycle < Cycles \/ cycle = Cycles
    BY <2>1
  <2>3. QED
    BY <1>2, <2>1, <2>2 DEF CanGoOn, LeavesLoop
<1>3. ASSUME Inv, StopInv, main = "joinsStations", NEW s \in Stations, thread[s] = "works"
      PROVE  CanGoOn(s)
  BY <1>3 DEF StopInv, CanGoOn, LeavesLoop
<1>4. ASSUME Inv, StopInv PROVE JoinsGoOn
  <2>1. \A a \in Agents : thread[a] \in {"starts", "works", "stopping", "gone"}
    BY <1>4 DEF Inv, ThreadType, ThreadStages
  <2>2. \A a \in Agents : thread[a] = "starts" => CanGoOn(a)
    BY DEF CanGoOn
  <2>3. Coordinator \in Agents /\ Stations \subseteq Agents
    BY DEF Agents
  <2>4. QED
    BY <1>1, <1>2, <1>3, <1>4, <2>1, <2>2, <2>3 DEF JoinsGoOn
<1>5. QED
  BY <1>4, InitInv, StepInv, StopInvInductive, PTL DEF Spec

\* How many steps a receiver is from its end once running_ is clear.
StepsToExit(a) ==
    CASE receiver[a] = "polling" -> 4
      [] receiver[a] = "working" -> 3
      [] receiver[a] = "telling" -> 2
      [] receiver[a] = "answering" -> 1
      [] OTHER -> 0

\* A receiver that stop() waits for goes towards its end with every step it
\* takes: it handles at most one message more, however many are in flight.
StopDrawsNear ==
    [][\A a \in Agents : thread[a] = "stopping" /\ receiver'[a] # receiver[a] =>
           StepsToExit(a)' < StepsToExit(a)]_vars

(***************************************************************************)
(* The stop() at the end of each agent's function ends after four steps of *)
(* the receiver, though the other agents go on sending to it               *)
(* (smart_factory_p2p.cpp:162, 206, agent.cpp:64-71, 332).                 *)
(***************************************************************************)
THEOREM StopsEnd == Spec => StopDrawsNear
<1>1. ASSUME Inv, StopInv, Next, NEW a \in Agents, thread[a] = "stopping", receiver'[a] # receiver[a]
      PROVE  StepsToExit(a)' < StepsToExit(a)
  <2> USE RouteFacts, FactoryAssumption DEF programVars, orderVars, receiverVars
  <2>1. receiver \in [Agents -> ReceiverStages] /\ ~up[a] /\ receiver[a] # "none"
    BY <1>1 DEF Inv, ThreadType, StopInv
  <2>2. ~MainStep /\ ~Interrupt /\ ~CoordinatorStep
    BY <1>1 DEF MainStep, MainJoinsCoordinator, MainClears, MainJoinsStations, Interrupt,
       CoordinatorStep, BeginCycle, GiveOrder
  <2>3. \A m \in net : ~Lose(m)
    BY <1>1 DEF Lose
  <2>4. \A b \in Agents : ~ThreadStep(b)
    BY <1>1, <2>1 DEF ThreadStep, Start, StartFails, Stop, Return, At
  <2>5. PICK b \in Agents : ReceiverStep(b) \/ (b \in Stations /\ StationHandler(b))
    BY <1>1, <2>2, <2>3, <2>4, RouteFacts DEF Next, Agents
  <2>6. b = a
    BY <1>1, <2>1, <2>5 DEF ReceiverStep, PollTimesOut, Answer, Receive, StationHandler, Work,
       TellCoordinator, At, Again
  <2>7. \/ receiver[a] = "polling" /\ receiver'[a] \in {"exited", "answering", "working"}
        \/ receiver[a] = "working" /\ receiver'[a] = "telling"
        \/ receiver[a] = "telling" /\ receiver'[a] = "answering"
        \/ receiver[a] = "answering" /\ receiver'[a] = "exited"
    BY <2>1, <2>5, <2>6 DEF ReceiverStep, PollTimesOut, Answer, Receive, StationHandler, Work,
       TellCoordinator, At, Again
  <2>8. QED
    BY <2>7 DEF StepsToExit
<1>2. ASSUME Inv, StopInv, [Next]_vars
      PROVE  [\A a \in Agents : thread[a] = "stopping" /\ receiver'[a] # receiver[a] =>
                  StepsToExit(a)' < StepsToExit(a)]_vars
  BY <1>1, <1>2
<1>3. QED
  BY <1>2, InitInv, StepInv, StopInvInductive, PTL DEF Spec, StopDrawsNear
=============================================================================
