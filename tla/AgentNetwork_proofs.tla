------------------------ MODULE AgentNetwork_proofs ------------------------
(***************************************************************************)
(* Proofs about AgentNetwork, for any set of agents, topics and calls, any *)
(* handlers that answer with createResponse, and any loss, duplication and *)
(* reordering of datagrams.                                                *)
(***************************************************************************)
EXTENDS AgentNetwork, TLAPS

USE NetworkAssumption

\* The kinds of step a proof about Next looks at (AgentNetwork!Next).
SendStep == \E a, b \in Agents : Sends(a, b)
RegistryStep == \E a, b \in Agents : AddPeer(a, b) \/ RemovePeer(a, b)
ConfigStep == \E a \in Agents : Registers(a) \/ StartStop(a)
PublishStep == \E a \in Agents : Publishes(a)
DiscoverStep == \E a \in Agents : DiscoverPeers(a)
ReceiveStep == \E m \in net : Receive(m.dst, m)
LoseStep == \E m \in net : Lose(m)

\* A step is one of these: the disjuncts of Next, one per call or event.
LEMMA NextCases ==
  Next <=> \/ SendStep \/ RegistryStep \/ ConfigStep \/ PublishStep
           \/ DiscoverStep \/ ReceiveStep \/ LoseStep
  BY DEF Next, SendStep, RegistryStep, ConfigStep, PublishStep, DiscoverStep,
     ReceiveStep, LoseStep

\* A message that a call makes is a message, and a response to one within
\* the bound on replies is one (message.cpp:176-183, protocol.cpp:17-100).
LEMMA RequestType ==
  ASSUME NEW verb \in Verbs, NEW topic \in TellTopics \cup ObserveTopics \cup {NoTopic},
         NEW qos \in QoS \cup {0}, NEW id \in Ids, NEW a \in Agents, NEW b \in Agents,
         NEW kind \in MessageKinds
  PROVE  Message(verb, topic, qos, id, a, b, kind) \in Messages
  BY DEF Message, Messages

LEMMA ResponseType ==
  ASSUME NEW m \in Messages, m.hop < MaxHop
  PROVE  /\ createResponse(m) \in Messages
         /\ createResponse(m).topic = NoTopic /\ createResponse(m).kind = "reply"
         /\ createResponse(m).src = m.dst /\ createResponse(m).dst = m.src
         /\ createResponse(m).verb = m.verb /\ createResponse(m).qos = m.qos
         /\ createResponse(m).id = m.id /\ createResponse(m).hop = m.hop + 1
  BY DEF createResponse, Messages, MessageKinds

\* A user's call that sends puts one request on the network and touches
\* neither registry, subscriptions nor handlers (agent.cpp:147-211).
LEMMA SendEffect ==
  ASSUME TypeOK, SendStep
  PROVE  \E n \in Messages :
            /\ n.kind = "request" /\ n.hop = 0
            /\ n.verb = "OBSERVE" => n.topic \in ObserveTopics
            /\ log' = log \cup {n} /\ net' = net \cup {n}
            /\ sent' \in [Agents -> Nat] /\ calls' \in 0..MaxCalls
            /\ UNCHANGED <<running, peers, subscriptions, verbHandler, topicHandler,
                           publishing, introduced, duplicates, losses>>
<1> DEFINE Effect(n) ==
            /\ n.kind = "request" /\ n.hop = 0
            /\ n.verb = "OBSERVE" => n.topic \in ObserveTopics
            /\ log' = log \cup {n} /\ net' = net \cup {n}
            /\ sent' \in [Agents -> Nat] /\ calls' \in 0..MaxCalls
            /\ UNCHANGED <<running, peers, subscriptions, verbHandler, topicHandler,
                           publishing, introduced, duplicates, losses>>
<1>1. ASSUME NEW name, Call(name) PROVE calls' \in 0..MaxCalls
  BY <1>1 DEF Call, TypeOK
<1>2. ASSUME NEW verb \in Verbs, NEW qos \in QoS \cup {0}, NEW id \in Ids,
             NEW topic \in TellTopics \cup ObserveTopics \cup {NoTopic},
             NEW a \in Agents, NEW b \in Agents,
             verb = "OBSERVE" => topic \in ObserveTopics,
             calls' \in 0..MaxCalls,
             sendToPeer(a, Message(verb, topic, qos, id, a, b, "request"))
      PROVE  \E n \in Messages : Effect(n)
  <2> DEFINE n == Message(verb, topic, qos, id, a, b, "request")
  <2>1. n \in Messages
    BY RequestType DEF MessageKinds
  <2>2. sent' \in [Agents -> Nat]
    BY <1>2 DEF sendToPeer, TypeOK
  <2>3. n.kind = "request" /\ n.hop = 0 /\ n.verb = verb /\ n.topic = topic
    BY DEF Message
  <2>4. Effect(n)
    BY <1>2, <2>2, <2>3 DEF sendToPeer
  <2>5. QED
    BY <2>1, <2>4
<1>3. PICK a \in Agents, b \in Agents : Sends(a, b)
  BY DEF SendStep
<1>4. CASE Ping(a, b)
  BY <1>1, <1>2, <1>4 DEF Ping, Verbs
<1>5. CASE Tell(a, b)
  BY <1>1, <1>2, <1>5 DEF Tell, Verbs
<1>6. CASE Ask(a, b)
  BY <1>1, <1>2, <1>6 DEF Ask, Verbs
<1>7. CASE Observe(a, b)
  BY <1>1, <1>2, <1>7 DEF Observe, Verbs
<1>8. QED
  BY <1>3, <1>4, <1>5, <1>6, <1>7 DEF Sends

\* The receiver puts on the network at most the response to the datagram it
\* takes (agent.cpp:396-401).
LEMMA ReceiveEffect ==
  ASSUME TypeOK, NEW m \in net, Receive(m.dst, m)
  PROVE  /\ m \in Messages
         /\ \E T \in SUBSET {createResponse(m)} :
               /\ log' = log \cup T
               /\ net' \subseteq net \cup T
               /\ T # {} => handling(m.dst, m) = "reply" /\ m.hop < MaxHop
         /\ peers' = recordSender(m.dst, m)
         /\ subscriptions' = subscribe(m.dst, m)
         /\ duplicates' \in 0..MaxDuplicates
         /\ sent' \in [Agents -> Nat]
         /\ UNCHANGED <<running, verbHandler, topicHandler, publishing, introduced, calls, losses>>
<1>1. m \in Messages
  BY DEF TypeOK
<1>2. PICK again \in BOOLEAN, ok \in BOOLEAN :
        /\ again => duplicates < MaxDuplicates
        /\ duplicates' = IF again THEN duplicates + 1 ELSE duplicates
        /\ LET responses == IF ok /\ handling(m.dst, m) = "reply"
                            THEN {createResponse(m)} ELSE {}
           IN  /\ net' = (IF again THEN net ELSE net \ {m}) \cup responses
               /\ log' = log \cup responses
  BY DEF Receive
<1>3. duplicates' \in 0..MaxDuplicates
  BY <1>2 DEF TypeOK
<1>4. sent' \in [Agents -> Nat]
  <2>1. m.dst \in Agents
    BY <1>1 DEF Messages
  <2>2. sent' = sent \/ sent' = [sent EXCEPT ![m.dst] = @ + 1]
    BY DEF Receive
  <2>3. sent \in [Agents -> Nat]
    BY DEF TypeOK
  <2>4. QED
    BY <2>1, <2>2, <2>3
<1>5. \E T \in SUBSET {createResponse(m)} :
               /\ log' = log \cup T
               /\ net' \subseteq net \cup T
               /\ T # {} => handling(m.dst, m) = "reply" /\ m.hop < MaxHop
  <2>1. CASE ok /\ handling(m.dst, m) = "reply"
    <3>1. m.hop < MaxHop
      BY <2>1 DEF Receive
    <3>2. QED
      BY <1>2, <2>1, <3>1
  <2>2. CASE ~(ok /\ handling(m.dst, m) = "reply")
    BY <1>2, <2>2
  <2>3. QED
    BY <2>1, <2>2
<1>6. QED
  BY <1>1, <1>3, <1>4, <1>5 DEF Receive, handlerVars

\* T is what a turn of a's notifyTopic, for subscription s, puts on the network.
Notified(a, s, T) ==
    /\ publishing[a].left[s] > 0
    /\ log' = log \cup T /\ net' = net \cup T
    /\ \A n \in T : /\ n.kind = "notify" /\ n.hop = 0 /\ n.verb = "TELL"
                    /\ n.src = a /\ n.dst = s[2] /\ n.topic = publishing[a].topic

\* One turn of notifyTopic's loop puts at most one TELL on the network, to
\* a subscriber not served yet (agent.cpp:217-224).
LEMMA NotifyEffect ==
  ASSUME TypeOK, NEW a \in Agents, NotifyOne(a)
  PROVE  /\ \E s \in Subscribers : \E T \in SUBSET Messages : Notified(a, s, T)
         /\ publishing' \in [Agents ->
              [on : BOOLEAN, topic : TellTopics \cup {NoTopic}, qos : QoS \cup {0},
               left : [Subscribers -> Nat], notified : Nat]]
         /\ \A b \in Agents : publishing'[b].topic = publishing[b].topic
         /\ \A b \in Agents, t \in Subscribers :
               publishing'[b].left[t] <= publishing[b].left[t]
         /\ sent' \in [Agents -> Nat]
         /\ UNCHANGED <<running, peers, subscriptions, verbHandler, topicHandler,
                        introduced, calls, duplicates, losses>>
<1>1. PICK s \in Subscribers, ok \in BOOLEAN, id \in Ids :
        /\ publishing[a].left[s] > 0
        /\ LET p == publishing[a]
           IN  publishing' = [publishing EXCEPT ![a] =
                 [on |-> p.on, topic |-> p.topic, qos |-> p.qos,
                  left |-> [p.left EXCEPT ![s] = @ - 1], notified |-> p.notified + 1]]
        /\ LET tells == IF ok
                        THEN {Message("TELL", publishing[a].topic, publishing[a].qos, id,
                                      a, s[2], "notify")}
                        ELSE {}
           IN  net' = net \cup tells /\ log' = log \cup tells
        /\ sent' = [sent EXCEPT ![a] = IF ok THEN @ + 1 ELSE @]
  BY DEF NotifyOne
<1> DEFINE n == Message("TELL", publishing[a].topic, publishing[a].qos, id, a, s[2], "notify")
           T == IF ok THEN {n} ELSE {}
<1>2. s[2] \in Agents
  BY DEF Subscribers
<1>3. publishing[a].topic \in TellTopics \cup {NoTopic} /\ publishing[a].qos \in QoS \cup {0}
  BY DEF TypeOK
<1>4. n \in Messages
  BY <1>2, <1>3, RequestType DEF Verbs, MessageKinds
<1>5. /\ n.kind = "notify" /\ n.hop = 0 /\ n.verb = "TELL"
      /\ n.src = a /\ n.dst = s[2] /\ n.topic = publishing[a].topic
  BY DEF Message
<1> DEFINE P == [on : BOOLEAN, topic : TellTopics \cup {NoTopic}, qos : QoS \cup {0},
                 left : [Subscribers -> Nat], notified : Nat]
           p == publishing[a]
           q == [on |-> p.on, topic |-> p.topic, qos |-> p.qos,
                 left |-> [p.left EXCEPT ![s] = @ - 1], notified |-> p.notified + 1]
<1>6a. publishing \in [Agents -> P]
  BY DEF TypeOK
<1>6b. publishing' = [publishing EXCEPT ![a] = q]
  BY <1>1
<1>6c. q \in P
  <2>1. p \in P
    BY <1>6a
  <2>2. [p.left EXCEPT ![s] = @ - 1] \in [Subscribers -> Nat]
    BY <1>1, <2>1
  <2>3. QED
    BY <2>1, <2>2
<1>6. publishing' \in [Agents -> P]
  BY <1>6a, <1>6b, <1>6c
<1>7. /\ \A b \in Agents : publishing'[b].topic = publishing[b].topic
      /\ \A b \in Agents, t \in Subscribers :
            publishing'[b].left[t] <= publishing[b].left[t]
  <2>1. q.topic = p.topic
    OBVIOUS
  <2>2. \A t \in Subscribers : q.left[t] <= p.left[t]
    <3>1. p.left \in [Subscribers -> Nat] /\ q.left = [p.left EXCEPT ![s] = @ - 1]
      BY <1>6a
    <3>2. QED
      BY <3>1
  <2>3. \A b \in Agents, t \in Subscribers : publishing[b].left[t] \in Nat
    BY <1>6a
  <2>4. \A b \in Agents : publishing'[b] = IF b = a THEN q ELSE publishing[b]
    BY <1>6a, <1>6b
  <2> HIDE DEF q
  <2>5. QED
    BY <2>1, <2>2, <2>3, <2>4
<1>8. sent' \in [Agents -> Nat]
  BY <1>1 DEF TypeOK
<1>9. UNCHANGED <<running, peers, subscriptions, verbHandler, topicHandler,
                  introduced, calls, duplicates, losses>>
  BY DEF NotifyOne, handlerVars, boundVars
<1>10. T \in SUBSET Messages /\ log' = log \cup T /\ net' = net \cup T
  BY <1>1, <1>4
<1>11. \A x \in T : /\ x.kind = "notify" /\ x.hop = 0 /\ x.verb = "TELL"
                    /\ x.src = a /\ x.dst = s[2] /\ x.topic = publishing[a].topic
  BY <1>5
<1> HIDE DEF T
<1>12. \E S \in SUBSET Messages : Notified(a, s, S)
  BY <1>1, <1>10, <1>11 DEF Notified
<1>13. QED
  BY <1>6, <1>7, <1>8, <1>9, <1>12 DEF P

-----------------------------------------------------------------------------
(* Type correctness *)

\* The initial state is well typed (agent.cpp:21-36).
LEMMA InitType == Init => TypeOK
  BY DEF Init, TypeOK, NotPublishing, NobodyLeft

\* The registry calls, the handler calls and start or stop keep the types
\* and put nothing on the network (agent.cpp:112-131, 236-267).
LEMMA LocalType ==
  ASSUME TypeOK, RegistryStep \/ ConfigStep
  PROVE  TypeOK' /\ log' = log /\ net' = net
<1>1. ASSUME NEW name, Call(name) PROVE calls' \in 0..MaxCalls
  BY <1>1 DEF Call, TypeOK
<1>2. \A h \in VerbHandlings : h[1] \in Verbs /\ h[2] \in Kinds
  BY DEF NetworkAssumption
<1>3. \A h \in TopicHandlings : h[1] \in DOMAIN HandlerPatterns /\ h[2] \in Kinds
  BY DEF NetworkAssumption
<1>4. CASE RegistryStep
  <2>1. PICK a \in Agents, b \in Agents : AddPeer(a, b) \/ RemovePeer(a, b)
    BY <1>4 DEF RegistryStep
  <2>2. CASE AddPeer(a, b)
    BY <1>1, <2>2 DEF AddPeer, TypeOK, handlerVars
  <2>3. CASE RemovePeer(a, b)
    BY <1>1, <2>3 DEF RemovePeer, TypeOK, handlerVars
  <2>4. QED
    BY <2>1, <2>2, <2>3
<1>5. CASE ConfigStep
  <2>1. PICK a \in Agents : Registers(a) \/ StartStop(a)
    BY <1>5 DEF ConfigStep
  <2>2. CASE AddMessageHandler(a)
    BY <1>1, <1>2, <2>2 DEF AddMessageHandler, TypeOK
  <2>3. CASE RemoveMessageHandler(a)
    BY <1>1, <1>2, <2>3 DEF RemoveMessageHandler, TypeOK
  <2>4. CASE AddTopicHandler(a)
    BY <1>1, <1>3, <2>4 DEF AddTopicHandler, TypeOK
  <2>5. CASE RemoveTopicHandler(a)
    BY <1>1, <1>3, <2>5 DEF RemoveTopicHandler, TypeOK
  <2>6. CASE StartStop(a)
    BY <1>1, <2>6 DEF StartStop, TypeOK, handlerVars
  <2>7. QED
    BY <2>1, <2>2, <2>3, <2>4, <2>5, <2>6 DEF Registers
<1>6. QED
  BY <1>4, <1>5

\* Beginning and ending a call of notifyTopic keep the types
\* (agent.cpp:213-217, 228).
LEMMA PublishType ==
  ASSUME TypeOK, NEW a \in Agents, NotifyTopic(a) \/ NotifyReturns(a)
  PROVE  TypeOK' /\ log' = log /\ net' = net
<1> DEFINE P == [on : BOOLEAN, topic : TellTopics \cup {NoTopic}, qos : QoS \cup {0},
                 left : [Subscribers -> Nat], notified : Nat]
<1>1. publishing \in [Agents -> P] /\ subscriptions \in [Agents -> [Subscribers -> Nat]]
  BY DEF TypeOK
<1>2. publishing' \in [Agents -> P]
  <2>1. CASE NotifyTopic(a)
    <3>1. PICK topic \in TellTopics \ {NoTopic}, qos \in QoS :
            publishing' = [publishing EXCEPT ![a] =
              [on |-> TRUE, topic |-> topic, qos |-> qos, notified |-> 0,
               left |-> [s \in Subscribers |->
                   IF topicMatches(s[1], topic) THEN subscriptions[a][s] ELSE 0]]]
      BY <2>1 DEF NotifyTopic
    <3> DEFINE left == [s \in Subscribers |->
                          IF topicMatches(s[1], topic) THEN subscriptions[a][s] ELSE 0]
    <3>2. left \in [Subscribers -> Nat]
      BY <1>1
    <3> HIDE DEF left
    <3>3. [on |-> TRUE, topic |-> topic, qos |-> qos, notified |-> 0,
           left |-> left] \in P
      BY <3>2
    <3>4. QED
      BY <1>1, <3>1, <3>3 DEF left
  <2>2. CASE NotifyReturns(a)
    BY <1>1, <2>2 DEF NotifyReturns, NotPublishing, NobodyLeft
  <2>3. QED
    BY <2>1, <2>2
<1>3. calls' \in 0..MaxCalls
  BY DEF NotifyTopic, NotifyReturns, Call, boundVars, TypeOK
<1>4. UNCHANGED <<running, peers, subscriptions, verbHandler, topicHandler, sent, net, log,
                  introduced, duplicates, losses>>
  BY DEF NotifyTopic, NotifyReturns, handlerVars, boundVars
<1>5. QED
  BY <1>2, <1>3, <1>4 DEF TypeOK

\* discoverPeers puts PINGs without a topic on the network (agent.cpp:83-98).
LEMMA DiscoverEffect ==
  ASSUME TypeOK, DiscoverStep
  PROVE  /\ \E T \in SUBSET Messages :
              /\ log' = log \cup T /\ net' = net \cup T
              /\ \A n \in T : n.kind = "discovery" /\ n.hop = 0 /\ n.verb = "PING"
         /\ calls' \in 0..MaxCalls
         /\ UNCHANGED <<running, peers, subscriptions, verbHandler, topicHandler, sent,
                        publishing, introduced, duplicates, losses>>
<1>1. PICK a \in Agents : DiscoverPeers(a)
  BY DEF DiscoverStep
<1>2. PICK id \in Ids, listening \in SUBSET Agents :
        /\ net' = net \cup sendBroadcast(a, id, listening)
        /\ log' = log \cup sendBroadcast(a, id, listening)
  BY <1>1 DEF DiscoverPeers
<1> DEFINE pings == sendBroadcast(a, id, listening)
<1>3. pings \in SUBSET Messages
  <2>1. "PING" \in Verbs /\ "discovery" \in MessageKinds
    BY DEF Verbs, MessageKinds
  <2>2. \A b \in listening : Message("PING", NoTopic, 0, id, a, b, "discovery") \in Messages
    BY <2>1, RequestType
  <2>3. QED
    BY <2>2 DEF sendBroadcast
<1>4. \A n \in pings : n.kind = "discovery" /\ n.hop = 0 /\ n.verb = "PING"
  BY DEF Message, sendBroadcast
<1>5. net' = net \cup pings /\ log' = log \cup pings
  BY <1>2
<1> HIDE DEF pings
<1>6. calls' \in 0..MaxCalls
  BY <1>1 DEF DiscoverPeers, Call, TypeOK
<1>7. QED
  BY <1>1, <1>3, <1>4, <1>5, <1>6 DEF DiscoverPeers, handlerVars

\* Recording the sender and subscribing it keep the types (agent.cpp:112-125,
\* 446-463).
LEMMA ReceiveTypes ==
  ASSUME TypeOK, NEW m \in Messages
  PROVE  /\ recordSender(m.dst, m) \in [Agents -> [Agents -> {"absent", "anonymous", "named"}]]
         /\ subscribe(m.dst, m) \in [Agents -> [Subscribers -> Nat]]
<1>1. m.dst \in Agents /\ m.src \in Agents
  BY DEF Messages
<1>2. recordSender(m.dst, m) \in [Agents -> [Agents -> {"absent", "anonymous", "named"}]]
  BY <1>1 DEF recordSender, TypeOK
<1>3. subscribe(m.dst, m) \in [Agents -> [Subscribers -> Nat]]
  <2> DEFINE k == <<m.topic, m.src>>
             f == subscriptions[m.dst]
  <2>1. subscriptions \in [Agents -> [Subscribers -> Nat]]
    BY DEF TypeOK
  <2>2. f \in [Subscribers -> Nat]
    BY <1>1, <2>1
  <2> HIDE DEF k, f
  <2>3. [f EXCEPT ![k] = @ + 1] \in [Subscribers -> Nat]
    <3>1. ASSUME k \in Subscribers PROVE f[k] + 1 \in Nat
      BY <2>2, <3>1
    <3>2. QED
      BY <2>2, <3>1
  <2>4. [subscriptions EXCEPT ![m.dst] = [f EXCEPT ![k] = @ + 1]]
           \in [Agents -> [Subscribers -> Nat]]
    BY <2>1, <2>3
  <2>5. QED
    BY <2>1, <2>4 DEF subscribe, k, f
<1>4. QED
  BY <1>2, <1>3

\* Every step keeps the types.
LEMMA StepType == TypeOK /\ [Next]_vars => TypeOK'
<1> SUFFICES ASSUME TypeOK, [Next]_vars PROVE TypeOK'
  OBVIOUS
<1>1. CASE SendStep
  <2>1. UNCHANGED <<running, peers, subscriptions, verbHandler, topicHandler,
                    publishing, introduced, duplicates, losses>>
    BY <1>1, SendEffect
  <2>2. sent' \in [Agents -> Nat] /\ calls' \in 0..MaxCalls
    BY <1>1, SendEffect
  <2>3. net' \subseteq log' /\ log' \subseteq Messages
    BY <1>1, SendEffect DEF TypeOK
  <2>4. QED
    BY <2>1, <2>2, <2>3 DEF TypeOK
<1>2. CASE RegistryStep \/ ConfigStep
  BY <1>2, LocalType
<1>3. CASE PublishStep
  <2>1. PICK a \in Agents : Publishes(a)
    BY <1>3 DEF PublishStep
  <2>2. CASE NotifyOne(a)
    <3>1. UNCHANGED <<running, peers, subscriptions, verbHandler, topicHandler,
                      introduced, calls, duplicates, losses>>
      BY <2>2, NotifyEffect
    <3>2. sent' \in [Agents -> Nat]
      BY <2>2, NotifyEffect
    <3>3. publishing' \in [Agents ->
            [on : BOOLEAN, topic : TellTopics \cup {NoTopic}, qos : QoS \cup {0},
             left : [Subscribers -> Nat], notified : Nat]]
      BY <2>2, NotifyEffect
    <3>4. net' \subseteq log' /\ log' \subseteq Messages
      BY <2>2, NotifyEffect DEF TypeOK, Notified
    <3>5. QED
      BY <3>1, <3>2, <3>3, <3>4 DEF TypeOK
  <2>3. CASE NotifyTopic(a) \/ NotifyReturns(a)
    BY <2>3, PublishType
  <2>4. QED
    BY <2>1, <2>2, <2>3 DEF Publishes
<1>4. CASE DiscoverStep
  <2>1. UNCHANGED <<running, peers, subscriptions, verbHandler, topicHandler, sent,
                    publishing, introduced, duplicates, losses>> /\ calls' \in 0..MaxCalls
    BY <1>4, DiscoverEffect
  <2>2. net' \subseteq log' /\ log' \subseteq Messages
    BY <1>4, DiscoverEffect DEF TypeOK
  <2>3. QED
    BY <2>1, <2>2 DEF TypeOK
<1>5. CASE ReceiveStep
  <2>1. PICK m \in net : Receive(m.dst, m)
    BY <1>5 DEF ReceiveStep
  <2>2. m \in Messages
    BY DEF TypeOK
  <2>3. /\ peers' = recordSender(m.dst, m) /\ subscriptions' = subscribe(m.dst, m)
        /\ duplicates' \in 0..MaxDuplicates /\ sent' \in [Agents -> Nat]
        /\ UNCHANGED <<running, verbHandler, topicHandler, publishing, introduced, calls, losses>>
    BY <2>1, ReceiveEffect
  <2>4. net' \subseteq log' /\ log' \subseteq Messages
    <3>1. PICK T \in SUBSET {createResponse(m)} :
               /\ log' = log \cup T /\ net' \subseteq net \cup T
               /\ T # {} => handling(m.dst, m) = "reply" /\ m.hop < MaxHop
      BY <2>1, ReceiveEffect
    <3>2. T \subseteq Messages
      BY <2>2, <3>1, ResponseType
    <3>3. QED
      BY <3>1, <3>2 DEF TypeOK
  <2>5. QED
    BY <2>2, <2>3, <2>4, ReceiveTypes DEF TypeOK
<1>6. CASE LoseStep
  BY <1>6 DEF LoseStep, Lose, TypeOK, handlerVars, boundVars
<1>7. CASE UNCHANGED vars
  BY <1>7 DEF vars, TypeOK
<1>8. QED
  BY <1>1, <1>2, <1>3, <1>4, <1>5, <1>6, <1>7, NextCases

\* Whatever agents, calls and handlers there are and whatever the network
\* does, every variable keeps its type.
THEOREM TypeCorrect == Spec => []TypeOK
  BY InitType, StepType, PTL DEF Spec

-----------------------------------------------------------------------------
(* Where messages come from *)

\* A message that a step may add to the log: a request of a user, a
\* notification of a subscriber not served yet, a discovery PING, or the
\* response to a datagram in flight.
Origin(n) ==
    \/ /\ n.kind = "request" /\ n.hop = 0
       /\ n.verb = "OBSERVE" => n.topic \in ObserveTopics
    \/ /\ n.kind = "notify" /\ n.hop = 0 /\ n.verb = "TELL"
       /\ \E a \in Agents, s \in Subscribers :
             /\ publishing[a].left[s] > 0
             /\ n.src = a /\ n.dst = s[2] /\ n.topic = publishing[a].topic
    \/ n.kind = "discovery" /\ n.hop = 0 /\ n.verb = "PING"
    \/ \E m \in net : n = createResponse(m) /\ m.hop < MaxHop /\ handling(m.dst, m) = "reply"

\* The log only grows, and by messages of these four kinds.
LEMMA LogEffect ==
  ASSUME TypeOK, [Next]_vars
  PROVE  \E T \in SUBSET Messages : log' = log \cup T /\ \A n \in T : Origin(n)
<1>1. CASE log' = log
  <2>1. {} \in SUBSET Messages /\ log' = log \cup {} /\ \A n \in {} : Origin(n)
    BY <1>1
  <2>2. QED
    BY <2>1
<1>2. CASE SendStep
  <2>1. PICK n \in Messages : /\ n.kind = "request" /\ n.hop = 0
                              /\ n.verb = "OBSERVE" => n.topic \in ObserveTopics
                              /\ log' = log \cup {n}
    BY <1>2, SendEffect
  <2>2. Origin(n)
    BY <2>1 DEF Origin
  <2>3. {n} \in SUBSET Messages /\ log' = log \cup {n} /\ \A x \in {n} : Origin(x)
    BY <2>1, <2>2
  <2>4. QED
    BY <2>3
<1>3. CASE \E a \in Agents : NotifyOne(a)
  <2>1. PICK a \in Agents : NotifyOne(a)
    BY <1>3
  <2>2. PICK s \in Subscribers : \E T \in SUBSET Messages : Notified(a, s, T)
    BY <2>1, NotifyEffect
  <2>3. PICK T \in SUBSET Messages : Notified(a, s, T)
    BY <2>2
  <2>4. \A n \in T : Origin(n)
    BY <2>3 DEF Origin, Notified
  <2>5. QED
    BY <2>3, <2>4 DEF Notified
<1>4. CASE DiscoverStep
  <2>1. PICK T \in SUBSET Messages :
            /\ log' = log \cup T
            /\ \A n \in T : n.kind = "discovery" /\ n.hop = 0 /\ n.verb = "PING"
    BY <1>4, DiscoverEffect
  <2>2. \A n \in T : Origin(n)
    BY <2>1 DEF Origin
  <2>3. QED
    BY <2>1, <2>2
<1>5. CASE ReceiveStep
  <2>1. PICK m \in net : Receive(m.dst, m)
    BY <1>5 DEF ReceiveStep
  <2>2. m \in Messages
    BY DEF TypeOK
  <2>3. PICK T \in SUBSET {createResponse(m)} :
               /\ log' = log \cup T
               /\ T # {} => handling(m.dst, m) = "reply" /\ m.hop < MaxHop
    BY <2>1, ReceiveEffect
  <2>4. T \subseteq Messages
    BY <2>2, <2>3, ResponseType
  <2>5. \A n \in T : Origin(n)
    BY <2>3 DEF Origin
  <2>6. QED
    BY <2>3, <2>4, <2>5
<1>6. CASE LoseStep \/ UNCHANGED vars
  BY <1>1, <1>6 DEF LoseStep, Lose, vars
<1>7. CASE RegistryStep \/ ConfigStep
  BY <1>1, <1>7, LocalType
<1>8. CASE \E a \in Agents : NotifyTopic(a) \/ NotifyReturns(a)
  BY <1>1, <1>8, PublishType
<1>9. QED
  BY <1>2, <1>3, <1>4, <1>5, <1>6, <1>7, <1>8, NextCases DEF PublishStep, Publishes

(***************************************************************************)
(* What the log says of itself: responses and discovery PINGs have no      *)
(* topic to subscribe to, so an OBSERVE with a topic is a user's request;  *)
(* whatever is a reply has no topic.                                       *)
(***************************************************************************)
ObservesAreRequests ==
    \A m \in log : m.verb = "OBSERVE" /\ m.topic # NoTopic =>
        m.kind = "request" /\ m.topic \in ObserveTopics

RepliesHaveNoTopic ==
    \A m \in log : m.kind = "reply" \/ m.hop > 0 => m.kind = "reply" /\ m.topic = NoTopic

MessageInv == TypeOK /\ ObservesAreRequests /\ RepliesHaveNoTopic

\* The log is empty at first (agent.cpp:21-36).
LEMMA InitMessages == Init => MessageInv
  BY InitType DEF Init, MessageInv, ObservesAreRequests, RepliesHaveNoTopic

\* Every message a step adds fits what the log says of itself.
LEMMA StepMessages == MessageInv /\ [Next]_vars => MessageInv'
<1> SUFFICES ASSUME MessageInv, [Next]_vars PROVE MessageInv'
  OBVIOUS
<1>1. TypeOK /\ TypeOK'
  BY StepType DEF MessageInv
<1>2. PICK T \in SUBSET Messages : log' = log \cup T /\ \A n \in T : Origin(n)
  BY <1>1, LogEffect
<1>3. ASSUME NEW n \in T
      PROVE  \/ /\ n.kind # "reply" /\ n.hop = 0
                /\ n.verb = "OBSERVE" => n.kind = "request" /\ n.topic \in ObserveTopics
             \/ \E m \in log : /\ n.kind = "reply" /\ n.topic = NoTopic /\ n.hop = m.hop + 1
                               /\ n.verb = m.verb /\ m.hop \in Nat
  <2>1. CASE \E m \in net : n = createResponse(m) /\ m.hop < MaxHop
    <3>1. PICK m \in net : n = createResponse(m) /\ m.hop < MaxHop
      BY <2>1
    <3>2. m \in log /\ m \in Messages
      BY <1>1 DEF TypeOK
    <3>3. m.hop \in Nat
      BY <3>2 DEF Messages
    <3>4. QED
      BY <3>1, <3>2, <3>3, ResponseType
  <2>2. CASE ~ \E m \in net : n = createResponse(m) /\ m.hop < MaxHop
    BY <1>2, <1>3, <2>2 DEF Origin
  <2>3. QED
    BY <2>1, <2>2
<1>5. ObservesAreRequests'
  BY <1>2, <1>3 DEF ObservesAreRequests, MessageInv
<1>6. RepliesHaveNoTopic'
  BY <1>2, <1>3 DEF RepliesHaveNoTopic, MessageInv
<1>7. QED
  BY <1>1, <1>5, <1>6 DEF MessageInv

-----------------------------------------------------------------------------
(* Subscriptions and notifications *)

\* subscriptions_ changes only when the receiver takes a datagram
\* (agent.cpp:454-463).
LEMMA SubscriptionEffect ==
  ASSUME TypeOK, [Next]_vars
  PROVE  \/ subscriptions' = subscriptions
         \/ \E m \in net : subscriptions' = subscribe(m.dst, m)
<1>1. CASE SendStep
  BY <1>1, SendEffect
<1>2. CASE RegistryStep
  BY <1>2 DEF RegistryStep, AddPeer, RemovePeer
<1>3. CASE ConfigStep
  BY <1>3 DEF ConfigStep, Registers, AddMessageHandler, RemoveMessageHandler,
     AddTopicHandler, RemoveTopicHandler, StartStop
<1>4. CASE PublishStep
  BY <1>4 DEF PublishStep, Publishes, NotifyTopic, NotifyOne, NotifyReturns
<1>5. CASE DiscoverStep
  BY <1>5, DiscoverEffect
<1>6. CASE ReceiveStep
  BY <1>6 DEF ReceiveStep, Receive
<1>7. CASE LoseStep \/ UNCHANGED vars
  BY <1>7 DEF LoseStep, Lose, vars
<1>8. QED
  BY <1>1, <1>2, <1>3, <1>4, <1>5, <1>6, <1>7, NextCases

\* Whom notifyTopic has left to serve was left before, or is a subscriber
\* whose pattern matches the topic (agent.cpp:214-219).
LEMMA PublishEffect ==
  ASSUME TypeOK, [Next]_vars, NEW a \in Agents, NEW s \in Subscribers,
         publishing'[a].left[s] > 0
  PROVE  \/ publishing[a].left[s] > 0 /\ publishing'[a].topic = publishing[a].topic
         \/ subscriptions[a][s] > 0 /\ topicMatches(s[1], publishing'[a].topic)
<1>1. CASE publishing' = publishing
  BY <1>1
<1>2. CASE SendStep
  BY <1>1, <1>2, SendEffect
<1>3. CASE RegistryStep
  BY <1>1, <1>3 DEF RegistryStep, AddPeer, RemovePeer
<1>4. CASE ConfigStep
  BY <1>1, <1>4 DEF ConfigStep, Registers, AddMessageHandler, RemoveMessageHandler,
     AddTopicHandler, RemoveTopicHandler, StartStop
<1>5. CASE DiscoverStep
  BY <1>1, <1>5, DiscoverEffect
<1>6. CASE ReceiveStep
  BY <1>1, <1>6 DEF ReceiveStep, Receive
<1>7. CASE LoseStep \/ UNCHANGED vars
  BY <1>1, <1>7 DEF LoseStep, Lose, vars
<1>8. CASE PublishStep
  <2> DEFINE P == [on : BOOLEAN, topic : TellTopics \cup {NoTopic}, qos : QoS \cup {0},
                   left : [Subscribers -> Nat], notified : Nat]
  <2>1. publishing \in [Agents -> P] /\ publishing' \in [Agents -> P]
    BY StepType DEF TypeOK
  <2>2. publishing[a].left[s] \in Nat /\ publishing'[a].left[s] \in Nat
    BY <2>1
  <2>3. PICK b \in Agents : Publishes(b)
    BY <1>8 DEF PublishStep
  <2>4. CASE NotifyOne(b)
    <3>1. /\ publishing'[a].topic = publishing[a].topic
          /\ publishing'[a].left[s] <= publishing[a].left[s]
      BY <2>4, NotifyEffect
    <3>2. QED
      BY <2>2, <3>1
  <2>5. CASE NotifyTopic(b)
    <3>1. PICK topic \in TellTopics \ {NoTopic}, qos \in QoS :
            publishing' = [publishing EXCEPT ![b] =
              [on |-> TRUE, topic |-> topic, qos |-> qos, notified |-> 0,
               left |-> [t \in Subscribers |->
                   IF topicMatches(t[1], topic) THEN subscriptions[b][t] ELSE 0]]]
      BY <2>5 DEF NotifyTopic
    <3>2. CASE a = b
      <4>1. /\ publishing'[a].topic = topic
            /\ publishing'[a].left[s] =
                 IF topicMatches(s[1], topic) THEN subscriptions[a][s] ELSE 0
        BY <2>1, <3>1, <3>2
      <4>2. QED
        BY <4>1
    <3>3. CASE a # b
      <4>1. publishing'[a] = publishing[a]
        BY <2>1, <3>1, <3>3
      <4>2. QED
        BY <4>1
    <3>4. QED
      BY <3>2, <3>3
  <2>6. CASE NotifyReturns(b)
    <3>1. publishing' = [publishing EXCEPT ![b] = NotPublishing]
      BY <2>6 DEF NotifyReturns
    <3>2. NotPublishing.left[s] = 0
      BY DEF NotPublishing, NobodyLeft
    <3>3. CASE a = b
      BY <2>1, <3>1, <3>2, <3>3
    <3>4. CASE a # b
      <4>1. publishing'[a] = publishing[a]
        BY <2>1, <3>1, <3>4
      <4>2. QED
        BY <4>1
    <3>5. QED
      BY <3>3, <3>4
  <2>7. QED
    BY <2>3, <2>4, <2>5, <2>6 DEF Publishes
<1>9. QED
  BY <1>2, <1>3, <1>4, <1>5, <1>6, <1>7, <1>8, NextCases

\* What was asked for once stays asked for: the log only grows.
LEMMA RequestedStays ==
  ASSUME TypeOK, [Next]_vars, NEW a, NEW topic, NEW b, Requested(a, topic, b)
  PROVE  Requested(a, topic, b)'
<1>1. log \subseteq log'
  BY LogEffect
<1>2. QED
  BY <1>1 DEF Requested

(***************************************************************************)
(* Subscriptions and notifications go back to a request.  notifyTopic      *)
(* decides whom to tell before it sends, hence the part about the          *)
(* subscribers that it has left.                                           *)
(***************************************************************************)
LeftRequested ==
    \A a \in Agents, s \in Subscribers : publishing[a].left[s] > 0 =>
        topicMatches(s[1], publishing[a].topic) /\ Requested(a, s[1], s[2])

SubscriptionInv == MessageInv /\ SubscriptionsRequested /\ LeftRequested /\ NotifiedAsked

\* Nobody is subscribed and nobody is told at first (agent.cpp:21-36).
LEMMA InitSubscriptions == Init => SubscriptionInv
  BY InitMessages DEF Init, SubscriptionInv, SubscriptionsRequested, LeftRequested,
     NotifiedAsked, NotPublishing, NobodyLeft

\* Every step keeps subscriptions and notifications asked for.
LEMMA StepSubscriptions == SubscriptionInv /\ [Next]_vars => SubscriptionInv'
<1> SUFFICES ASSUME SubscriptionInv, [Next]_vars PROVE SubscriptionInv'
  OBVIOUS
<1>1. TypeOK /\ MessageInv /\ MessageInv'
  BY StepMessages DEF SubscriptionInv, MessageInv
<1>2. SubscriptionsRequested'
  <2> SUFFICES ASSUME NEW a \in Agents, NEW s \in Subscribers, subscriptions'[a][s] > 0
               PROVE  Requested(a, s[1], s[2])'
    BY DEF SubscriptionsRequested
  <2>1. CASE subscriptions[a][s] > 0
    BY <1>1, <2>1, RequestedStays DEF SubscriptionInv, SubscriptionsRequested
  <2>2. CASE ~(subscriptions[a][s] > 0)
    <3>1. subscriptions'[a][s] # subscriptions[a][s]
      BY <2>2
    <3>2. PICK m \in net : subscriptions' = subscribe(m.dst, m)
      BY <1>1, <3>1, SubscriptionEffect
    <3>3. m \in log /\ m \in Messages
      BY <1>1 DEF TypeOK
    <3>4. /\ handleObserve(m.dst, m)
          /\ subscriptions' = [subscriptions EXCEPT ![m.dst][<<m.topic, m.src>>] = @ + 1]
      BY <3>1, <3>2 DEF subscribe
    <3>5. subscriptions \in [Agents -> [Subscribers -> Nat]]
      BY <1>1 DEF TypeOK
    <3>6. a = m.dst /\ s = <<m.topic, m.src>>
      BY <3>1, <3>4, <3>5
    <3>7. m.verb = "OBSERVE" /\ m.kind = "request"
      BY <1>1, <3>3, <3>4 DEF handleObserve, MessageInv, ObservesAreRequests
    <3>8. Requested(a, s[1], s[2])
      BY <3>3, <3>6, <3>7 DEF Requested
    <3>9. QED
      BY <1>1, <3>8, RequestedStays
  <2>3. QED
    BY <2>1, <2>2
<1>3. LeftRequested'
  <2> SUFFICES ASSUME NEW a \in Agents, NEW s \in Subscribers, publishing'[a].left[s] > 0
               PROVE  topicMatches(s[1], publishing'[a].topic) /\ Requested(a, s[1], s[2])'
    BY DEF LeftRequested
  <2>1. topicMatches(s[1], publishing'[a].topic) /\ Requested(a, s[1], s[2])
    BY <1>1, PublishEffect DEF SubscriptionInv, SubscriptionsRequested, LeftRequested
  <2>2. QED
    BY <1>1, <2>1, RequestedStays
<1>4. NotifiedAsked'
  <2> SUFFICES ASSUME NEW n \in log', n.kind = "notify"
               PROVE  \E p \in ObserveTopics :
                         topicMatches(p, n.topic) /\ Requested(n.src, p, n.dst)'
    BY DEF NotifiedAsked
  <2>1. \E p \in ObserveTopics : topicMatches(p, n.topic) /\ Requested(n.src, p, n.dst)
    <3>1. CASE n \in log
      BY <3>1 DEF SubscriptionInv, NotifiedAsked
    <3>2. CASE n \notin log
      <4>1. n \in Messages /\ Origin(n)
        BY <1>1, <3>2, LogEffect
      <4>2. ASSUME NEW m \in net, n = createResponse(m), m.hop < MaxHop PROVE FALSE
        BY <1>1, <4>2, ResponseType DEF TypeOK
      <4>3. PICK a \in Agents, s \in Subscribers :
              /\ publishing[a].left[s] > 0
              /\ n.src = a /\ n.dst = s[2] /\ n.topic = publishing[a].topic
        BY <4>1, <4>2 DEF Origin
      <4>4. s[1] \in ObserveTopics
        BY DEF Subscribers
      <4>5. topicMatches(s[1], n.topic) /\ Requested(n.src, s[1], n.dst)
        BY <4>3 DEF SubscriptionInv, LeftRequested
      <4>6. QED
        BY <4>4, <4>5
    <3>3. QED
      BY <3>1, <3>2
  <2>2. QED
    BY <1>1, <2>1, RequestedStays
<1>5. QED
  BY <1>1, <1>2, <1>3, <1>4 DEF SubscriptionInv

\* Every subscription was asked for by the peer it names: no response that
\* comes back as an OBSERVE subscribes anyone (agent.cpp:446-466).
THEOREM SubscribersAsked == Spec => []SubscriptionsRequested
<1>1. SubscriptionInv => SubscriptionsRequested
  BY DEF SubscriptionInv
<1>2. QED
  BY <1>1, InitSubscriptions, StepSubscriptions, PTL DEF Spec

\* A notification reaches only agents that observed, at the notifier, a
\* pattern that matches its topic (agent.cpp:213-227).
THEOREM NotificationsAsked == Spec => []NotifiedAsked
<1>1. SubscriptionInv => NotifiedAsked
  BY DEF SubscriptionInv
<1>2. QED
  BY <1>1, InitSubscriptions, StepSubscriptions, PTL DEF Spec

-----------------------------------------------------------------------------
(* Exchanges of TELLs, and peers *)

(***************************************************************************)
(* A reply to a TELL has no topic, so no topic handler takes it, and no    *)
(* verb handler that an agent may have answers a TELL.                     *)
(***************************************************************************)
TellInv ==
    /\ MessageInv
    /\ \A a \in Agents : verbHandler[a]["TELL"] # "reply"
    /\ \A m \in log : m.verb = "TELL" => m.hop <= 1

\* verb_handlers_ changes to what the run lets the users register, or to
\* nothing (agent.cpp:236-244).
LEMMA HandlerEffect ==
  ASSUME TypeOK, [Next]_vars, <<"TELL", "reply">> \notin VerbHandlings,
         NEW a \in Agents, verbHandler'[a]["TELL"] = "reply"
  PROVE  verbHandler[a]["TELL"] = "reply"
<1>1. CASE verbHandler' = verbHandler
  BY <1>1
<1>2. CASE SendStep
  BY <1>1, <1>2, SendEffect
<1>3. CASE RegistryStep
  BY <1>1, <1>3 DEF RegistryStep, AddPeer, RemovePeer, handlerVars
<1>4. CASE DiscoverStep
  BY <1>1, <1>4, DiscoverEffect
<1>5. CASE ReceiveStep
  BY <1>1, <1>5 DEF ReceiveStep, Receive, handlerVars
<1>6. CASE LoseStep \/ UNCHANGED vars
  BY <1>1, <1>6 DEF LoseStep, Lose, vars, handlerVars
<1>7. CASE PublishStep
  BY <1>1, <1>7 DEF PublishStep, Publishes, NotifyTopic, NotifyOne, NotifyReturns, handlerVars
<1>8. CASE ConfigStep
  <2>1. PICK b \in Agents : Registers(b) \/ StartStop(b)
    BY <1>8 DEF ConfigStep
  <2>2. verbHandler \in [Agents -> [Verbs -> Kinds \cup {"none"}]]
    BY DEF TypeOK
  <2>3. CASE AddMessageHandler(b)
    <3>1. PICK h \in VerbHandlings : verbHandler' = [verbHandler EXCEPT ![b][h[1]] = h[2]]
      BY <2>3 DEF AddMessageHandler
    <3>2. h[1] = "TELL" => h[2] # "reply"
      BY NetworkAssumption
    <3>3. QED
      BY <2>2, <3>1, <3>2
  <2>4. CASE RemoveMessageHandler(b)
    BY <2>2, <2>4 DEF RemoveMessageHandler
  <2>5. CASE AddTopicHandler(b) \/ RemoveTopicHandler(b) \/ StartStop(b)
    BY <1>1, <2>5 DEF AddTopicHandler, RemoveTopicHandler, StartStop, handlerVars
  <2>6. QED
    BY <2>1, <2>3, <2>4, <2>5 DEF Registers
<1>9. QED
  BY <1>2, <1>3, <1>4, <1>5, <1>6, <1>7, <1>8, NextCases

\* A TELL answered by a step is not a reply itself.
LEMMA StepTells ==
  ASSUME <<"TELL", "reply">> \notin VerbHandlings
  PROVE  TellInv /\ [Next]_vars => TellInv'
<1> SUFFICES ASSUME TellInv, [Next]_vars PROVE TellInv'
  OBVIOUS
<1>1. TypeOK /\ MessageInv /\ MessageInv'
  BY StepMessages DEF TellInv, MessageInv
<1>2. \A a \in Agents : verbHandler'[a]["TELL"] # "reply"
  BY <1>1, HandlerEffect DEF TellInv
<1>3. ASSUME NEW n \in log', n.verb = "TELL" PROVE n.hop <= 1
  <2>1. CASE n \in log
    BY <1>3, <2>1 DEF TellInv
  <2>2. CASE n \notin log
    <3>1. n \in Messages /\ Origin(n)
      BY <1>1, <2>2, LogEffect
    <3>2. CASE n.hop = 0
      BY <3>2
    <3>3. CASE \E m \in net : n = createResponse(m) /\ m.hop < MaxHop
                              /\ handling(m.dst, m) = "reply"
      <4>1. PICK m \in net : /\ n = createResponse(m) /\ m.hop < MaxHop
                             /\ handling(m.dst, m) = "reply"
        BY <3>3
      <4>2. m \in log /\ m \in Messages /\ m.dst \in Agents /\ m.hop \in Nat
        BY <1>1 DEF TypeOK, Messages
      <4>3. m.verb = "TELL" /\ n.hop = m.hop + 1
        BY <1>3, <4>1, <4>2, ResponseType
      <4>4. verbHandler[m.dst]["TELL"] # "reply"
        BY <4>2 DEF TellInv
      <4>5. handleTell(m.dst, m) = "reply"
        BY <4>1, <4>3, <4>4 DEF handling, defaultHandling
      <4>6. m.topic # NoTopic
        BY <4>5 DEF handleTell, topicHandling
      <4>7. m.hop = 0
        BY <1>1, <4>2, <4>6 DEF MessageInv, RepliesHaveNoTopic
      <4>8. QED
        BY <4>3, <4>7
    <3>4. QED
      BY <3>1, <3>2, <3>3 DEF Origin
  <2>3. QED
    BY <2>1, <2>2
<1>4. QED
  BY <1>1, <1>2, <1>3 DEF TellInv

\* An exchange of TELLs ends with one reply, whatever topic handlers there
\* are, unless a verb handler answers every TELL (agent.cpp:414-430).
THEOREM TellsEnd == Spec => []TellExchangesEnd
<1>1. CASE <<"TELL", "reply">> \in VerbHandlings
  <2>1. TellExchangesEnd
    BY <1>1 DEF TellExchangesEnd
  <2>2. QED
    BY <2>1, PTL
<1>2. CASE <<"TELL", "reply">> \notin VerbHandlings
  <2>1. Init => TellInv
    BY InitMessages DEF Init, TellInv, Verbs
  <2>2. TellInv /\ [Next]_vars => TellInv'
    BY <1>2, StepTells
  <2>3. TellInv => TellExchangesEnd
    BY DEF TellInv, TellExchangesEnd
  <2>4. QED
    BY <2>1, <2>2, <2>3, PTL DEF Spec
<1>3. QED
  BY <1>1, <1>2

\* peers_ changes when the user adds or removes a peer, and when the
\* receiver records a sender (agent.cpp:112-131, 350).
LEMMA PeerEffect ==
  ASSUME TypeOK, [Next]_vars
  PROVE  \/ UNCHANGED <<peers, introduced>>
         \/ \E a, b \in Agents : AddPeer(a, b) \/ RemovePeer(a, b)
         \/ \E m \in net : peers' = recordSender(m.dst, m) /\ introduced' = introduced
<1>1. CASE SendStep
  BY <1>1, SendEffect
<1>2. CASE RegistryStep
  BY <1>2 DEF RegistryStep
<1>3. CASE ConfigStep
  BY <1>3 DEF ConfigStep, Registers, AddMessageHandler, RemoveMessageHandler,
     AddTopicHandler, RemoveTopicHandler, StartStop
<1>4. CASE PublishStep
  BY <1>4 DEF PublishStep, Publishes, NotifyTopic, NotifyOne, NotifyReturns
<1>5. CASE DiscoverStep
  BY <1>5, DiscoverEffect
<1>6. CASE ReceiveStep
  BY <1>6 DEF ReceiveStep, Receive
<1>7. CASE LoseStep \/ UNCHANGED vars
  BY <1>7 DEF LoseStep, Lose, vars
<1>8. QED
  BY <1>1, <1>2, <1>3, <1>4, <1>5, <1>6, <1>7, NextCases

\* What a recorded sender does to the registry: nothing to a known peer.
LEMMA RecordEffect ==
  ASSUME TypeOK, NEW m \in net, peers' = recordSender(m.dst, m),
         NEW a \in Agents, NEW b \in Agents
  PROVE  \/ peers'[a][b] = peers[a][b]
         \/ peers[a][b] = "absent" /\ a = m.dst /\ b = m.src
<1>1. peers \in [Agents -> [Agents -> {"absent", "anonymous", "named"}]]
  BY DEF TypeOK
<1>2. QED
  BY <1>1 DEF recordSender

PeerInv == TypeOK /\ PeersAreKnown

\* Every step leaves the registry with peers that are known.
LEMMA StepPeers == PeerInv /\ [Next]_vars => PeerInv'
<1> SUFFICES ASSUME PeerInv, [Next]_vars PROVE PeerInv'
  OBVIOUS
<1>1. TypeOK /\ TypeOK'
  BY StepType DEF PeerInv
<1>2. log \subseteq log'
  BY <1>1, LogEffect
<1>3. peers \in [Agents -> [Agents -> {"absent", "anonymous", "named"}]]
  BY <1>1 DEF TypeOK
<1> SUFFICES ASSUME NEW a \in Agents, NEW b \in Agents, peers'[a][b] # "absent"
             PROVE  \/ <<a, b>> \in introduced'
                    \/ \E m \in log' : m.src = b /\ m.dst = a
  BY <1>1 DEF PeerInv, PeersAreKnown
<1>4. CASE UNCHANGED <<peers, introduced>>
  BY <1>2, <1>4 DEF PeerInv, PeersAreKnown
<1>5. CASE \E c, d \in Agents : AddPeer(c, d)
  <2>1. PICK c \in Agents, d \in Agents : AddPeer(c, d)
    BY <1>5
  <2>2. CASE a = c /\ b = d
    BY <2>1, <2>2 DEF AddPeer
  <2>3. CASE ~(a = c /\ b = d)
    <3>1. peers'[a][b] = peers[a][b] /\ introduced \subseteq introduced'
      BY <1>3, <2>1, <2>3 DEF AddPeer
    <3>2. QED
      BY <1>2, <3>1 DEF PeerInv, PeersAreKnown
  <2>4. QED
    BY <2>2, <2>3
<1>6. CASE \E c, d \in Agents : RemovePeer(c, d)
  <2>1. PICK c \in Agents, d \in Agents : RemovePeer(c, d)
    BY <1>6
  <2>2. ~(a = c /\ b = d)
    BY <1>3, <2>1 DEF RemovePeer
  <2>3. peers'[a][b] = peers[a][b] /\ introduced' = introduced \ {<<c, d>>}
    BY <1>3, <2>1, <2>2 DEF RemovePeer
  <2>4. QED
    BY <1>2, <2>2, <2>3 DEF PeerInv, PeersAreKnown
<1>7. CASE \E m \in net : peers' = recordSender(m.dst, m) /\ introduced' = introduced
  <2>1. PICK m \in net : peers' = recordSender(m.dst, m) /\ introduced' = introduced
    BY <1>7
  <2>2. m \in log'
    BY <1>1, <1>2 DEF TypeOK
  <2>3. CASE peers'[a][b] = peers[a][b]
    BY <1>2, <2>1, <2>3 DEF PeerInv, PeersAreKnown
  <2>4. CASE a = m.dst /\ b = m.src
    BY <2>2, <2>4
  <2>5. QED
    BY <1>1, <2>1, <2>3, <2>4, RecordEffect
<1>8. QED
  BY <1>1, <1>4, <1>5, <1>6, <1>7, PeerEffect

\* A peer that an agent lists has sent it a datagram or was added by its
\* user (agent.cpp:112-125, 350).
THEOREM PeersKnown == Spec => []PeersAreKnown
<1>1. Init => PeerInv
  BY InitType DEF Init, PeerInv, PeersAreKnown
<1>2. PeerInv => PeersAreKnown
  BY DEF PeerInv
<1>3. QED
  BY <1>1, <1>2, StepPeers, PTL DEF Spec

\* No datagram makes an agent forget the id of a peer: only its user's
\* removePeer does (agent.cpp:117-131).
THEOREM NamesKept == Spec => NamesStay
<1>1. ASSUME TypeOK, [Next]_vars
      PROVE  \A a, b \in Agents :
                peers[a][b] = "named" /\ peers'[a][b] # "named" => RemovePeer(a, b)
  <2> SUFFICES ASSUME NEW a \in Agents, NEW b \in Agents,
                      peers[a][b] = "named", peers'[a][b] # "named"
               PROVE  RemovePeer(a, b)
    OBVIOUS
  <2>1. peers \in [Agents -> [Agents -> {"absent", "anonymous", "named"}]]
    BY <1>1 DEF TypeOK
  <2>2. ~ \E m \in net : peers' = recordSender(m.dst, m)
    BY <1>1, RecordEffect
  <2>3. PICK c \in Agents, d \in Agents : AddPeer(c, d) \/ RemovePeer(c, d)
    BY <1>1, <2>2, PeerEffect
  <2>4. CASE AddPeer(c, d)
    BY <2>1, <2>4 DEF AddPeer
  <2>5. CASE RemovePeer(c, d)
    <3>1. a = c /\ b = d
      BY <2>1, <2>5 DEF RemovePeer
    <3>2. QED
      BY <2>5, <3>1
  <2>6. QED
    BY <2>3, <2>4, <2>5
<1>2. TypeOK /\ [Next]_vars =>
        [\A a, b \in Agents :
           peers[a][b] = "named" /\ peers'[a][b] # "named" => RemovePeer(a, b)]_vars
  BY <1>1
<1>3. QED
  BY <1>2, TypeCorrect, PTL DEF Spec, NamesStay
=============================================================================
