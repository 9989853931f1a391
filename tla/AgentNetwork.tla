---------------------------- MODULE AgentNetwork ----------------------------
(***************************************************************************)
(* Agents that exchange messages over UDP (src/src/agent.cpp): the calls   *)
(* that send (ping, tell, ask, observe, notifyTopic, discoverPeers), what  *)
(* the receiver thread does with a datagram, the registry of peers, the    *)
(* subscriptions and the registered handlers.  The network loses,          *)
(* duplicates and reorders datagrams.                                      *)
(*                                                                         *)
(* Abstracted: an agent is its own host:port; a payload is left out, since *)
(* agents look at nothing but whether a response has one; the order of     *)
(* subscriptions_ decides nothing and they are counted.  The receiver      *)
(* handles a datagram in one step (AgentDispatch has the locks and the     *)
(* steps in between), and start() and stop() are one step each             *)
(* (AgentLifecycle has theirs).                                            *)
(*                                                                         *)
(* Assumed: a registered handler returns a message that createResponse     *)
(* made of the one it was given, as every handler of the library, its      *)
(* examples and its tests does.  The agent would send any other message    *)
(* with a payload as well (agent.cpp:371, 421, 439, 405-410).              *)
(***************************************************************************)
EXTENDS TopicMatch, FiniteSets

CONSTANTS
    Agents,
    Ids,             \* what generateMessageId may return: it may repeat
    QoS,             \* the levels the calls use
    TellTopics,      \* topics told, asked and notified; NoTopic is none
    ObserveTopics,   \* topics observed, which may hold wildcards
    HandlerPatterns, \* patterns of topic handlers, in the order of the map
    VerbHandlings,   \* <<verb, kind>>: the verb handlers agents may register
    TopicHandlings,  \* <<index in HandlerPatterns, kind>>: the topic handlers
    Calls,           \* the calls users make
    SendsFail,       \* may sendto fail?
    MaxCalls, MaxDuplicates, MaxLosses, MaxHop
                     \* bounds on user calls, repeated and lost deliveries, replies

NoTopic == <<>>
Verbs == {"PING", "TELL", "ASK", "OBSERVE"}

\* What a handler does with a message: return no payload, return a response
\* with one, throw.
Kinds == {"silent", "reply", "throw"}

ASSUME NetworkAssumption ==
    /\ QoS \subseteq 0..2
    /\ NoTopic \notin ObserveTopics
    /\ VerbHandlings \subseteq Verbs \X Kinds
    /\ TopicHandlings \subseteq (DOMAIN HandlerPatterns) \X Kinds
    /\ SendsFail \in BOOLEAN
    /\ MaxCalls \in Nat /\ MaxDuplicates \in Nat /\ MaxLosses \in Nat /\ MaxHop \in Nat

VARIABLES
    running,        \* running_, and the transport is bound
    peers,          \* peers_: "absent", or known with or without an agent id
    subscriptions,  \* subscriptions_: how many entries for a topic and a peer
    verbHandler,    \* verb_handlers_
    topicHandler,   \* topic_handlers_
    sent,           \* messages_sent_
    publishing,     \* the call of notifyTopic that holds subscriptions_mutex_
    net,            \* the datagrams in flight
    log,            \* history: every datagram that was put on the network
    introduced,     \* history: the peers the users added by hand
    calls, duplicates, losses    \* the bounds' counters

vars == <<running, peers, subscriptions, verbHandler, topicHandler, sent,
          publishing, net, log, introduced, calls, duplicates, losses>>

handlerVars == <<verbHandler, topicHandler>>
boundVars == <<calls, duplicates, losses>>

(***************************************************************************)
(* A datagram.  "kind" and "hop" are not on the wire: they say which code  *)
(* made it and how many replies led to it.                                 *)
(***************************************************************************)
MessageKinds == {"request", "notify", "discovery", "reply"}

Messages ==
    [verb : Verbs, topic : TellTopics \cup ObserveTopics \cup {NoTopic}, qos : QoS \cup {0},
     id : Ids, src : Agents, dst : Agents, kind : MessageKinds, hop : 0..MaxHop]

Message(verb, topic, qos, id, a, b, kind) ==
    [verb |-> verb, topic |-> topic, qos |-> qos, id |-> id, src |-> a, dst |-> b,
     kind |-> kind, hop |-> 0]

\* Mutant: the response takes the options of the request along.
Bug_ResponseKeepsTopic(m) ==
    [verb |-> m.verb, topic |-> m.topic, qos |-> m.qos, id |-> m.id,
     src |-> m.dst, dst |-> m.src, kind |-> "reply", hop |-> m.hop + 1]

\* The same version, verb, QoS and id, and no options: nothing on the wire
\* tells a response from a request.
createResponse(m) ==
    [verb |-> m.verb, topic |-> NoTopic, qos |-> m.qos, id |-> m.id,
     src |-> m.dst, dst |-> m.src, kind |-> "reply", hop |-> m.hop + 1]

Subscribers == ObserveTopics \X Agents
NobodyLeft == [s \in Subscribers |-> 0]
NotPublishing == [on |-> FALSE, topic |-> NoTopic, qos |-> 0, left |-> NobodyLeft,
                  notified |-> 0]

Init ==
    /\ running = [a \in Agents |-> TRUE]
    /\ peers = [a \in Agents |-> [b \in Agents |-> "absent"]]
    /\ subscriptions = [a \in Agents |-> NobodyLeft]
    /\ verbHandler = [a \in Agents |-> [v \in Verbs |-> "none"]]
    /\ topicHandler = [a \in Agents |-> [i \in DOMAIN HandlerPatterns |-> "none"]]
    /\ sent = [a \in Agents |-> 0]
    /\ publishing = [a \in Agents |-> NotPublishing]
    /\ net = {} /\ log = {}
    /\ introduced = {}
    /\ calls = 0 /\ duplicates = 0 /\ losses = 0

-----------------------------------------------------------------------------
(* Calls that send *)

\* The user calls the agent: which calls the run makes, and how many.
Call(name) ==
    /\ name \in Calls
    /\ calls < MaxCalls
    /\ calls' = calls + 1

\* The transport sends when it is bound and the OS takes the datagram, or fails.
transportSends(a, ok) == IF ok THEN running[a] ELSE SendsFail \/ ~running[a]

\* What sendBroadcast puts on the network: one datagram for every agent that
\* listens on the port, a itself included.
sendBroadcast(a, id, listening) ==
    {Message("PING", NoTopic, 0, id, a, b, "discovery") : b \in listening}

(***************************************************************************)
(* sendToPeer: a transport that is not bound or whose sendto fails ends    *)
(* the call with nothing changed, so only the send that succeeds is here.  *)
(***************************************************************************)
sendToPeer(a, m) ==
    /\ transportSends(a, TRUE)
    /\ net' = net \cup {m} /\ log' = log \cup {m}
    /\ sent' = [sent EXCEPT ![a] = @ + 1]
    /\ UNCHANGED <<running, peers, subscriptions, verbHandler, topicHandler, publishing,
                   introduced, duplicates, losses>>

Ping(a, b) ==
    /\ Call("ping")
    /\ \E id \in Ids : sendToPeer(a, Message("PING", NoTopic, 0, id, a, b, "request"))

Tell(a, b) ==
    /\ Call("tell")
    /\ \E topic \in TellTopics, qos \in QoS, id \in Ids :
          sendToPeer(a, Message("TELL", topic, qos, id, a, b, "request"))

Ask(a, b) ==
    /\ Call("ask")
    /\ \E topic \in TellTopics, qos \in QoS, id \in Ids :
          sendToPeer(a, Message("ASK", topic, qos, id, a, b, "request"))

Observe(a, b) ==
    /\ Call("observe")
    /\ \E topic \in ObserveTopics, qos \in QoS, id \in Ids :
          sendToPeer(a, Message("OBSERVE", topic, qos, id, a, b, "request"))

\* messages_sent_ does not count what is broadcast.
DiscoverPeers(a) ==
    /\ Call("discover") /\ running[a]
    /\ \E id \in Ids, listening \in SUBSET Agents :
        /\ net' = net \cup sendBroadcast(a, id, listening)
        /\ log' = log \cup sendBroadcast(a, id, listening)
    /\ UNCHANGED <<running, peers, subscriptions, handlerVars, sent, publishing,
                   introduced, duplicates, losses>>

-----------------------------------------------------------------------------
(* notifyTopic, which sends while it holds subscriptions_mutex_ *)

\* Mutant: every subscriber is told, whatever its topic.
Bug_NotifyAll(a) ==
    /\ Call("notify")
    /\ ~publishing[a].on
    /\ \E topic \in TellTopics \ {NoTopic}, qos \in QoS :
          publishing' = [publishing EXCEPT ![a] =
              [on |-> TRUE, topic |-> topic, qos |-> qos, notified |-> 0,
               left |-> subscriptions[a]]]
    /\ UNCHANGED <<running, peers, subscriptions, handlerVars, sent, net, log,
                   introduced, duplicates, losses>>

NotifyTopic(a) ==
    /\ Call("notify")
    /\ ~publishing[a].on
    /\ \E topic \in TellTopics \ {NoTopic}, qos \in QoS :
          publishing' = [publishing EXCEPT ![a] =
              [on |-> TRUE, topic |-> topic, qos |-> qos, notified |-> 0,
               left |-> [s \in Subscribers |->
                   IF topicMatches(s[1], topic) THEN subscriptions[a][s] ELSE 0]]]
    /\ UNCHANGED <<running, peers, subscriptions, handlerVars, sent, net, log,
                   introduced, duplicates, losses>>

(***************************************************************************)
(* One subscription: the send may fail (the transport was closed, sendto   *)
(* refused), and notified is incremented all the same.                     *)
(***************************************************************************)
NotifyOne(a) ==
    /\ \E s \in Subscribers, ok \in BOOLEAN, id \in Ids :
        /\ publishing[a].left[s] > 0
        /\ transportSends(a, ok)
        /\ LET p == publishing[a]
           IN  publishing' = [publishing EXCEPT ![a] =
                 [on |-> p.on, topic |-> p.topic, qos |-> p.qos,
                  left |-> [p.left EXCEPT ![s] = @ - 1], notified |-> p.notified + 1]]
        /\ LET tells == IF ok
                        THEN {Message("TELL", publishing[a].topic, publishing[a].qos, id,
                                      a, s[2], "notify")}
                        ELSE {}
           IN  net' = net \cup tells /\ log' = log \cup tells
        /\ sent' = [sent EXCEPT ![a] = IF ok THEN @ + 1 ELSE @]
    /\ UNCHANGED <<running, peers, subscriptions, handlerVars, introduced, boundVars>>

NotifyReturns(a) ==
    /\ publishing[a].on /\ publishing[a].left = NobodyLeft
    /\ publishing' = [publishing EXCEPT ![a] = NotPublishing]
    /\ UNCHANGED <<running, peers, subscriptions, handlerVars, sent, net, log,
                   introduced, boundVars>>

-----------------------------------------------------------------------------
(* The registry of peers, the handlers, the lifecycle *)

AddPeer(a, b) ==
    /\ Call("registry")
    /\ \E named \in BOOLEAN :
          peers' = [peers EXCEPT ![a][b] =
              IF named THEN "named" ELSE IF @ = "absent" THEN "anonymous" ELSE @]
    /\ introduced' = introduced \cup {<<a, b>>}
    /\ UNCHANGED <<running, subscriptions, handlerVars, sent, publishing, net, log, duplicates, losses>>

RemovePeer(a, b) ==
    /\ Call("registry")
    /\ peers' = [peers EXCEPT ![a][b] = "absent"]
    /\ introduced' = introduced \ {<<a, b>>}
    /\ UNCHANGED <<running, subscriptions, handlerVars, sent, publishing, net, log, duplicates, losses>>

AddMessageHandler(a) ==
    /\ Call("handler")
    /\ \E h \in VerbHandlings : verbHandler' = [verbHandler EXCEPT ![a][h[1]] = h[2]]
    /\ UNCHANGED <<running, peers, subscriptions, topicHandler, sent, publishing, net, log,
                   introduced, duplicates, losses>>

RemoveMessageHandler(a) ==
    /\ Call("handler")
    /\ \E h \in VerbHandlings : verbHandler' = [verbHandler EXCEPT ![a][h[1]] = "none"]
    /\ UNCHANGED <<running, peers, subscriptions, topicHandler, sent, publishing, net, log,
                   introduced, duplicates, losses>>

AddTopicHandler(a) ==
    /\ Call("handler")
    /\ \E h \in TopicHandlings : topicHandler' = [topicHandler EXCEPT ![a][h[1]] = h[2]]
    /\ UNCHANGED <<running, peers, subscriptions, verbHandler, sent, publishing, net, log,
                   introduced, duplicates, losses>>

RemoveTopicHandler(a) ==
    /\ Call("handler")
    /\ \E h \in TopicHandlings : topicHandler' = [topicHandler EXCEPT ![a][h[1]] = "none"]
    /\ UNCHANGED <<running, peers, subscriptions, verbHandler, sent, publishing, net, log,
                   introduced, duplicates, losses>>

\* A stopped agent keeps its peers, subscriptions and handlers.
StartStop(a) ==
    /\ Call("restart")
    /\ running' = [running EXCEPT ![a] = ~@]
    /\ UNCHANGED <<peers, subscriptions, handlerVars, sent, publishing, net, log,
                   introduced, duplicates, losses>>

-----------------------------------------------------------------------------
(* The receiver: receiverLoop and handleIncomingMessage *)

\* The first handler, in the order of the map, whose pattern matches.
findTopicHandler(a, topic) ==
    LET matching == {i \in DOMAIN HandlerPatterns :
                        /\ topicHandler[a][i] # "none"
                        /\ topicMatches(HandlerPatterns[i], topic)}
    IN  IF matching = {} THEN "none"
        ELSE topicHandler[a][CHOOSE i \in matching : \A j \in matching : i <= j]

\* What the topic handler does with the message, "none" when there is none.
topicHandling(a, m) == IF m.topic = NoTopic THEN "none" ELSE findTopicHandler(a, m.topic)

\* handleTell answers a TELL of QoS 1 or 2 with a response that has no
\* payload, which handleIncomingMessage then does not send.
handleTell(a, m) == IF topicHandling(a, m) = "none" THEN "silent" ELSE topicHandling(a, m)

handleAsk(a, m) == IF topicHandling(a, m) = "none" THEN "reply" ELSE topicHandling(a, m)

\* "pong"
handlePing == "reply"

defaultHandling(a, m) ==
    CASE m.verb = "PING" -> handlePing
      [] m.verb = "TELL" -> handleTell(a, m)
      [] m.verb = "ASK" -> handleAsk(a, m)
      [] m.verb = "OBSERVE" -> "reply"

\* The default handler also runs when the verb handler returned no payload.
handling(a, m) ==
    IF verbHandler[a][m.verb] \in {"reply", "throw"}
    THEN verbHandler[a][m.verb]
    ELSE defaultHandling(a, m)

\* handleObserve adds a subscription, again if there is one already.
handleObserve(a, m) ==
    /\ m.verb = "OBSERVE" /\ m.topic # NoTopic
    /\ verbHandler[a]["OBSERVE"] \notin {"reply", "throw"}

\* Mutant: the subscription names this agent in the place of the sender.
Bug_subscribeSelf(a, m) ==
    IF handleObserve(a, m)
    THEN [subscriptions EXCEPT ![a][<<m.topic, a>>] = @ + 1]
    ELSE subscriptions

\* Mutant: an OBSERVE takes an entry away.
Bug_subscribeErases(a, m) ==
    IF handleObserve(a, m)
    THEN [subscriptions EXCEPT ![a][<<m.topic, m.src>>] = @ - 1]
    ELSE subscriptions

subscribe(a, m) ==
    IF handleObserve(a, m)
    THEN [subscriptions EXCEPT ![a][<<m.topic, m.src>>] = @ + 1]
    ELSE subscriptions

\* Mutant: the entry of a known peer is overwritten, its agent id lost.
Bug_recordSenderAnew(a, m) == [peers EXCEPT ![a][m.src] = "anonymous"]

recordSender(a, m) ==
    [peers EXCEPT ![a][m.src] = IF @ = "absent" THEN "anonymous" ELSE @]

(***************************************************************************)
(* The receiver takes datagram m, which the network may deliver again.     *)
(* handleObserve waits for notifyTopic's lock.  The response counts as     *)
(* sent whether or not the transport sent it.                              *)
(***************************************************************************)
Receive(a, m) ==
    /\ m.dst = a /\ running[a]
    /\ handling(a, m) = "reply" => m.hop < MaxHop
    /\ handleObserve(a, m) => ~publishing[a].on
    /\ peers' = recordSender(a, m)
    /\ subscriptions' = subscribe(a, m)
    /\ \E again, ok \in BOOLEAN :
        /\ again => duplicates < MaxDuplicates
        /\ transportSends(a, ok)
        /\ duplicates' = IF again THEN duplicates + 1 ELSE duplicates
        /\ LET responses == IF ok /\ handling(a, m) = "reply" THEN {createResponse(m)} ELSE {}
           IN  /\ net' = (IF again THEN net ELSE net \ {m}) \cup responses
               /\ log' = log \cup responses
    /\ sent' = IF handling(a, m) = "reply" THEN [sent EXCEPT ![a] = @ + 1] ELSE sent
    /\ UNCHANGED <<running, handlerVars, publishing, introduced, calls, losses>>

\* The network drops a datagram.
Lose(m) ==
    /\ losses < MaxLosses
    /\ net' = net \ {m}
    /\ losses' = losses + 1
    /\ UNCHANGED <<running, peers, subscriptions, handlerVars, sent, publishing, log,
                   introduced, calls, duplicates>>

-----------------------------------------------------------------------------

Sends(a, b) == Ping(a, b) \/ Tell(a, b) \/ Ask(a, b) \/ Observe(a, b)

Publishes(a) == NotifyTopic(a) \/ NotifyOne(a) \/ NotifyReturns(a)

Registers(a) ==
    \/ AddMessageHandler(a) \/ RemoveMessageHandler(a)
    \/ AddTopicHandler(a) \/ RemoveTopicHandler(a)

Next ==
    \/ \E a, b \in Agents : Sends(a, b) \/ AddPeer(a, b) \/ RemovePeer(a, b)
    \/ \E a \in Agents : DiscoverPeers(a) \/ Publishes(a) \/ Registers(a) \/ StartStop(a)
    \/ \E m \in net : Receive(m.dst, m) \/ Lose(m)

Spec == Init /\ [][Next]_vars

(***************************************************************************)
(* The receiver thread of an agent keeps polling, and a call of            *)
(* notifyTopic that has begun goes on.  Users need not call anything.      *)
(***************************************************************************)
FairSpec ==
    /\ Spec
    /\ \A a \in Agents : WF_vars(NotifyOne(a) \/ NotifyReturns(a))
    /\ \A a \in Agents : WF_vars(\E m \in net : Receive(a, m))

-----------------------------------------------------------------------------
(* Properties *)

TypeOK ==
    /\ running \in [Agents -> BOOLEAN]
    /\ peers \in [Agents -> [Agents -> {"absent", "anonymous", "named"}]]
    /\ subscriptions \in [Agents -> [Subscribers -> Nat]]
    /\ verbHandler \in [Agents -> [Verbs -> Kinds \cup {"none"}]]
    /\ topicHandler \in [Agents -> [DOMAIN HandlerPatterns -> Kinds \cup {"none"}]]
    /\ sent \in [Agents -> Nat]
    /\ publishing \in [Agents ->
          [on : BOOLEAN, topic : TellTopics \cup {NoTopic}, qos : QoS \cup {0},
           left : [Subscribers -> Nat], notified : Nat]]
    /\ net \subseteq log /\ log \subseteq Messages
    /\ introduced \subseteq Agents \X Agents
    /\ calls \in 0..MaxCalls /\ duplicates \in 0..MaxDuplicates /\ losses \in 0..MaxLosses

(***************************************************************************)
(* Every subscription was asked for: the peer it names sent an OBSERVE for *)
(* its topic to this very agent.  The responses "Subscribed" and "Missing  *)
(* topic" come back as OBSERVEs and must not subscribe anyone, which they  *)
(* do not as they carry no topic (agent.cpp:446-466, message.cpp:176-183). *)
(***************************************************************************)
Requested(a, topic, b) ==
    \E m \in log : /\ m.verb = "OBSERVE" /\ m.topic = topic /\ m.kind = "request"
                   /\ m.src = b /\ m.dst = a

SubscriptionsRequested ==
    \A a \in Agents, s \in Subscribers :
        subscriptions[a][s] > 0 => Requested(a, s[1], s[2])

\* A notification only goes to an agent that once observed, at the notifier,
\* a pattern that matches its topic (agent.cpp:213-227).
NotifiedAsked ==
    \A n \in log : n.kind = "notify" =>
        \E p \in ObserveTopics : topicMatches(p, n.topic) /\ Requested(n.src, p, n.dst)

\* Whom an agent lists as a peer has sent it something or was added by its
\* user (agent.cpp:112-125, 350).
PeersAreKnown ==
    \A a, b \in Agents : peers[a][b] # "absent" =>
        \/ <<a, b>> \in introduced
        \/ \E m \in log : m.src = b /\ m.dst = a

(***************************************************************************)
(* An exchange of TELLs is over after one reply, although a reply is a     *)
(* TELL too, as long as nobody registers a verb handler that answers every *)
(* TELL (agent.cpp:414-430).                                               *)
(***************************************************************************)
TellExchangesEnd ==
    <<"TELL", "reply">> \notin VerbHandlings =>
        \A m \in log : m.verb = "TELL" => m.hop <= 1

\* The id of a peer is lost only when the user removes the peer: a datagram
\* from the peer does not overwrite it (agent.cpp:117-121, 350).
NamesStay ==
    [][\A a, b \in Agents :
        peers[a][b] = "named" /\ peers'[a][b] # "named" => RemovePeer(a, b)]_vars

\* An OBSERVE that the network does not lose ends in a subscription, or its
\* addressee is stopped, however the calls of notifyTopic hold the lock
\* (agent.cpp:446-463, 214).
SubscriptionTakesHold ==
    \A a, b \in Agents, p \in ObserveTopics :
        (\E m \in net : /\ m.verb = "OBSERVE" /\ m.topic = p
                        /\ m.src = a /\ m.dst = b)
        ~> subscriptions[b][<<p, a>>] > 0 \/ ~running[b] \/ losses > 0

-----------------------------------------------------------------------------
(* What a comment says and the code does not do *)

\* message.h:214 "Check if message is a response": whoever receives a
\* response can tell, and does not answer it.
ResponsesAreNotAnswered == \A m \in log : m.hop <= 1
=============================================================================
