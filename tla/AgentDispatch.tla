--------------------------- MODULE AgentDispatch ---------------------------
(***************************************************************************)
(* Who holds which lock while an agent dispatches a message                *)
(* (src/src/agent.cpp): the receiver thread in handleIncomingMessage, user *)
(* threads that add and remove handlers and call notifyTopic, and handlers *)
(* that call the agent back.  AgentNetwork does all of this in one step    *)
(* per message.                                                            *)
(*                                                                         *)
(* A handler is known by what it calls.  Its function object lives while   *)
(* the map holds it, and "destroyed" follows the one that runs.            *)
(* Abstracted: what a message says but for the code it leads to (a TELL    *)
(* and an ASK look for a topic handler, an OBSERVE subscribes, a PING and  *)
(* whatever has no topic do neither); one topic pattern; peers_mutex_,     *)
(* under which no other lock is taken; stop().                             *)
(***************************************************************************)
EXTENDS Naturals

CONSTANTS
    Users,         \* user threads
    Receiver,      \* the receiver thread
    VerbScripts,   \* what a handler of a verb may call, see Scripts
    TopicScripts,  \* what a topic handler may call
    TopicsChange,  \* do users add and remove topic handlers at any time?
    MaxCalls,      \* bound on the calls of the users
    NoThread

\* A handler calls nothing, addMessageHandler, or notifyTopic.
Scripts == {"nothing", "registers", "notifies"}
NoHandler == "none"
Verbs == {"PING", "TELL", "OBSERVE"}

ASSUME DispatchAssumption ==
    /\ Receiver \notin Users /\ NoThread \notin Users \cup {Receiver}
    /\ VerbScripts \subseteq Scripts /\ TopicScripts \subseteq Scripts
    /\ TopicsChange \in BOOLEAN /\ MaxCalls \in Nat

VARIABLES
    pc,              \* where each thread is
    handlersMutex,   \* the thread that holds handlers_mutex_
    subsMutex,       \* the thread that holds subscriptions_mutex_
    verbHandler,     \* verb_handlers_
    topicHandler,    \* topic_handlers_, for one pattern
    verb,            \* the verb of the message that the receiver handles
    running,         \* the handler that the receiver runs or is about to run
    destroyed,       \* history: that handler is in its map no more
    calls            \* the bound's counter

vars == <<pc, handlersMutex, subsMutex, verbHandler, topicHandler, verb, running, destroyed, calls>>
maps == <<verbHandler, topicHandler>>

Threads == Users \cup {Receiver}
VerbStages == {"verb", "verbNotify", "verbEnd"}
TopicStages == {"topic", "topicNotify", "topicEnd"}
ReceiverLabels == {"loop", "lookup", "default"} \cup VerbStages \cup TopicStages
Operations == {"addVerb", "removeVerb", "addTopic", "removeTopic", "notify"}
UserLabels == {"idle", "notifying"} \cup Operations

Goto(t, label) == pc' = [pc EXCEPT ![t] = label]

\* The entry of a verb, or of the topic, is written.
verbEntryWritten(v) == destroyed' = (destroyed \/ (pc[Receiver] \in VerbStages /\ verb = v))
topicEntryWritten == destroyed' = (destroyed \/ pc[Receiver] \in TopicStages)

Init ==
    /\ pc = [t \in Threads |-> IF t = Receiver THEN "loop" ELSE "idle"]
    /\ handlersMutex = NoThread /\ subsMutex = NoThread
    /\ verbHandler = [v \in Verbs |-> NoHandler]
    /\ topicHandler \in TopicScripts \cup {NoHandler}
    /\ verb = "PING" /\ running = NoHandler /\ destroyed = FALSE
    /\ calls = 0

-----------------------------------------------------------------------------
(* User threads *)

\* A call begins, and waits for its lock.
Begin(u) ==
    /\ pc[u] = "idle" /\ calls < MaxCalls
    /\ calls' = calls + 1
    /\ \E op \in Operations :
        /\ op \in {"addTopic", "removeTopic"} => TopicsChange
        /\ Goto(u, op)
    /\ UNCHANGED <<handlersMutex, subsMutex, maps, verb, running, destroyed>>

\* Takes the lock, assigns, releases it.
AddMessageHandler(u) ==
    /\ pc[u] = "addVerb" /\ handlersMutex = NoThread
    /\ \E v \in Verbs, h \in VerbScripts :
        /\ verbHandler' = [verbHandler EXCEPT ![v] = h]
        /\ verbEntryWritten(v)
    /\ Goto(u, "idle")
    /\ UNCHANGED <<handlersMutex, subsMutex, topicHandler, verb, running, calls>>

RemoveMessageHandler(u) ==
    /\ pc[u] = "removeVerb" /\ handlersMutex = NoThread
    /\ \E v \in Verbs :
        /\ verbHandler' = [verbHandler EXCEPT ![v] = NoHandler]
        /\ verbEntryWritten(v)
    /\ Goto(u, "idle")
    /\ UNCHANGED <<handlersMutex, subsMutex, topicHandler, verb, running, calls>>

AddTopicHandler(u) ==
    /\ pc[u] = "addTopic" /\ handlersMutex = NoThread
    /\ topicHandler' \in TopicScripts
    /\ topicEntryWritten
    /\ Goto(u, "idle")
    /\ UNCHANGED <<handlersMutex, subsMutex, verbHandler, verb, running, calls>>

RemoveTopicHandler(u) ==
    /\ pc[u] = "removeTopic" /\ handlersMutex = NoThread
    /\ topicHandler' = NoHandler
    /\ topicEntryWritten
    /\ Goto(u, "idle")
    /\ UNCHANGED <<handlersMutex, subsMutex, verbHandler, verb, running, calls>>

NotifyTopic(u) ==
    /\ pc[u] = "notify" /\ subsMutex = NoThread
    /\ subsMutex' = u
    /\ Goto(u, "notifying")
    /\ UNCHANGED <<handlersMutex, maps, verb, running, destroyed, calls>>

\* The sends are over and the lock is released.
NotifyReturns(u) ==
    /\ pc[u] = "notifying"
    /\ subsMutex' = NoThread
    /\ Goto(u, "idle")
    /\ UNCHANGED <<handlersMutex, maps, verb, running, destroyed, calls>>

-----------------------------------------------------------------------------
(* The receiver *)

Take ==
    /\ pc[Receiver] = "loop"
    /\ verb' \in Verbs
    /\ Goto(Receiver, "lookup")
    /\ UNCHANGED <<handlersMutex, subsMutex, maps, running, destroyed, calls>>

\* Mutant: the lock is released between the lookup and the call.
Bug_FindThenUnlock ==
    /\ pc[Receiver] = "lookup" /\ handlersMutex = NoThread
    /\ verbHandler[verb] # NoHandler
    /\ running' = verbHandler[verb] /\ destroyed' = FALSE
    /\ Goto(Receiver, "verb")
    /\ UNCHANGED <<handlersMutex, subsMutex, maps, verb, calls>>

\* The handler of the verb is called with handlers_mutex_ held.
FindVerbHandler ==
    /\ pc[Receiver] = "lookup" /\ handlersMutex = NoThread
    /\ verbHandler[verb] # NoHandler
    /\ handlersMutex' = Receiver
    /\ running' = verbHandler[verb] /\ destroyed' = FALSE
    /\ Goto(Receiver, "verb")
    /\ UNCHANGED <<subsMutex, maps, verb, calls>>

\* There is none, and the lock is released at once.
NoVerbHandler ==
    /\ pc[Receiver] = "lookup" /\ handlersMutex = NoThread
    /\ verbHandler[verb] = NoHandler
    /\ Goto(Receiver, "default")
    /\ UNCHANGED <<handlersMutex, subsMutex, maps, verb, running, destroyed, calls>>

\* Where a handler goes on when it has made its call.
AfterCall(label) == IF label \in VerbStages THEN "verbEnd" ELSE "topicEnd"

\* The handler calls nothing, or calls addMessageHandler, which waits for
\* handlers_mutex_ even if this very thread holds it.
HandlerRuns ==
    /\ pc[Receiver] \in {"verb", "topic"}
    /\ \/ running = "nothing" /\ UNCHANGED <<verbHandler, destroyed>>
       \/ /\ running = "registers" /\ handlersMutex = NoThread
          /\ \E v \in Verbs, h \in VerbScripts :
              /\ verbHandler' = [verbHandler EXCEPT ![v] = h]
              /\ verbEntryWritten(v)
    /\ Goto(Receiver, AfterCall(pc[Receiver]))
    /\ UNCHANGED <<handlersMutex, subsMutex, topicHandler, verb, running, calls>>

\* The handler calls notifyTopic.
HandlerNotifies ==
    /\ pc[Receiver] \in {"verb", "topic"} /\ running = "notifies"
    /\ subsMutex = NoThread
    /\ subsMutex' = Receiver
    /\ Goto(Receiver, IF pc[Receiver] = "verb" THEN "verbNotify" ELSE "topicNotify")
    /\ UNCHANGED <<handlersMutex, maps, verb, running, destroyed, calls>>

\* Mutant: the lock is kept for the handler's return.
Bug_NotifyKeepsLock ==
    /\ pc[Receiver] \in {"verbNotify", "topicNotify"}
    /\ Goto(Receiver, AfterCall(pc[Receiver]))
    /\ UNCHANGED <<handlersMutex, subsMutex, maps, verb, running, destroyed, calls>>

HandlerNotified ==
    /\ pc[Receiver] \in {"verbNotify", "topicNotify"}
    /\ subsMutex' = NoThread
    /\ Goto(Receiver, AfterCall(pc[Receiver]))
    /\ UNCHANGED <<handlersMutex, maps, verb, running, destroyed, calls>>

\* Mutant: the lock is not released when the handler throws.
Bug_ThrowKeepsLock ==
    /\ pc[Receiver] = "verbEnd"
    /\ \/ Goto(Receiver, "loop") /\ handlersMutex' = handlersMutex
       \/ Goto(Receiver, "default") /\ handlersMutex' = NoThread
    /\ running' = NoHandler /\ destroyed' = FALSE
    /\ UNCHANGED <<subsMutex, maps, verb, calls>>

\* The handler of the verb answers or throws, and the message is done with,
\* or it returns no payload, and the default handler has its turn.
VerbHandlerReturns ==
    /\ pc[Receiver] = "verbEnd"
    /\ \E next \in {"loop", "default"} : Goto(Receiver, next)
    /\ handlersMutex' = NoThread
    /\ running' = NoHandler /\ destroyed' = FALSE
    /\ UNCHANGED <<subsMutex, maps, verb, calls>>

\* Mutant: what findTopicHandler returns is not compared with null.
Bug_CallsNull ==
    /\ pc[Receiver] = "default" /\ verb = "TELL"
    /\ running' = topicHandler /\ destroyed' = FALSE
    /\ Goto(Receiver, "topic")
    /\ UNCHANGED <<handlersMutex, subsMutex, maps, verb, calls>>

\* handleTell and handleAsk: findTopicHandler reads topic_handlers_, and the
\* handler is called, without handlers_mutex_.
FindTopicHandler ==
    /\ pc[Receiver] = "default" /\ verb = "TELL" /\ topicHandler # NoHandler
    /\ running' = topicHandler /\ destroyed' = FALSE
    /\ Goto(Receiver, "topic")
    /\ UNCHANGED <<handlersMutex, subsMutex, maps, verb, calls>>

\* handleObserve takes subscriptions_mutex_, adds and releases it.
Subscribe ==
    /\ pc[Receiver] = "default" /\ verb = "OBSERVE" /\ subsMutex = NoThread
    /\ Goto(Receiver, "loop")
    /\ UNCHANGED <<handlersMutex, subsMutex, maps, verb, running, destroyed, calls>>

DefaultReturns ==
    /\ pc[Receiver] = "default"
    /\ verb = "PING" \/ (verb = "TELL" /\ topicHandler = NoHandler)
    /\ Goto(Receiver, "loop")
    /\ UNCHANGED <<handlersMutex, subsMutex, maps, verb, running, destroyed, calls>>

TopicHandlerReturns ==
    /\ pc[Receiver] = "topicEnd"
    /\ running' = NoHandler /\ destroyed' = FALSE
    /\ Goto(Receiver, "loop")
    /\ UNCHANGED <<handlersMutex, subsMutex, maps, verb, calls>>

UserStep(u) ==
    \/ AddMessageHandler(u) \/ RemoveMessageHandler(u)
    \/ AddTopicHandler(u) \/ RemoveTopicHandler(u)
    \/ NotifyTopic(u) \/ NotifyReturns(u)

Dispatch ==
    \/ FindVerbHandler \/ NoVerbHandler \/ VerbHandlerReturns
    \/ HandlerRuns \/ HandlerNotifies \/ HandlerNotified
    \/ FindTopicHandler \/ TopicHandlerReturns
    \/ Subscribe \/ DefaultReturns

Next ==
    \/ \E u \in Users : Begin(u) \/ UserStep(u)
    \/ Take \/ Dispatch

Spec == Init /\ [][Next]_vars

\* Every thread is scheduled.  Nothing makes users call or messages arrive.
FairSpec ==
    /\ Spec
    /\ \A u \in Users : WF_vars(UserStep(u))
    /\ WF_vars(Dispatch)

-----------------------------------------------------------------------------
(* Properties *)

TypeOK ==
    /\ pc \in [Threads -> ReceiverLabels \cup UserLabels]
    /\ pc[Receiver] \in ReceiverLabels /\ \A u \in Users : pc[u] \in UserLabels
    /\ handlersMutex \in {NoThread, Receiver} /\ subsMutex \in Threads \cup {NoThread}
    /\ verbHandler \in [Verbs -> Scripts \cup {NoHandler}]
    /\ topicHandler \in Scripts \cup {NoHandler}
    /\ verb \in Verbs
    /\ running \in Scripts \cup {NoHandler} /\ destroyed \in BOOLEAN
    /\ (running # NoHandler) <=> pc[Receiver] \in VerbStages \cup TopicStages
    /\ calls \in 0..MaxCalls

\* Whoever holds a lock is in the code that it guards, through exceptions,
\* nested calls and handlers that return nothing; notifyTopic has the
\* subscriptions to itself (agent.cpp:214, 367-373, 455).
LocksMatchCode ==
    /\ handlersMutex = Receiver <=> pc[Receiver] \in VerbStages
    /\ \A t \in Threads :
        subsMutex = t <=> pc[t] \in {"notifying", "verbNotify", "topicNotify"}

(***************************************************************************)
(* The handler of a verb stays in the map while it runs: once              *)
(* removeMessageHandler has returned, the handler it removed is not        *)
(* running and is never called again (agent.cpp:236-244, 367-373).         *)
(***************************************************************************)
VerbHandlerLives ==
    pc[Receiver] \in VerbStages => ~destroyed /\ running = verbHandler[verb]

\* The topic handler that runs is in the map no more: what the program does
\* from here on is undefined, and the model goes on with the intact handler.
TopicHandlerDangles == pc[Receiver] \in TopicStages /\ destroyed

\* Never so for a topic handler: agent.cpp:497 "Already locked by caller"
\* says of findTopicHandler that the lock protects what it finds.
TopicHandlerLives == ~TopicHandlerDangles

\* README.md:56 "Thread-safe message handling": the receiver is done with
\* every message it takes, whatever handlers call, as long as what it does
\* is defined (agent.cpp:361-402).
MessagesHandled ==
    pc[Receiver] = "lookup" ~> pc[Receiver] = "loop" \/ TopicHandlerDangles

\* Every call of a user returns once messages stop coming: a std::mutex lets
\* a receiver that is always busy take the lock before it (agent.cpp:213-267).
CallsReturn ==
    <>[](pc[Receiver] = "loop") => \A u \in Users : pc[u] \in Operations ~> pc[u] = "idle"
=============================================================================
