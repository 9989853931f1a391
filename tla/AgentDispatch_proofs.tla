------------------------ MODULE AgentDispatch_proofs ------------------------
(***************************************************************************)
(* Proofs about AgentDispatch, for any number of user threads, any         *)
(* handlers and any number of calls.                                       *)
(***************************************************************************)
EXTENDS AgentDispatch, TLAPS

USE DispatchAssumption

(***************************************************************************)
(* The inductive invariant: who is where says who holds which lock, and    *)
(* as handlers_mutex_ covers the call of a handler of a verb, nobody       *)
(* writes verb_handlers_ meanwhile.                                        *)
(***************************************************************************)
Inv == TypeOK /\ LocksMatchCode /\ VerbHandlerLives

\* At first nobody holds a lock and no handler runs.
LEMMA InitInv == Init => Inv
<1> SUFFICES ASSUME Init PROVE Inv
  OBVIOUS
<1> USE DEF Threads, ReceiverLabels, UserLabels, VerbStages, TopicStages
<1>1. pc[Receiver] = "loop" /\ \A u \in Users : pc[u] = "idle"
  BY DEF Init
<1>2. pc \in [Threads -> ReceiverLabels \cup UserLabels]
  BY DEF Init
<1>3. TypeOK
  <2>1. topicHandler \in Scripts \cup {NoHandler}
    BY DEF Init
  <2>2. calls \in 0..MaxCalls
    BY DEF Init
  <2>3. running = NoHandler /\ pc[Receiver] \notin VerbStages \cup TopicStages
    BY <1>1 DEF Init
  <2>4. destroyed \in BOOLEAN /\ verb \in Verbs
    BY DEF Init, Verbs
  <2>5. verbHandler \in [Verbs -> Scripts \cup {NoHandler}]
    BY DEF Init
  <2>6. handlersMutex = NoThread /\ subsMutex = NoThread
    BY DEF Init
  <2>7. QED
    BY <1>1, <1>2, <2>1, <2>2, <2>3, <2>4, <2>5, <2>6 DEF TypeOK
<1>4. LocksMatchCode
  BY <1>1 DEF Init, LocksMatchCode
<1>5. VerbHandlerLives
  BY <1>1 DEF VerbHandlerLives
<1>6. QED
  BY <1>3, <1>4, <1>5 DEF Inv

\* Steps of the users keep the invariant.
LEMMA UserStepInv ==
  ASSUME Inv, NEW u \in Users, Begin(u) \/ UserStep(u)
  PROVE  Inv'
<1> USE DEF Inv, TypeOK, LocksMatchCode, VerbHandlerLives, Threads, Scripts, Verbs,
     NoHandler, ReceiverLabels, UserLabels, VerbStages, TopicStages, Operations, Goto, maps
<1>1. CASE Begin(u)
  BY <1>1 DEF Begin
<1>2. CASE AddMessageHandler(u)
  BY <1>2 DEF AddMessageHandler, verbEntryWritten
<1>3. CASE RemoveMessageHandler(u)
  BY <1>3 DEF RemoveMessageHandler, verbEntryWritten
<1>4. CASE AddTopicHandler(u)
  BY <1>4 DEF AddTopicHandler, topicEntryWritten
<1>5. CASE RemoveTopicHandler(u)
  BY <1>5 DEF RemoveTopicHandler, topicEntryWritten
<1>6. CASE NotifyTopic(u)
  BY <1>6 DEF NotifyTopic
<1>7. CASE NotifyReturns(u)
  BY <1>7 DEF NotifyReturns
<1>8. QED
  BY <1>1, <1>2, <1>3, <1>4, <1>5, <1>6, <1>7 DEF UserStep

\* Steps of the receiver keep the invariant.
LEMMA ReceiverStepInv ==
  ASSUME Inv, Take \/ Dispatch
  PROVE  Inv'
<1> USE DEF Inv, TypeOK, LocksMatchCode, VerbHandlerLives, Threads, Scripts, Verbs,
     NoHandler, ReceiverLabels, UserLabels, VerbStages, TopicStages, Operations, Goto, maps
<1>1. CASE Take
  BY <1>1 DEF Take
<1>2. CASE FindVerbHandler
  BY <1>2 DEF FindVerbHandler
<1>3. CASE NoVerbHandler
  BY <1>3 DEF NoVerbHandler
<1>4. CASE VerbHandlerReturns
  BY <1>4 DEF VerbHandlerReturns
<1>5. CASE HandlerRuns
  BY <1>5 DEF HandlerRuns, AfterCall, verbEntryWritten
<1>6. CASE HandlerNotifies
  BY <1>6 DEF HandlerNotifies
<1>7. CASE HandlerNotified
  BY <1>7 DEF HandlerNotified, AfterCall
<1>8. CASE FindTopicHandler
  BY <1>8 DEF FindTopicHandler
<1>9. CASE TopicHandlerReturns
  BY <1>9 DEF TopicHandlerReturns
<1>10. CASE Subscribe
  BY <1>10 DEF Subscribe
<1>11. CASE DefaultReturns
  BY <1>11 DEF DefaultReturns
<1>12. QED
  BY <1>1, <1>2, <1>3, <1>4, <1>5, <1>6, <1>7, <1>8, <1>9, <1>10, <1>11 DEF Dispatch

\* The invariant is inductive.
LEMMA StepInv == Inv /\ [Next]_vars => Inv'
<1> SUFFICES ASSUME Inv, [Next]_vars PROVE Inv'
  OBVIOUS
<1>1. CASE \E u \in Users : Begin(u) \/ UserStep(u)
  BY <1>1, UserStepInv
<1>2. CASE Take \/ Dispatch
  BY <1>2, ReceiverStepInv
<1>3. CASE UNCHANGED vars
  BY <1>3 DEF vars, Inv, TypeOK, LocksMatchCode, VerbHandlerLives
<1>4. QED
  BY <1>1, <1>2, <1>3 DEF Next

\* For any number of users, the threads, the locks and the maps keep their
\* types, and a handler runs exactly where one is called (agent.cpp:361-402).
THEOREM TypeCorrect == Spec => []TypeOK
<1>1. Inv => TypeOK
  BY DEF Inv
<1>2. QED
  BY <1>1, InitInv, StepInv, PTL DEF Spec

\* The locks are held in the code they guard and nowhere else, whatever
\* handlers call, return or throw (agent.cpp:214, 367-373, 455).
THEOREM LocksGuard == Spec => []LocksMatchCode
<1>1. Inv => LocksMatchCode
  BY DEF Inv
<1>2. QED
  BY <1>1, InitInv, StepInv, PTL DEF Spec

\* A handler of a verb is not destroyed while it runs, and does not run once
\* removeMessageHandler has returned (agent.cpp:236-244, 367-373).
THEOREM VerbHandlersLive == Spec => []VerbHandlerLives
<1>1. Inv => VerbHandlerLives
  BY DEF Inv
<1>2. QED
  BY <1>1, InitInv, StepInv, PTL DEF Spec
-----------------------------------------------------------------------------
(* Nobody waits in a circle *)

\* A thread that needs a mutex to go on.
WantsHandlers(t) ==
    \/ pc[t] \in {"addVerb", "removeVerb", "addTopic", "removeTopic", "lookup"}
    \/ pc[t] \in {"verb", "topic"} /\ running = "registers"

WantsSubscriptions(t) ==
    \/ pc[t] = "notify"
    \/ pc[t] \in {"verb", "topic"} /\ running = "notifies"
    \/ pc[t] = "default" /\ verb = "OBSERVE"

Waits(t) ==
    \/ WantsHandlers(t) /\ handlersMutex # NoThread
    \/ WantsSubscriptions(t) /\ subsMutex # NoThread

\* Who holds subscriptions_mutex_ can move, and who holds handlers_mutex_ can
\* move or waits for another thread, which can.
LocksComeFree ==
    /\ subsMutex # NoThread => ~Waits(subsMutex)
    /\ handlersMutex # NoThread /\ Waits(handlersMutex) => subsMutex \in Threads \ {handlersMutex}

\* Only registered handlers run.
ScriptsKept ==
    /\ verbHandler \in [Verbs -> VerbScripts \cup {NoHandler}]
    /\ pc[Receiver] \in VerbStages => running \in VerbScripts

\* Every step keeps that.
LEMMA ScriptsInductive == Inv /\ ScriptsKept /\ [Next]_vars => ScriptsKept'
<1> SUFFICES ASSUME Inv, ScriptsKept, [Next]_vars PROVE ScriptsKept'
  OBVIOUS
<1> USE DEF Inv, TypeOK, ScriptsKept, Threads, Scripts, Verbs, NoHandler, ReceiverLabels,
     UserLabels, VerbStages, TopicStages, Operations, Goto, maps
<1>1. ASSUME NEW u \in Users, Begin(u) \/ UserStep(u) PROVE ScriptsKept'
  BY <1>1 DEF Begin, UserStep, AddMessageHandler, RemoveMessageHandler, AddTopicHandler,
     RemoveTopicHandler, NotifyTopic, NotifyReturns
<1>2. CASE Take \/ NoVerbHandler \/ FindVerbHandler
  BY <1>2 DEF Take, NoVerbHandler, FindVerbHandler
<1>3. CASE HandlerRuns
  BY <1>3 DEF HandlerRuns, AfterCall
<1>4. CASE HandlerNotifies \/ HandlerNotified \/ VerbHandlerReturns
  BY <1>4 DEF HandlerNotifies, HandlerNotified, VerbHandlerReturns, AfterCall
<1>5. CASE FindTopicHandler \/ TopicHandlerReturns \/ Subscribe \/ DefaultReturns
  BY <1>5 DEF FindTopicHandler, TopicHandlerReturns, Subscribe, DefaultReturns
<1>6. CASE UNCHANGED vars
  BY <1>6 DEF vars
<1>7. QED
  BY <1>1, <1>2, <1>3, <1>4, <1>5, <1>6 DEF Next, Dispatch

(***************************************************************************)
(* For any number of users no two threads wait for each other, and none    *)
(* for itself, unless a handler of a verb calls addMessageHandler          *)
(* (agent.cpp:213-267, 367-373, 455): whoever holds a lock that is wanted  *)
(* can go on, or waits for one who can.                                    *)
(***************************************************************************)
THEOREM NoCircle ==
  ASSUME "registers" \notin VerbScripts PROVE Spec => []LocksComeFree
<1>1. Init => ScriptsKept
  BY DEF Init, ScriptsKept, VerbStages, Threads
<1>2. Inv /\ ScriptsKept => LocksComeFree
  <2> SUFFICES ASSUME Inv, ScriptsKept PROVE LocksComeFree
    OBVIOUS
  <2> USE DEF Inv, TypeOK, LocksMatchCode, Threads, VerbStages, Waits, WantsHandlers,
       WantsSubscriptions
  <2>1. subsMutex # NoThread => ~Waits(subsMutex)
    OBVIOUS
  <2>2. ASSUME handlersMutex # NoThread, Waits(handlersMutex)
        PROVE  subsMutex \in Threads \ {handlersMutex}
    <3>1. handlersMutex = Receiver /\ pc[Receiver] \in VerbStages
      BY <2>2
    <3>2. running # "registers"
      BY <3>1 DEF ScriptsKept
    <3>3. pc[Receiver] = "verb" /\ subsMutex # NoThread
      BY <2>2, <3>1, <3>2
    <3>4. QED
      BY <3>1, <3>3
  <2>3. QED
    BY <2>1, <2>2 DEF LocksComeFree
<1>3. QED
  BY <1>1, <1>2, InitInv, StepInv, ScriptsInductive, PTL DEF Spec

\* The handler of a verb is about to call addMessageHandler.
LockedOut == pc[Receiver] = "verb" /\ running = "registers"

(***************************************************************************)
(* The exception is fatal: a handler of a verb that calls                  *)
(* addMessageHandler never returns, whatever the users do, since the lock  *)
(* it waits for is held around its own call (agent.cpp:213, 367-373).      *)
(***************************************************************************)
THEOREM LockedOutForEver == Spec => [](LockedOut => [](LockedOut /\ handlersMutex = Receiver))
<1>1. Inv /\ LockedOut => handlersMutex = Receiver
  BY DEF Inv, LocksMatchCode, LockedOut, VerbStages
<1>2. Inv /\ LockedOut /\ [Next]_vars => LockedOut'
  <2> SUFFICES ASSUME Inv, LockedOut, [Next]_vars PROVE LockedOut'
    OBVIOUS
  <2> USE DEF Inv, TypeOK, LockedOut, Threads, Goto
  <2>1. handlersMutex # NoThread
    BY <1>1
  <2>2. ASSUME NEW u \in Users, Begin(u) \/ UserStep(u) PROVE LockedOut'
    BY <2>2 DEF Begin, UserStep, AddMessageHandler, RemoveMessageHandler, AddTopicHandler,
       RemoveTopicHandler, NotifyTopic, NotifyReturns
  <2>3. ~Take /\ ~Dispatch
    BY <2>1 DEF Take, Dispatch, FindVerbHandler, NoVerbHandler, VerbHandlerReturns, HandlerRuns,
       HandlerNotifies, HandlerNotified, FindTopicHandler, TopicHandlerReturns, Subscribe,
       DefaultReturns
  <2>4. CASE UNCHANGED vars
    BY <2>4 DEF vars
  <2>5. QED
    BY <2>2, <2>3, <2>4 DEF Next
<1>3. QED
  BY <1>1, <1>2, InitInv, StepInv, PTL DEF Spec
=============================================================================
