# miuACP in TLA+

A verification development for the C++ implementation of the micro Agent
Communication Protocol in this repository. It models the code under `src/`
(paths below are relative to the repository's root, where the C++ files are in `src/`
and `include/miuacp/`), checks small instances with
TLC and proves theorems about the models with TLAPS.

```
tlasany M.tla                                     # parse
tlc -workers 2 -config LifecycleOwner.cfg MCAgentLifecycle   # model-check a run
tlapm AgentLifecycle_proofs.tla                   # check the proofs of a module
```

`PROJECT.json` lists the components, the runs, the lines of source behind every
definition, a plausible bug ("mutant") that breaks each property, the hazards of
the code and the theorems.

## 1. Inventory

miuACP is a library for agents that exchange four kinds of message (PING, TELL,
ASK, OBSERVE) as UDP datagrams. One `UACPAgent` owns one `UACPUdpTransport` and
one receiver thread; user threads call the agent, and the receiver thread calls
handlers the user registered. Two example programs are small systems of their
own: `smart_factory_p2p` runs five agents of the library in one process, and
`smart_factory` simulates five agents over a message bus.

| Component | State | Operations | Modelled by |
|---|---|---|---|
| Agent lifecycle (`src/agent.cpp:14-81`, `331-359`) | `running_`, `receiver_thread_`, `port_`, the transport's bound state | constructor, `start`, `stop`, destructor, `receiverLoop` | `AgentLifecycle`, `AgentResources` |
| Agent messaging (`src/agent.cpp:83-98`, `147-211`, `331-466`) | the network; `messages_sent_` | `ping`, `tell`, `ask`, `observe`, `discoverPeers`, `sendToPeer`, `handleIncomingMessage` and the four default handlers | `AgentNetwork` |
| Peer registry and subscriptions (`src/agent.cpp:100-145`, `213-234`, `350`, `446-466`) | `peers_`, `subscriptions_` | `addPeer`, `removePeer`, registration of senders, `handleObserve`, `notifyTopic` | `AgentNetwork` |
| Handler dispatch (`src/agent.cpp:236-267`, `361-444`, `496-506`) | `verb_handlers_`, `topic_handlers_`, `handlers_mutex_`, `subscriptions_mutex_` | `add/removeMessageHandler`, `add/removeTopicHandler`, dispatch | `AgentDispatch` (locks), `AgentNetwork` (what is answered) |
| Topic matching (`src/agent.cpp:508-540`) | two indices over two lists of pieces | `topicMatches`, `splitString` | `TopicMatch`, `TopicMatchLoop` |
| UDP transport (`src/udp_transport.cpp`) | `socket_fd_`, `local_port_`, `is_bound_`, `broadcast_enabled_`, `multicast_group_`, and the kernel's sockets | `bind`, `close`, destructor, move construction and assignment, `enableBroadcast`, `enableMulticast` | `UdpTransport` |
| Message codec (`src/header.cpp`, `src/option.cpp`, `src/message.cpp`, `include/miuacp/header.h`) | a header, a list of options, a payload | `pack`, `unpack`, `addOption`, `removeOption`, `setPayload`, the setters of the header, `createResponse`, the getters of topic, content type, integers and strings | `MessageCodec` |
| Protocol factories and ids (`src/protocol.cpp`) | a generator behind a lock | `createPing/Tell/Ask/Observe`, `generateMessageId` | partly: `MessageCodec`, `AgentNetwork` |
| Capabilities, statistics | lists and counters that decide nothing | `addCapability`, `removeCapability`, `getStatistics` | not modelled, but for `messages_sent_` |
| Pending requests (`include/miuacp/agent.h:429-438`) | a map nothing writes | none | not modelled |
| Server and client (`src/server.cpp`, `src/client.cpp`) | flags, subscription and handler maps | stubs without networking, deprecated and not built (`CMakeLists.txt:28`) | not modelled |
| Peer-to-peer factory (`examples/smart_factory_p2p.cpp`) | the flag `running`, five threads with an agent, a handler and locals each | `main`, `signalHandler`, the coordinator's cycles, the stations' handlers | `PeerFactory` |
| Smart factory (`examples/smart_factory.cpp`) | the bus's `agents_` and `mutex_`; beliefs, desires and budgets of five agents; `inventory_` | `registerAgent`, `sendMessage`, `discoverPeers`, `updateBelief`, `addDesire`, `setIntention`, `startProductionOrder`, `startMonitoring`, five handlers | `SmartFactory` |
| Library entry points, benchmark, other examples, tests | | | not modelled |

**How they interact.** A user thread calls the agent, which builds a message with
the protocol factories, packs it and hands the bytes to the transport. The
receiver thread polls the transport for 100 ms at a time, unpacks what arrives,
registers the sender as a peer, and dispatches: the verb's handler first, under
`handlers_mutex_`, and the default handler if that one returned no payload; the
default handlers of TELL and ASK look for a topic handler, that of OBSERVE
writes `subscriptions_` under `subscriptions_mutex_`. A response that has a
payload is packed and sent from the same thread. Handlers may call any function
of the agent back. In the peer-to-peer factory a thread per agent starts it, sleeps
until a global flag is cleared, and stops it; its handlers run on the agent's
receiver and tell other agents. In the simulated factory everything runs on the
thread of `main()`: a send is a call of the addressee's handler under the lock of
the bus.

**What is hard.** Two threads (and with several users, more) share an agent
whose lifecycle flags are separate atomics and plain members; handlers run with
or without a lock depending on which map they came from; a thread may join
itself; UDP loses, duplicates and reorders; the wire format has no mark that
tells a response from a request; bit fields straddle bytes; a one-byte count
meets an unbounded list; descriptors are handed out again by the kernel after a
close, so that a double close hits a stranger's socket. In the programs: handlers
capture locals by reference and run on another thread; a global flag and five
joins must bring five receivers to an end, interrupted or not; a handler that
sends waits for a lock its own thread holds; budgets are refused without notice.

**What makes each component correct.**

* *Lifecycle*: the socket outlives every poll; no receiver thread is lost or
  outlives the agent, also while it runs and is not named yet; a stopped agent has
  released everything and can start again, and a running one receives unless its
  thread could not be created; `stop()` returns; no call ends in `std::terminate`.
* *Messaging*: an exchange comes to an end.
* *Registry and subscriptions*: a datagram takes no name away; who is subscribed
  and who is notified asked for it; an OBSERVE takes hold.
* *Dispatch*: locks are held exactly where they guard something; a handler that
  runs is still registered; every message is dealt with, every call returns.
* *Topic matching*: the loop computes the relation that the documentation of
  wildcards describes, and ends.
* *Transport*: sockets and objects correspond one to one, and the fields say of
  the socket what is true.
* *Codec*: what is packed is unpacked as itself, and unpacking neither reads past
  the end nor loses a byte, whoever composed the datagram; a getter of the receiver
  returns what the sender's would exactly when the option was made with the kind its
  type and length stand for.
* *Peer-to-peer factory*: no handler outlives the locals it uses; stations stay
  until the last order is given; an order is done once; the program ends.
* *Smart factory*: no send waits for its own thread, except the one the program
  has left in; nothing is assembled without a reservation; what an agent keeps
  is paid for.

## 2. The modules

### AgentLifecycle

One agent, user threads `Callers`, of which the `Starters` call `start()`, and the OS
threads `Receivers` that `start()` may create. `pc` says where a thread is; every statement of `start()`, `stop()`,
the destructor and `receiverLoop()` that reads or writes shared state is one
action, named after the function and the statement:

| Code | Actions |
|---|---|
| `start()` (42-57) | `StartCheck` (running_?), `StartBind` / `StartBindFails`, `StartPort`, `StartFlag`; and of line 54 `StartSpawn` / `StartSpawnFails` (the temporary `std::thread`, whose receiver runs at once), `StartTest` and `StartAssign` (the move-assignment's test and its swap) |
| `stop()` (59-71) | `StopCheck`, `StopUnflag`, `StopJoinable`, `StopJoin` / `StopJoinThrows`, `StopClose` |
| `~UACPAgent` (38-40) and the members' destructors | `Destroy`, the actions of `stop()`, `DestroyMembers` |
| `receiverLoop()` (331-359) | `LoopCheck`, `Receive`, `PollTimeout` / `PollData`, `HandlerReturns` |

`handle` is `receiver_thread_`: assigning over a joinable one, or destroying it,
calls `std::terminate`, which sets `terminated` and ends the behaviour. `fresh` is
the temporary of each `start()`: until it is moved, the receiver runs and `stop()`,
from another thread or the receiver's own handler, sees a `handle` that is not
joinable, joins nobody and closes the transport. `deaf` is a history variable, set
by a `start()` that could not create its thread and cleared with `running_`. `join()`
throws when the thread joins itself, when it was joined in between, or (one
outcome among those the standard leaves open) when another thread is joining it. A handler that
calls `stop()` runs `stop()`'s actions on the receiver thread. A call that
returns at once without a change is no step.

### AgentResources

The abstract specification of the lifecycle: a socket and a worker thread. The
worker is created over an open socket and joined before the socket is closed.
`AgentLifecycle` implements it under the mapping `socket <- bound`,
`worker <- OwnsWorker` (`handle` or some `fresh` names a thread); TLC checks it as the property `ResourceOrder` and
the theorem `OrderImplemented` proves it.

### AgentNetwork

Several agents and a network that is a set of datagrams. The user's calls are
actions (`Ping`, `Tell`, `Ask`, `Observe`, `DiscoverPeers`, `AddPeer`, ...); the
guards are those of the code, with `Call` bounding how many there are;
`transportSends` and `sendBroadcast` are the transport's part of a send. `Receive`
is the whole of one iteration of `receiverLoop`: register the sender
(`recordSender`), decide what the message leads to (`handling`, composed of the
verb handler, the default handlers and `findTopicHandler`), subscribe
(`subscribe`) and respond (`createResponse`, which every handler of the repository
answers with). `notifyTopic` is the exception to
one step per call: it holds `subscriptions_mutex_` while it sends, and so is
three actions (`NotifyTopic`, `NotifyOne`, `NotifyReturns`) between which
datagrams come in; an OBSERVE waits for the lock. `log` and `introduced` are
history variables; `kind` and `hop` of a message are not on the wire.

### AgentDispatch

One agent, the two locks and who holds them. The receiver takes a message,
looks up the verb's handler and calls it *with the lock held*, or goes on to the
default handler *without it*; users add, remove and notify. A handler is known
by what it calls back (nothing, `addMessageHandler`, `notifyTopic`). `destroyed`
is a history variable that says that the function object being run is in the map
no more. `AgentNetwork` assumes that a message is handled in one step;
`AgentDispatch` is what happens inside that step.

### TopicMatch and TopicMatchLoop

`topicMatches` in closed form (used by `AgentNetwork`), and the function's loop
with one action per branch, which is shown to compute it. A string is the
sequence of its pieces between slashes; `splitString` drops the empty piece after
a slash at the end, as `std::getline` does.

### UdpTransport

Any number of transport objects over the kernel's table of descriptors. The
fields are those of the class; `open`, `boundTo`, `mayBroadcast` and `joined` are
the kernel's side. `Bind` picks any descriptor that is not open, so that
descriptors are reused. Moves copy and reset exactly the fields the code does;
the string a move leaves behind is either empty or unchanged. `PortModulus`
stands for 2^16, at which `htons` truncates.

### MessageCodec

One message, built by its owner, packed into real bytes, unpacked option by
option, then edited, forwarded or answered; and datagrams that somebody else
composed. `packHeader` and `unpackHeader` are the shifts and masks of
`header.cpp`, byte for byte; the option count is one byte and wraps. `pack()` and
each read of `unpack()` have an action for success and one for the exception.
An integer option has four bytes, as `Option`'s constructor writes them.
The kind of an option's value is not on the wire: `decodeOption` guesses it as
`unpack` does, and `getIntValue`, `getStringValue`, `getTopicPath` and
`getContentType` are sets with the value read, empty for an exception.

### PeerFactory

The program `smart_factory_p2p`, for any number of stations and cycles.

| Code | Actions |
|---|---|
| `main` (214-245), `signalHandler` (27-30) | `MainJoinsCoordinator`, `MainClears`, `MainJoinsStations`, `Interrupt` |
| the `run...` functions (32-212) | `Start` / `StartFails`, `Stop` (the loop is over and `stop()` begins), `Return` (`stop()` has joined, and the locals die) |
| the coordinator's cycles (52-72) | `BeginCycle`, `GiveOrder`, one action per order |
| the receiver of an agent, from `src/agent.cpp` | `Receive`, `PollTimesOut`, `Answer` |
| the handlers of the stations | `Work`, `TellCoordinator`, then `Answer` |

An order is a message of its cycle; datagrams are lost and overtake each other.
`done` is a history variable, of the cycles for which a station did its job.

### SmartFactory

The program `smart_factory`. A function is the sequence of the statements it has
yet to run; a statement is a record (`believe`, `desire`, `intend`, `send`,
`discover`, ...), and one action runs each kind. `script` is what `main`'s call has left,
`body` what the handler that holds the bus's lock has left. `SendTo` takes the
lock and calls the handler; `SendWaits` is a send from inside a handler, which
waits for ever. `consume` is `consumeRAM` and `consumeEnergy`. `MCSmartFactory` gives
the numbers of the program, or smaller ones that a few calls exhaust. `main` may
call the public functions again and in any order, and may have an agent send one
of the messages that a handler expects and whose send is commented out (524,
641) or missing.

### How the modules compose

`AgentNetwork` extends `TopicMatch`, and `TopicMatchLoop` extends it to show the
loop correct; `PeerFactory` extends it for the coordinator's `factory/#`.
`PeerFactory` is the composition of the lifecycle, the dispatch to topic handlers and
the network as one program uses them, with the coarser steps that the other modules
justify. `SmartFactory` uses of the library only its messages and stands alone. `AgentLifecycle` instantiates `AgentResources`. `AgentNetwork`
relies on three facts that other modules establish about finer steps: that a
running agent receives (`AgentLifecycle`), that dispatch of a message is not
disturbed (`AgentDispatch`), and that a datagram that arrives is the message that
was sent (`MessageCodec`). `AgentLifecycle` takes from the transport only
"bound or not", which is `is_bound_` of `UdpTransport`.

## 3. The runs

`MC*.tla` extend a module and give its constants values.

| Run | Instance | What it shows |
|---|---|---|
| `LifecycleOwner` | 1 caller, 3 receiver threads, thread creation may fail | Types; the socket outlives every poll; between calls the agent is complete, released or, exactly from a `start()` that got no thread until the next `stop()`, bound and deaf; no `std::terminate`; refinement of `AgentResources`; `stop()` returns |
| `LifecycleShared` | 2 callers of which 1 starts, 3 receivers, thread creation may fail, handlers that stop | No receiver thread is lost, and none outlives the agent, however calls interleave; a handler's `stop()` returns to its loop, the join on itself included |
| `TopicMatchLoop` | every pattern and topic of 1 to 3 pieces out of `#`, `*`, the empty piece, `a`, `b` | The indices stay within the strings and their ends; loop = closed form; the function returns |
| `Network` | 2 agents, 2 calls of any kind, 1 duplicate delivery, 1 loss, 2 hops; handlers that reply, stay silent and throw; restarts | TELLs end; subscriptions and notifications go to who asked; names stay; an OBSERVE takes hold |
| `Transports` | 3 objects (2 of them moved), 3 descriptors, ports 0 and 1 modulo 4, 2 groups, symmetry | Ownership of sockets, membership, port and flag tell the truth |
| `Dispatch` | 2 users, 3 calls, topic handlers changing at any time | Locks match code; a running verb handler is registered; every message handled and every call returns |
| `Codec` | 3 verbs, 4 ids at the borders of 24 bits, 3 QoS levels, options of 0 to 256 bytes and of kinds that their type does not stand for, settable header fields, 6 foreign datagrams | Types and reads in range; one option of a type; round trip, with the exact condition under which a getter reads the same, and the payload that options beyond a wrapped count become; no byte lost; unpacking ends |
| `PeerFactory` | 2 stations, 1 cycle, starts may fail, losses, an interrupt at any time | Handlers do not outlive locals; stations stay for orders; a job is done once; the program ends |
| `SmartFactory` | the five agents, small budgets and stock, 4 calls, 6 requests | Budgets kept; only inspections block; nothing is assembled unreserved; the mind is paid for |
| `ReplyStorm` | violation | section 5 |
| `TopicHandlerErased` | violation | section 5 |
| `StockRunsOut` | violation, the program's numbers and 21 orders | section 5 |

**Why the bounds are enough.** *Lifecycle*: three receiver threads allow a start, a restart
and a third start, the second of which already meets every state that the first
left behind (port, flag, handle); one caller that starts and one that stops, with the
handlers of three receivers, are the least that race, in the window before the move too;
the theorems are for any number of threads that stop. *TopicMatchLoop*: three pieces put a wildcard
first, in the middle and last, against shorter and longer topics; the theorem
covers the rest. *Network*: two agents exchange everything there is (an agent may
also address itself); two calls allow a subscription and a notification, or a
handler and a message to it, and the duplicate and the loss come on top; two hops
allow a reply to a reply; the theorems hold for every number of calls. *Transports*: two moved objects and one that is not give every
pairing of moves with a bystander; three descriptors let each be bound at once
and handed out again. *Dispatch*: one user changes a handler while another holds
the other lock. *Codec*: ids and lengths sit on both sides of each border
(2^24, 255 and 256 bytes, 255 and 256 options, `MaxMessageSize`, which the run sets to
530 so that both sides of it are met with short messages). *PeerFactory*: two
stations are the least of which one may stop while the other still works; a
second cycle multiplies the datagrams in flight and is left to the theorems.
*SmartFactory*: four calls after the construction exhaust the small budgets, the
stock is enough for one order and not for two, and orders come before, between and
after requests.

**Stopping.** Deadlock is checked in `Transports`, `Dispatch` and `Codec`. It is off
where the system really stops: an agent that was destroyed or a program that
was terminated (`AgentLifecycle`), users that have made the calls the bound gives
them with nothing left in flight (`AgentNetwork`), a function that returned
(`TopicMatchLoop`), a program that has ended (`PeerFactory`), and a program that
has made its calls or waits for itself (`SmartFactory`, where
`OnlyInspectionsBlock` says which wait there is). It is off in `TopicHandlerErased` too, whose
calls are bounded. `AgentDispatch` never stops by itself because messages go
on arriving.

## 4. Fairness

Fairness is weak and says only that the OS schedules threads that can move.

* `AgentLifecycle`: a call that has begun goes on (`InCall`), and the receiver's loop
  goes on (`LoopGoesOn`), because a poll ends after 100 ms whether or not data
  came. (The socket is blocking: a kernel that announces a datagram and then
  discards it, for a wrong checksum, would hold `recvfrom` without a timeout. The
  model takes an announced datagram to be there.) Nobody must call `start()` or `stop()`, and no datagram need arrive.
* `AgentNetwork`: the receiver takes a datagram that is there, unless it is lost;
  `SubscriptionTakesHold` excepts the behaviours in which one was lost (`losses`).
  `notifyTopic` goes on sending once it has begun.
* `AgentDispatch`: users are weakly fair inside a call, and the receiver while it
  handles a message. `std::mutex` is not fair: a receiver that is always busy may
  take the lock before a user each time. `CallsReturn` therefore claims that calls
  return only if messages stop coming.
* `PeerFactory`: `main`, the threads of the agents, their receivers and the handlers
  on them are scheduled; a sleep ends, and a poll ends after 100 ms. Nothing
  requires a datagram to arrive or SIGINT to come. A receiver's fairness is for
  the choice of its step, not for a particular datagram.
* `TopicMatchLoop`, `MessageCodec`: a function that runs on its caller's thread and
  waits for nobody takes its steps.

## 5. Where the code departs from what is said of it

Three runs end in a violation, each of a sentence in the repository.

* `ReplyStorm`: `isResponse()` ("Check if message is a response",
  `include/miuacp/message.h:214`) is never true of a message that was unpacked;
  the answer to a PING is a PING and is answered.
* `TopicHandlerErased`: `findTopicHandler` is "Already locked by caller"
  (`src/agent.cpp:497`), and no caller holds the lock.
* `StockRunsOut`: the inventory answers "status:available" or "status:unavailable", and
  the manager looks for "available" (`examples/smart_factory.cpp:483`), which is
  part of both. "Check if we have enough of each material" (595) decides nothing, and
  the 21st order makes the stock negative.

More disagreements were met while reading. They are facts of a line or two, and
have no run of their own:

* A handler that calls `stop()` makes the receiver join itself (`src/agent.cpp:67`);
  the exception is swallowed by `receiverLoop`, the thread stays joinable and the
  transport bound (unless it comes so early that the thread has no name yet), and the destructor, which "stops agent and closes transport"
  (`include/miuacp/agent.h:129`), ends in `std::terminate`. `LifecycleShared` has such
  handlers: it shows what holds all the same.
* Two threads that call `start()` may both pass the test of the move-assignment
  (`src/agent.cpp:54`), after a `stop()` by one of them or a third, and one running
  receiver is then lost or `std::terminate` called. `ReceiversAccounted` is
  claimed, and proved, for one thread that starts.
* A receiver gets an exception from the getter of an option that the sender made with
  another kind than its type and length stand for (`src/option.cpp:63`, `70`,
  `113-128`); `RoundTrip` says exactly when.
* A verb handler that registers a handler waits for the lock its own thread holds
  (`src/agent.cpp:368`; "Thread-safe message handling", `README.md:56`). `Dispatch` has
  topic handlers that register, which is safe, and verb handlers that notify.
* The smart factory's quality control sends from inside its handler
  (`examples/smart_factory.cpp:713`), which "causes deadlock" (523, 640); its
  summary prints "Messages exchanged: 12" (892) where five are, and "Production
  status: COMPLETED" (893), which nothing sets; a quantity is announced as parsed (565)
  and is not; a paused robot arm assembles (679).
* The default handler also runs after a verb handler whose response has no
  payload (`src/agent.cpp:376`), although `include/miuacp/agent.h:84` lets a handler
  return an "empty if no response needed".
* A TELL of QoS 1 or 2 is never acknowledged: the response has no payload and is
  not sent (`src/agent.cpp:396`, `425-427`; `include/miuacp/enums.h:70`).
* `ping`, `tell` and `observe` always return true (`src/agent.cpp:172`), where
  `include/miuacp/agent.h:242` says "true if peer responded with PONG"; `notifyTopic` counts
  subscribers whose send failed (`include/miuacp/agent.h:313`).
* `getPort()` keeps the last port after `stop()` ("0 if not bound", `include/miuacp/agent.h:178`).
* `enableMulticast` leaves the old group before it joins the new one, and keeps the
  old name if the second fails (`src/udp_transport.cpp:263-283`).
* `bind()` truncates a port above 65535 in `htons` and stores the untruncated one
  (`src/udp_transport.cpp:81`); a moved-from transport keeps its port and
  broadcast flag (`src/udp_transport.cpp:36-62`).
* `addOption` on an unpacked message with duplicates removes only the first
  (`src/message.cpp:56`), and the 256th option makes the count 0
  (`src/message.cpp:219-221`, `include/miuacp/enums.h:81`).
* An option of more than 255 bytes, which `MAX_TOPIC_LENGTH` of 1024 allows
  (`include/miuacp/enums.h:82`), makes `pack()` throw although `isValid()` holds.
* Messages of 65508 to 65535 bytes are valid and the transport refuses them.

## 6. What is proved

| Module | Theorems | For |
|---|---|---|
| `AgentLifecycle_proofs` | `TypeCorrect` | any number of callers, starters and receivers, any handlers, any ports |
| | `NoOrphan`, `ReceiverDiesFirst`; `AllAccounted`, the two as `ReceiversAccounted` | one thread that starts (`OneStarter`), any number that stop and destroy, any handlers |
| | `OwnerPolls`, `OwnerPortSticky` | one owner thread (`OneOwner`), any handlers |
| | `OrderImplemented`, `OwnerNeverTerminates`, `OwnerReleases`, `OwnerReceives`, `OwnerSettled` (the two as `SettledMeansComplete`); `JoinIsSound` and `JoinEnds`: the join in `stop()` finds a thread that can move, and every step brings it nearer to its return | one owner thread and handlers that do not stop the agent |
| `AgentNetwork_proofs` | `TypeCorrect`, `SubscribersAsked`, `NotificationsAsked`, `TellsEnd`, `PeersKnown`, `NamesKept` | any agents, topics and bounds, any handlers that answer with `createResponse` |
| `AgentDispatch_proofs` | `TypeCorrect`, `LocksGuard`, `VerbHandlersLive`; `LockedOutForEver`: a verb handler that calls `addMessageHandler` never returns | any number of users, any handlers |
| | `NoCircle`: who holds a lock that is wanted can go on, or waits for one who can | the same, when no verb handler calls `addMessageHandler` |
| `TopicMatchLoop_proofs` | `TypeCorrect`, `LoopAnswers`, `OnlyWildcardsWiden`; `LoopShrinks`: the loop ends | strings of any length over any pieces |
| `UdpTransport_proofs` | `TypeCorrect`, `OwnersUnique`, `MembershipKnown`, `UnmovedPort`, `UnmovedBroadcast`; `PortsReal` and `TransportsHonest` (`FieldsHonest`) when every argument of `bind()` is below `PortModulus` | any number of objects and descriptors, any moves |
| `MessageCodec_proofs` | `HeaderReadsBack`, `IntegerReadsBack` | every valid header; every integer |
| | `TypeCorrect`, `OptionsUnique`, `UnpackLosesNothing` (`NothingLost`), `MessagesComeBack` (`RoundTrip`); `UnpackShrinks`: `unpack()` ends | all sets of options, topics, payloads, header values and datagrams of any length, and any sequence of calls |
| `PeerFactory_proofs` | `TypeCorrect`, `LocalsLive`, `StationsStay`, `OrdersOnce`; `NobodyStuck` and `StopsEnd`: whom `main` joins has returned or can go on, and a receiver that is being stopped ends after four steps | any number of stations and cycles, failing starts and interrupts |
| `SmartFactory_proofs` | `TypeCorrect`, `InspectionsBlock`, `MindPaid` | any limits, stock, requests and number of calls |
| | `ReservedFirst` (`AssembledIsReserved`) | the same, when no request is an order to assemble (`NobodyElseOrders`), as in the run |

**Assumptions.** Each module names the assumptions on its constants
(`LifecycleAssumption`, `NetworkAssumption`, `DispatchAssumption`,
`TransportAssumption`, `StringsAssumption`, `ConstantsAssumption`, `FactoryAssumption`,
`SmartAssumption`), and TLC evaluates them in the runs.
`OneOwner` says that `Callers` is a single thread, which is how the examples use
the library; without it `start()` and `stop()` are not serialised and
`std::terminate` can be reached. `OneStarter` says that of `start()` alone; without it
two temporaries can race for `receiver_thread_`, and a running thread is lost.
`~HandlerStops` keeps a handler's `stop()` out: it joins itself, or closes the socket
before `receiver_thread_` names its thread, against the order of `AgentResources`.
All results about `AgentNetwork`, checked and proved, are for handlers that answer with
`createResponse`, as the default ones and those of the examples and tests do; the code
sends whatever message a handler returns (`src/agent.cpp:371`, `421`, `439`), and one
that answers a TELL by a TELL with a topic may go on for ever.

**The inductive invariants.**

* *Lifecycle.* `NoOrphanReceiver` is not inductive: that the move loses no thread rests
  on `handle` being empty when it comes, and that the agent dies last rests on where
  the destroyer is. `Inv` adds `Naming` (a temporary lives from the creation of its
  thread to its move, the two names differ, and nobody but the one starter fills
  `handle`) and `Destruction`. The results for one owner need more: `Window`, in
  `OwnerInv`, ties `bound` to the owner's place and says how far a handler's `stop()`
  gets, before and after the move. `PlaceInv` adds, for handlers that do not stop the
  agent, what is held at each place of the owner and where the receiver may be.
* *Network.* `MessageInv` says of every message in the log that it carries a topic only
  as a call's (a response, which `createResponse` builds without one, as any reply to a
  reply, has none) and that an OBSERVE with a topic is a user's request. `SubscriptionInv` relates three places a
  subscription lives in: an OBSERVE in the log, an entry of `subscriptions`, and
  an entry that a running `notifyTopic` still has to tell. The peers' invariant
  needs that a datagram in flight is in the log. Effects of the actions are
  lemmas (`SendEffect`, `ReceiveEffect`, `NotifyEffect`, ...) so that each
  invariant is proved once per effect.
* *Dispatch.* `Inv` conjoins the type invariant, `LocksMatchCode` and
  `VerbHandlerLives`: the third holds because nobody writes the map while the
  receiver has the lock, which is the second.
* *Transport.* `FieldsHonest` is for ports of 16 bits, and as to port 0 and broadcast for
  objects that no move touches. Ownership also needs that a bound object has a socket, that a dead
  object has none, and that a closed descriptor is in no group.
* *Topic matching.* `LoopInv`: the levels before `pos` agree and hold no `#`, and
  an answer that was given is right.
* *Codec.* The type invariant already says that the options read and the options
  owed add up to the count of the header, so that it is the first thing proved and the
  others are proved relative to it. `ReadInv` says that the header, the options read so
  far and the unread bytes are the datagram, up to the unused bits of the header,
  which at the end is `NothingLost`. `CountInv` says that the option count of a message
  is the number of its options, modulo 256. `TripInv` says of the owner's message on its
  way that each option read is the one sent, with the kind that `unpack` guesses, and
  that the unread bytes are the packed options not come to yet and the payload. The
  bytes of a message are a concatenation over its options, and what is needed of it (it
  splits at any option) is proved by least counterexample over a set of numbers
  (`LeastNumber`, `InductionOverSet`), since the library's induction theorems take an
  operator. For `OptionsUnique` the lemmas say what `removeOption` and `addOption` do to
  a list of options that differ in type. `HeaderReadsBack` needs no invariant: it is
  arithmetic on bytes.
* *Peer-to-peer factory.* `OneJobPerOrder` follows from where an order is: in flight,
  in the hand of its station, or done, and never in two of these places
  (`OrderInv`). That needs that what reaches a station with a topic is an
  order the coordinator has issued (`Issued`, in terms of the cycle and of
  whose turn it is), since an order of a later cycle is a new one.
  `ThreadInv` says when the flag is cleared and who has gone.
* *Smart factory.* `RunInv` says that the statements left to a handler contain a send
  only in an inspection, which makes `OnlyInspectionsBlock` inductive, and that
  only constructed agents run; `BlankInv` that the others keep nothing. `MindPaid` then
  counts the beliefs: overwriting one is paid for again, a first one adds one
  to what is kept and one to what is paid, or the memory is full.
  `AssembledIsReserved` rests on the order of the statements of
  `startProductionOrder` and of two handlers: `AheadInv` follows what is left of
  each (`Left0` to `Left5`, `Take0`, `Build0`, ...) and says that an order to assemble
  which is still to be sent has its reservation still before it, or
  being served, or made and not used.

**Progress.** The prover has no ENABLED, but what makes the liveness properties true can
be said without it, and is proved in two halves. A number that a step lowers
shows that nothing goes on for ever: `LoopShrinks` (for `Returns`), `UnpackShrinks` (for
`Decodes`), `JoinEnds` (for `StopReturns`) and `StopsEnd` (for `ProgramEnds`). That who is
waited for can move shows that nothing stands still: `JoinIsSound`,
`NobodyStuck`, and `NoCircle` for `CallsReturn` and `MessagesHandled`, where `Waits(t)`
spells out when a thread's next step has to wait for a mutex. TLC confirms that this is
the same as `ENABLED` being false, on the instance of the run `Dispatch` with handlers
that register added. `LockedOutForEver` is the converse: without its hypothesis `NoCircle`
fails for good.

`JoinIsSound` rests on `Naming`, by which `handle` never names a thread that was not
created, and on `PlaceInv`; `NobodyStuck` needs `StopInv`, that `running_` of an agent is set
only while its function works and that `main` waits for stations only after it has cleared
the flag; `NoCircle` needs `ScriptsKept`, that only registered handlers run.

**Only model-checked.** The liveness properties themselves (`StopReturns`, `HandlerStopReturns`, `Returns`,
`SubscriptionTakesHold`, `MessagesHandled`, `CallsReturn`, `Decodes`, `ProgramEnds`): they
combine the facts above with fairness, which is a statement about ENABLED.
Every invariant and action property of a passing run is a theorem, under the
hypotheses of the table.

## 7. What is abstracted, and what is not modelled

* Payloads are a byte or two in `MessageCodec` and absent in `AgentNetwork`, where the
  code only asks whether a response has one.
* An agent is its own address: two agents behind one host and port, or one peer
  seen under two addresses, do not occur.
* Statistics and capabilities decide nothing: the lists of topics and capabilities
  are read by no code of the library, and writing them from two threads is
  undefined behaviour without a state that a property could speak of. `getStatistics` reads sizes without
  the locks, which is listed as a hazard and covered by no property: it is a race
  on values nobody uses.
* `getPeerInfo` returns a pointer into a map; what its caller does with it is not
  in this repository.
* The server and the client are deprecated and not built; their private handlers
  and subscriptions have no caller, so that no state of theirs ever changes but two
  flags, two handler maps and the client's list of connections.
* `getHeader()` and `getOptions()` hand out the option count and the options for
  writing. The model's owner uses `addOption`, `removeOption` and the setters, as the
  library does.
* Pending requests are declared and unused; `ask()` returns without an answer.
* The message id generator is any value of its range, repeats included.
* Buffer sizes, blocking mode and `sendMulticast` change no field of a property.
* `PeerFactory`: the sleeps, which order nothing; duplicates, which the loopback does
  not make. `SmartFactory`: compute cycles, storage, discovered peers, what the
  length of a payload adds to the cost of a message, and the reports.
* The benchmark, the other examples and the tests call the library in sequence; their
  state is what they print.
* The discarded results of log and statistics functions are left out.

## 8. Plan

Done, in this order: lifecycle with its abstract specification; topic matching;
network, registry and subscriptions; dispatch and its locks; transport; codec; the
two factory programs; and the proofs of each.

Next:

1. Compose dispatch with the lifecycle: a `stop()` that waits for a handler that
   waits for a lock, and the destructor against a handler that is running.
2. `messages_received_` and the statistics, and `getPeerInfo` used across a removal.
