------------------------ MODULE SmartFactory_proofs -------------------------
(***************************************************************************)
(* Proofs about SmartFactory, for any limits, stock, requests and number   *)
(* of calls.                                                               *)
(***************************************************************************)
EXTENDS SmartFactory, FiniteSetTheorems, TLAPS

USE SmartAssumption

Inspects(m) == m.to = "quality_control" /\ m.payload = "inspect"
HandlerOthers ==
    [op : {"desire", "intend", "take", "assemble"}, key : {""}, value : {""}, verb : {""}]
Aliases == [op : {"alias"}, key : {""}, value : {""}, verb : {""}]

\* What the handler of message m may have left to do.
HandlerStatements(m) == Beliefs \cup HandlerOthers \cup (IF Inspects(m) THEN Sends ELSE {})

StateType ==
    /\ registered \subseteq Names /\ reply \in Replies
    /\ waiting \in Messages \cup {NoMessage}
    /\ beliefs \in [Agents -> [Keys -> Values]] /\ desires \in [Agents -> Nat]
    /\ ram \in [Agents -> Nat] /\ energy \in [Agents -> Nat]
    /\ \A a \in Agents : ram[a] <= RamLimit[a] /\ energy[a] <= EnergyLimit[a]
    /\ stock \in [Materials -> Int] /\ reserved \in Nat /\ assembled \in Nat
    /\ calls \in 0..MaxCalls

(***************************************************************************)
(* Who runs: an agent that was constructed, the statements of its call or  *)
(* of the handler that serves; only an inspection has a send among these.  *)
(***************************************************************************)
RunInv ==
    /\ caller \in Agents /\ script \in Seq(Statements)
    /\ script # <<>> => caller \in registered
    /\ caller # "robot_arm" => script \in Seq(Statements \ Aliases)
    /\ serving \in Messages \cup {NoMessage}
    /\ IF serving = NoMessage
       THEN body = <<>>
       ELSE serving.to \in registered /\ body \in Seq(HandlerStatements(serving))
    /\ "robot_arm_maintenance" \in registered => "robot_arm" \in registered

\* An agent not yet constructed keeps nothing and has paid for nothing.
BlankInv ==
    \A a \in Agents \ registered :
        ram[a] = 0 /\ desires[a] = 0 /\ \A k \in Keys : beliefs[a][k] = "none"

Inv == StateType /\ RunInv /\ BlankInv /\ OnlyInspectionsBlock

-----------------------------------------------------------------------------
(* The words of the program *)

\* Every name belongs to one of the five agents.
LEMMA AgentFacts ==
  /\ Agents = {"production_manager", "inventory", "robot_arm", "quality_control", "maintenance"}
  /\ \A n \in Names : Owner(n) \in Agents
<1>1. Len(Order) = 5
  BY DEF Order
<1>2. Agents = {"production_manager", "inventory", "robot_arm", "quality_control", "maintenance"}
  BY <1>1 DEF Agents, Order
<1>3. QED
  BY <1>2 DEF Names, Owner

\* Each statement the program is written with is one of its kind.
LEMMA StatementsTyped ==
  /\ \A k \in Keys, v \in Values : believe(k, v) \in Beliefs
  /\ \A n \in Names, v \in Verbs, p \in Payloads : send(n, v, p) \in Sends
  /\ \A o \in {"desire", "intend", "take", "assemble"} : Do(o) \in HandlerOthers
  /\ \A o \in {"discover", "decide"} : Do(o) \in Others \ Aliases
  /\ Do("alias") \in Others
  /\ HandlerOthers \subseteq Others /\ HandlerOthers \cap Aliases = {}
  /\ Beliefs \cap Aliases = {} /\ Sends \cap Aliases = {}
BY DEF believe, send, Do, Beliefs, Sends, Others, HandlerOthers, Aliases

\* What a handler does is made of beliefs, intentions and, in an
\* inspection, of one send.
LEMMA HandlersTyped ==
  ASSUME NEW m \in Messages
  PROVE  Handler(m) \in Seq(HandlerStatements(m))
<1> DEFINE H == HandlerStatements(m)
<1>1. /\ \A k \in Keys, v \in Values : believe(k, v) \in H
      /\ \A o \in {"desire", "intend", "take", "assemble"} : Do(o) \in H
      /\ Inspects(m) => \A n \in Names, v \in Verbs, p \in Payloads : send(n, v, p) \in H
  BY StatementsTyped DEF HandlerStatements
<1>2. <<>> \in Seq(H)
  OBVIOUS
<1> HIDE DEF H
<1>3. ManagerHandles(m) \in Seq(H)
  BY <1>1, <1>2 DEF ManagerHandles, Keys, Values
<1>4. InventoryHandles(m) \in Seq(H)
  BY <1>1, <1>2 DEF InventoryHandles, Keys, Values
<1>5. RobotHandles(m) \in Seq(H)
  BY <1>1, <1>2 DEF RobotHandles, Keys, Values
<1>6. AlertHandles(m) \in Seq(H)
  BY <1>1, <1>2 DEF AlertHandles, Keys, Values
<1>7. ASSUME m.to = "quality_control"
      PROVE  QualityHandles(m) \in Seq(H)
  <2>1. CASE m.payload = "inspect"
    <3>1. send("production_manager", "TELL", "quality_passed") \in H
      BY <1>1, <1>7, <2>1, AgentFacts DEF Inspects, Names, Verbs, Payloads
    <3>2. QED
      BY <1>1, <2>1, <3>1 DEF QualityHandles, Keys, Values
  <2>2. CASE m.payload # "inspect"
    BY <1>1, <1>2, <2>2 DEF QualityHandles
  <2>3. QED
    BY <2>1, <2>2
<1>8. MaintenanceHandles(m) \in Seq(H)
  BY <1>1, <1>2 DEF MaintenanceHandles, Keys, Values
<1>9. m.to \in Agents \cup {"robot_arm_maintenance"}
  BY DEF Messages, Names
<1>10. Handler(m) \in Seq(H)
  BY <1>3, <1>4, <1>5, <1>6, <1>7, <1>8, <1>9, AgentFacts DEF Handler
<1>11. QED
  BY <1>10 DEF H

\* What main's calls do is made of statements, and no call is a second
\* registration.
LEMMA CallsTyped ==
  /\ \A a \in Agents : Constructor(a) \in Seq(Statements)
  /\ \A a \in Agents \ {"robot_arm"} : Constructor(a) \in Seq(Statements \ Aliases)
  /\ startMonitoring \in Seq(Statements \ Aliases)
  /\ AskForMaterials \in Seq(Statements \ Aliases)
  /\ Produce \in Seq(Statements \ Aliases) /\ Blocked \in Seq(Statements \ Aliases)
  /\ <<Do("discover")>> \in Seq(Statements \ Aliases)
  /\ \A m \in Messages : <<send(m.to, m.verb, m.payload)>> \in Seq(Statements \ Aliases)
<1> DEFINE S == Statements \ Aliases
<1>1. /\ \A k \in Keys, v \in Values : believe(k, v) \in S
      /\ \A n \in Names, v \in Verbs, p \in Payloads : send(n, v, p) \in S
      /\ \A o \in {"desire", "intend", "discover", "decide"} : Do(o) \in S
      /\ Do("alias") \in Statements /\ S \subseteq Statements
  BY StatementsTyped DEF Statements
<1> HIDE DEF S
<1>2. \A a \in Agents \ {"robot_arm"} : Constructor(a) \in Seq(S)
  BY <1>1, AgentFacts DEF Constructor, ProductionManagerAgent,
       InventoryAgent, RobotArmAgent, QualityControlAgent, MaintenanceAgent, Keys, Values
<1>3. Constructor("robot_arm") \in Seq(Statements)
  BY <1>1 DEF Constructor, ProductionManagerAgent,
       InventoryAgent, RobotArmAgent, QualityControlAgent, MaintenanceAgent, Keys, Values
<1>4. startMonitoring \in Seq(S)
  BY <1>1, AgentFacts DEF startMonitoring, Names, Verbs, Payloads
<1>5. AskForMaterials \in Seq(S)
  BY <1>1, AgentFacts DEF AskForMaterials, Names, Verbs, Payloads, Keys, Values
<1>6. Produce \in Seq(S)
  BY <1>1, AgentFacts DEF Produce, Names, Verbs, Payloads, Keys, Values
<1>7. Blocked \in Seq(S) /\ <<Do("discover")>> \in Seq(S)
  BY <1>1 DEF Blocked, Keys, Values
<1>8. \A m \in Messages : <<send(m.to, m.verb, m.payload)>> \in Seq(S)
  BY <1>1 DEF Messages
<1>9. \A s \in Seq(S) : s \in Seq(Statements)
  BY <1>1
<1>10. QED
  BY <1>2, <1>3, <1>4, <1>5, <1>6, <1>7, <1>8, <1>9 DEF S

-----------------------------------------------------------------------------
(* Types *)

\* Before main constructs anything, nobody runs or has paid.
LEMMA InitInv == Init => Inv
<1> SUFFICES ASSUME Init PROVE Inv
  OBVIOUS
<1>1. StateType
  <2>1. \A a \in Agents : RamLimit[a] \in Nat /\ EnergyLimit[a] \in Nat
    OBVIOUS
  <2>2. beliefs \in [Agents -> [Keys -> Values]]
    <3>1. [k \in Keys |-> "none"] \in [Keys -> Values]
      BY DEF Values
    <3>2. QED
      BY <3>1 DEF Init
  <2>3. /\ desires \in [Agents -> Nat] /\ ram \in [Agents -> Nat] /\ energy \in [Agents -> Nat]
        /\ \A a \in Agents : ram[a] <= RamLimit[a] /\ energy[a] <= EnergyLimit[a]
    <3>1. /\ desires = [a \in Agents |-> 0]
          /\ ram = [a \in Agents |-> 0] /\ energy = [a \in Agents |-> 0]
      BY DEF Init
    <3>2. QED
      BY <2>1, <3>1
  <2>4. registered \subseteq Names /\ waiting \in Messages \cup {NoMessage} /\ calls \in 0..MaxCalls
    <3>1. 0 \in 0..MaxCalls
      OBVIOUS
    <3>2. QED
      BY <3>1 DEF Init
  <2>5. reply \in Replies
    BY DEF Init, Replies
  <2>6. stock \in [Materials -> Int] /\ reserved \in Nat /\ assembled \in Nat
    <3>1. \A x \in Materials : Stock[x] \in Int
      OBVIOUS
    <3>2. QED
      BY <3>1 DEF Init
  <2>7. QED
    BY <2>2, <2>3, <2>4, <2>5, <2>6 DEF StateType
<1>2. RunInv
  <2>1. Order[1] = "production_manager"
    BY DEF Order
  <2>2. <<>> \in Seq(Statements) /\ <<>> \in Seq(Statements \ Aliases)
    OBVIOUS
  <2>3. QED
    BY <2>1, <2>2, AgentFacts DEF Init, RunInv
<1>3. BlankInv
  BY DEF Init, BlankInv
<1>4. QED
  BY <1>1, <1>2, <1>3 DEF Init, Inv, OnlyInspectionsBlock

\* A statement that is next belongs to an agent that was constructed.
LEMMA RunnerFacts ==
  ASSUME Inv, Rest # <<>>
  PROVE  /\ Self \in Agents /\ Self \in registered
         /\ Head(Rest) \in Statements
         /\ Head(Rest) \in Aliases => Self = "robot_arm" /\ serving = NoMessage
         /\ serving # NoMessage /\ Head(Rest) \in Sends => Inspects(serving)
<1>1. CASE serving = NoMessage
  <2>1. Self = caller /\ Rest = script
    BY <1>1 DEF Self, Rest
  <2>2. QED
    BY <1>1, <2>1 DEF Inv, RunInv
<1>2. CASE serving # NoMessage
  <2>1. Self = Owner(serving.to) /\ Rest = body /\ serving \in Messages
    BY <1>2 DEF Self, Rest, Inv, RunInv
  <2>2. Head(Rest) \in HandlerStatements(serving)
    BY <1>2, <2>1 DEF Inv, RunInv
  <2>3. Beliefs \cap Sends = {} /\ HandlerOthers \cap Sends = {}
    BY DEF Beliefs, Sends, HandlerOthers
  <2>4. Self \in Agents /\ Self \in registered
    BY <1>2, <2>1, AgentFacts DEF Inv, RunInv, Owner, Messages
  <2>5. QED
    BY <2>2, <2>3, <2>4, StatementsTyped DEF HandlerStatements, Statements
<1>3. QED
  BY <1>1, <1>2

\* A statement done, the rest is still what it was of.
LEMMA AdvanceRuns ==
  ASSUME Inv, Rest # <<>>, Advance, UNCHANGED <<caller, serving>>,
         registered \subseteq registered',
         "robot_arm_maintenance" \in registered' => "robot_arm" \in registered'
  PROVE  RunInv'
<1> USE DEF Inv, RunInv
<1>1. CASE serving = NoMessage
  <2>1. script' = Tail(script) /\ script # <<>> /\ body' = body
    BY <1>1 DEF Advance, Rest
  <2>2. QED
    BY <1>1, <2>1
<1>2. CASE serving # NoMessage
  <2>1. body' = Tail(body) /\ body # <<>> /\ script' = script
    BY <1>2 DEF Advance, Rest
  <2>2. Tail(body) \in Seq(HandlerStatements(serving))
    BY <1>2, <2>1
  <2>3. QED
    BY <1>2, <2>1, <2>2 DEF HandlerStatements, Inspects
<1>3. QED
  BY <1>1, <1>2

\* What an agent uses stays within its limit.
LEMMA ConsumeTyped ==
  ASSUME NEW used \in Nat, NEW amount \in Nat, NEW limit \in Nat, used <= limit
  PROVE  /\ consume(used, amount, limit) \in Nat
         /\ consume(used, amount, limit) <= limit
         /\ consume(used, amount, limit) >= used
BY DEF consume

\* Memory is consumed by one agent, within its limit.
LEMMA RamTyped ==
  ASSUME Inv, NEW a \in Agents, NEW kb \in Nat, consumeRAM(a, kb)
  PROVE  /\ ram' \in [Agents -> Nat] /\ \A b \in Agents : ram'[b] <= RamLimit[b]
         /\ \A b \in Agents : b # a => ram'[b] = ram[b]
         /\ ram'[a] = consume(ram[a], kb, RamLimit[a])
<1>1. /\ ram \in [Agents -> Nat] /\ RamLimit \in [Agents -> Nat]
      /\ \A b \in Agents : ram[b] <= RamLimit[b]
  BY DEF Inv, StateType
<1>2. consume(ram[a], kb, RamLimit[a]) \in Nat /\ consume(ram[a], kb, RamLimit[a]) <= RamLimit[a]
  BY <1>1, ConsumeTyped
<1>3. QED
  BY <1>1, <1>2 DEF consumeRAM

\* Energy is consumed within an agent's limit.
LEMMA EnergyTyped ==
  ASSUME Inv, NEW a \in Agents, NEW units \in Nat, consumeEnergy(a, units)
  PROVE  energy' \in [Agents -> Nat] /\ \A b \in Agents : energy'[b] <= EnergyLimit[b]
<1>1. /\ energy \in [Agents -> Nat] /\ EnergyLimit \in [Agents -> Nat]
      /\ \A b \in Agents : energy[b] <= EnergyLimit[b]
  BY DEF Inv, StateType
<1>2. /\ consume(energy[a], units, EnergyLimit[a]) \in Nat
      /\ consume(energy[a], units, EnergyLimit[a]) <= EnergyLimit[a]
  BY <1>1, ConsumeTyped
<1>3. QED
  BY <1>1, <1>2 DEF consumeEnergy

\* What a statement is shows in its first word.
LEMMA StatementKinds ==
  ASSUME NEW s \in Statements
  PROVE  /\ s.op = "believe" => s.key \in Keys /\ s.value \in Values
         /\ s.op = "send" => s \in Sends /\ s.key \in Names /\ s.verb \in Verbs /\ s.value \in Payloads
         /\ s.op = "alias" => s \in Aliases
BY DEF Statements, Beliefs, Sends, Others, Aliases

\* What sendTo builds is a message of the agent that runs.
LEMMA SentTyped ==
  ASSUME Inv, Runs("send")
  PROVE  Sent \in Messages
<1>1. Self \in Agents /\ Head(Rest) \in Statements
  BY RunnerFacts DEF Runs
<1>2. Head(Rest).key \in Names /\ Head(Rest).verb \in Verbs /\ Head(Rest).value \in Payloads
  BY <1>1, StatementKinds DEF Runs
<1>3. QED
  BY <1>1, <1>2 DEF Sent, Message, Messages

\* No message is taken for none.
LEMMA NoMessageSent == NoMessage \notin Messages
<1>1. ASSUME NEW m \in Messages
      PROVE  DOMAIN m = {"from", "to", "verb", "payload"}
  BY DEF Messages
<1>2. DOMAIN NoMessage = {"from"}
  BY DEF NoMessage
<1>3. QED
  BY <1>1, <1>2

\* Every step keeps the types.
LEMMA TypeStep ==
  ASSUME Inv, Next
  PROVE  StateType'
<1> USE DEF Inv, StateType, busVars, mindVars, stockVars
<1>1. ASSUME NEW a \in Agents, Construct(a)
      PROVE  StateType'
  <2>1. ram' \in [Agents -> Nat] /\ \A b \in Agents : ram'[b] <= RamLimit[b]
    BY <1>1, RamTyped DEF Construct
  <2>2. energy' \in [Agents -> Nat] /\ \A b \in Agents : energy'[b] <= EnergyLimit[b]
    BY <1>1, EnergyTyped DEF Construct
  <2>3. registered' \subseteq Names
    BY <1>1 DEF Construct, Names
  <2>4. QED
    BY <1>1, <2>1, <2>2, <2>3 DEF Construct
<1>2. ASSUME NEW kind, NEW a, NEW statements, Call(kind, a, statements)
      PROVE  StateType'
  <2>1. calls' \in 0..MaxCalls
    BY <1>2 DEF Call
  <2>2. QED
    BY <1>2, <2>1 DEF Call
<1>3. CASE UpdateBelief
  <2>1. Self \in Agents /\ Head(Rest).key \in Keys /\ Head(Rest).value \in Values
    BY <1>3, RunnerFacts, StatementKinds DEF UpdateBelief, Runs
  <2>2. ram' \in [Agents -> Nat] /\ \A b \in Agents : ram'[b] <= RamLimit[b]
    BY <1>3, <2>1, RamTyped DEF UpdateBelief
  <2>3. energy' \in [Agents -> Nat] /\ \A b \in Agents : energy'[b] <= EnergyLimit[b]
    BY <1>3, <2>1, EnergyTyped DEF UpdateBelief
  <2>4. beliefs' \in [Agents -> [Keys -> Values]]
    BY <1>3, <2>1 DEF UpdateBelief
  <2>5. QED
    BY <1>3, <2>2, <2>3, <2>4 DEF UpdateBelief
<1>4. CASE AddDesire
  <2>1. Self \in Agents
    BY <1>4, RunnerFacts DEF AddDesire, Runs
  <2>2. ram' \in [Agents -> Nat] /\ \A b \in Agents : ram'[b] <= RamLimit[b]
    BY <1>4, <2>1, RamTyped DEF AddDesire
  <2>3. energy' \in [Agents -> Nat] /\ \A b \in Agents : energy'[b] <= EnergyLimit[b]
    BY <1>4, <2>1, EnergyTyped DEF AddDesire
  <2>4. desires' \in [Agents -> Nat]
    BY <1>4, <2>1 DEF AddDesire
  <2>5. QED
    BY <1>4, <2>2, <2>3, <2>4 DEF AddDesire
<1>5. ASSUME SetIntention \/ Discover
      PROVE  StateType'
  <2>1. Self \in Agents
    BY <1>5, RunnerFacts DEF SetIntention, Discover, Runs
  <2>2. energy' \in [Agents -> Nat] /\ \A b \in Agents : energy'[b] <= EnergyLimit[b]
    BY <1>5, <2>1, EnergyTyped DEF SetIntention, Discover
  <2>3. QED
    BY <1>5, <2>2 DEF SetIntention, Discover
<1>6. CASE RegisterAlias
  BY <1>6 DEF RegisterAlias, Names
<1>7. ASSUME SendTo \/ SendWaits
      PROVE  StateType'
  <2>1. Self \in Agents /\ Sent \in Messages
    BY <1>7, RunnerFacts, SentTyped DEF SendTo, SendWaits, mutexFree, Runs
  <2>2. energy' \in [Agents -> Nat] /\ \A b \in Agents : energy'[b] <= EnergyLimit[b]
    BY <1>7, <2>1, EnergyTyped DEF SendTo, SendWaits, mutexFree
  <2>3. reply' \in Replies /\ waiting' \in Messages \cup {NoMessage}
    BY <1>7, <2>1 DEF SendTo, SendWaits, mutexFree, Replies
  <2>4. QED
    BY <1>7, <2>2, <2>3 DEF SendTo, SendWaits, mutexFree
<1>8. CASE HandlerReturns
  <2>1. reply' \in Replies
    BY <1>8 DEF HandlerReturns, Response, Replies
  <2>2. QED
    BY <1>8, <2>1 DEF HandlerReturns
<1>9. CASE Decide
  BY <1>9 DEF Decide
<1>10. CASE ReserveMaterials
  <2>1. \A x \in Materials : Needs[x] \in Int
    BY DEF Needs, Materials
  <2>2. stock' \in [Materials -> Int] /\ reserved' \in Nat
    BY <1>10, <2>1 DEF ReserveMaterials
  <2>3. QED
    BY <1>10, <2>2 DEF ReserveMaterials
<1>11. CASE PerformAssembly
  BY <1>11 DEF PerformAssembly
<1>12. QED
  BY <1>1, <1>2, <1>3, <1>4, <1>5, <1>6, <1>7, <1>8, <1>9, <1>10, <1>11
     DEF Next, MainCalls, Step, DiscoverPeers, StartMonitoring, StartProductionOrder, Request

\* Every step leaves behind what may run.
LEMMA RunStep ==
  ASSUME Inv, Next
  PROVE  RunInv'
<1> USE DEF busVars, mindVars, stockVars
<1>1. ASSUME NEW a \in Agents, Construct(a)
      PROVE  RunInv'
  <2>1. /\ Constructor(a) \in Seq(Statements)
        /\ a # "robot_arm" => Constructor(a) \in Seq(Statements \ Aliases)
    BY CallsTyped
  <2>2. "robot_arm_maintenance" \in registered' => "robot_arm" \in registered'
    <3>1. a # "robot_arm_maintenance"
      BY AgentFacts
    <3>2. QED
      BY <1>1, <3>1 DEF Construct, Inv, RunInv
  <2>3. QED
    BY <1>1, <2>1, <2>2 DEF Construct, Inv, RunInv
<1>2. ASSUME NEW kind, NEW a \in Agents, NEW statements \in Seq(Statements \ Aliases),
             Call(kind, a, statements)
      PROVE  RunInv'
  <2>1. statements \in Seq(Statements) /\ a \in registered
    BY <1>2 DEF Call, Names
  <2>2. QED
    BY <1>2, <2>1 DEF Call, Returned, Inv, RunInv
<1>3. CASE UpdateBelief
  BY <1>3, AdvanceRuns DEF UpdateBelief, Runs, Inv, RunInv
<1>4. CASE AddDesire \/ SetIntention \/ Discover
  BY <1>4, AdvanceRuns DEF AddDesire, SetIntention, Discover, Runs, Inv, RunInv
<1>5. CASE RegisterAlias
  <2>1. Head(Rest) \in Aliases
    BY <1>5, RunnerFacts, StatementKinds DEF RegisterAlias, Runs
  <2>2. "robot_arm" \in registered
    BY <1>5, <2>1, RunnerFacts DEF RegisterAlias, Runs
  <2>3. QED
    BY <1>5, <2>2, AdvanceRuns DEF RegisterAlias, Runs
<1>6. CASE SendTo
  <2>1. Sent \in Messages /\ script # <<>> /\ script' = Tail(script)
    BY <1>6, SentTyped DEF SendTo, mutexFree, Runs, Rest
  <2>2. /\ script' \in Seq(Statements)
        /\ caller # "robot_arm" => script' \in Seq(Statements \ Aliases)
        /\ caller \in registered
    BY <2>1 DEF Inv, RunInv
  <2>3. CASE Sent.to \in registered
    <3>1. serving' = Sent /\ body' \in Seq(HandlerStatements(Sent)) /\ Sent # NoMessage
      BY <1>6, <2>1, <2>3, HandlersTyped, NoMessageSent DEF SendTo, mutexFree
    <3>2. registered' = registered /\ caller' = caller
      BY <1>6 DEF SendTo, mutexFree
    <3>3. body' \in Seq(HandlerStatements(serving'))
      BY <3>1
    <3>4. QED
      BY <2>1, <2>2, <2>3, <3>1, <3>2, <3>3 DEF Inv, RunInv
  <2>4. CASE Sent.to \notin registered
    BY <1>6, <2>2, <2>4 DEF SendTo, mutexFree, Inv, RunInv
  <2>5. QED
    BY <2>3, <2>4
<1>7. CASE SendWaits
  BY <1>7 DEF SendWaits, mutexFree, Inv, RunInv, HandlerStatements, Inspects
<1>8. CASE HandlerReturns
  BY <1>8 DEF HandlerReturns, Inv, RunInv
<1>9. CASE Decide
  <2>1. /\ script' \in Seq(Statements \ Aliases) /\ script' \in Seq(Statements)
        /\ script # <<>>
    BY <1>9, CallsTyped DEF Decide, Runs, Rest
  <2>2. QED
    BY <1>9, <2>1 DEF Decide, Inv, RunInv
<1>10. CASE ReserveMaterials \/ PerformAssembly
  BY <1>10, AdvanceRuns DEF ReserveMaterials, PerformAssembly, Runs, Inv, RunInv
<1>11. ASSUME NEW a \in Agents, DiscoverPeers(a)
       PROVE  RunInv'
  BY <1>2, <1>11, CallsTyped DEF DiscoverPeers
<1>12. CASE StartMonitoring \/ StartProductionOrder
  BY <1>2, <1>12, CallsTyped, AgentFacts DEF StartMonitoring, StartProductionOrder
<1>13. ASSUME NEW m \in Requests, Request(m)
       PROVE  RunInv'
  <2>1. m \in Messages /\ m.from \in Agents
    BY DEF Messages
  <2>2. QED
    BY <1>2, <1>13, <2>1, CallsTyped DEF Request
<1>14. QED
  BY <1>1, <1>3, <1>4, <1>5, <1>6, <1>7, <1>8, <1>9, <1>10, <1>11, <1>12, <1>13
     DEF Next, MainCalls, Step

-----------------------------------------------------------------------------
(* Waiting and paying *)

\* Who was not constructed pays for nothing.
LEMMA BlankStep ==
  ASSUME Inv, Next
  PROVE  BlankInv'
<1> USE DEF Inv, BlankInv, busVars, mindVars, stockVars
<1>1. ASSUME NEW a \in Agents, Construct(a)
      PROVE  BlankInv'
  <2>1. \A b \in Agents : b # a => ram'[b] = ram[b]
    BY <1>1, RamTyped DEF Construct
  <2>2. registered' = registered \cup {a} /\ UNCHANGED <<beliefs, desires>>
    BY <1>1 DEF Construct
  <2>3. QED
    BY <2>1, <2>2
<1>2. ASSUME UNCHANGED <<beliefs, desires, ram>>, registered \subseteq registered'
      PROVE  BlankInv'
  BY <1>2
<1>3. CASE UpdateBelief
  <2>1. Self \in Agents /\ Self \in registered
    BY <1>3, RunnerFacts DEF UpdateBelief, Runs
  <2>2. \A b \in Agents : b # Self => ram'[b] = ram[b]
    BY <1>3, <2>1, RamTyped DEF UpdateBelief
  <2>3. \A b \in Agents : b # Self => beliefs'[b] = beliefs[b]
    BY <1>3, <2>1 DEF UpdateBelief, StateType
  <2>4. QED
    BY <1>3, <2>1, <2>2, <2>3 DEF UpdateBelief
<1>4. CASE AddDesire
  <2>1. Self \in Agents /\ Self \in registered
    BY <1>4, RunnerFacts DEF AddDesire, Runs
  <2>2. \A b \in Agents : b # Self => ram'[b] = ram[b]
    BY <1>4, <2>1, RamTyped DEF AddDesire
  <2>3. \A b \in Agents : b # Self => desires'[b] = desires[b]
    BY <1>4, <2>1 DEF AddDesire, StateType
  <2>4. QED
    BY <1>4, <2>1, <2>2, <2>3 DEF AddDesire
<1>5. CASE SetIntention \/ Discover \/ RegisterAlias
  BY <1>2, <1>5 DEF SetIntention, Discover, RegisterAlias
<1>6. CASE SendTo \/ SendWaits \/ HandlerReturns \/ Decide
  BY <1>2, <1>6 DEF SendTo, SendWaits, mutexFree, HandlerReturns, Decide
<1>7. CASE ReserveMaterials \/ PerformAssembly
  BY <1>2, <1>7 DEF ReserveMaterials, PerformAssembly
<1>8. ASSUME NEW kind, NEW a, NEW statements, Call(kind, a, statements)
      PROVE  BlankInv'
  BY <1>2, <1>8 DEF Call
<1> HIDE DEF Inv, BlankInv
<1>9. QED
  BY <1>1, <1>3, <1>4, <1>5, <1>6, <1>7, <1>8
     DEF Next, MainCalls, Step, DiscoverPeers, StartMonitoring, StartProductionOrder, Request

\* Only an inspection comes to wait, and what waits does nothing more.
LEMMA BlockStep ==
  ASSUME Inv, Next
  PROVE  OnlyInspectionsBlock'
<1> USE DEF Inv, OnlyInspectionsBlock, busVars, mindVars, stockVars
<1>1. ASSUME NEW a \in Agents, Construct(a)
      PROVE  OnlyInspectionsBlock'
  BY <1>1 DEF Construct
<1>2. ASSUME NEW kind, NEW a, NEW statements, Call(kind, a, statements)
      PROVE  OnlyInspectionsBlock'
  BY <1>2 DEF Call
<1>3. CASE SendWaits
  <2>1. Rest # <<>> /\ Head(Rest).op = "send" /\ serving # NoMessage
    BY <1>3 DEF SendWaits, mutexFree, Runs
  <2>2. Inspects(serving)
    BY <2>1, RunnerFacts, StatementKinds
  <2>3. QED
    BY <1>3, <2>2 DEF SendWaits, mutexFree, Inspects
<1>4. CASE SendTo \/ HandlerReturns \/ Decide
  BY <1>4 DEF SendTo, mutexFree, HandlerReturns, Decide, Runs
<1>5. CASE UpdateBelief \/ AddDesire \/ SetIntention \/ Discover \/ RegisterAlias
  BY <1>5 DEF UpdateBelief, AddDesire, SetIntention, Discover, RegisterAlias
<1>6. CASE ReserveMaterials \/ PerformAssembly
  BY <1>6 DEF ReserveMaterials, PerformAssembly
<1>7. QED
  BY <1>1, <1>2, <1>3, <1>4, <1>5, <1>6
     DEF Next, MainCalls, Step, DiscoverPeers, StartMonitoring, StartProductionOrder, Request

\* The invariant holds in every state of the program.
LEMMA Invariance == Spec => []Inv
<1>1. Inv /\ UNCHANGED vars => Inv'
  BY DEF vars, Inv, StateType, RunInv, BlankInv, OnlyInspectionsBlock
<1>2. Inv /\ Next => Inv'
  BY TypeStep, RunStep, BlankStep, BlockStep DEF Inv
<1>3. QED
  BY InitInv, <1>1, <1>2, PTL DEF Spec

\* There are finitely many keys of beliefs, four times four and one.
LEMMA KeysFinite == IsFiniteSet(Keys)
<1> DEFINE A == {"current_product", "order_quantity", "conversation_id", "materials_available"}
           B == {"assembly_status", "order_status", "total_items", "reserved_materials"}
           C == {"status", "position", "inspection_mode", "pass_rate"}
           D == {"inspection_status", "system_health", "next_maintenance", "robot_arm_temp"}
<1>1. ASSUME NEW w, NEW x, NEW y, NEW z
      PROVE  IsFiniteSet({w, x, y, z})
  <2>1. IsFiniteSet(({w} \cup {x}) \cup ({y} \cup {z}))
    BY FS_Singleton, FS_Union, Zenon
  <2>2. {w, x, y, z} = ({w} \cup {x}) \cup ({y} \cup {z})
    OBVIOUS
  <2>3. QED
    BY <2>1, <2>2
<1>2. IsFiniteSet(A) /\ IsFiniteSet(B) /\ IsFiniteSet(C) /\ IsFiniteSet(D)
  BY <1>1
<1> HIDE DEF A, B, C, D
<1>3. IsFiniteSet(A \cup B) /\ IsFiniteSet(C \cup D)
  BY <1>2, FS_Union
<1>4. IsFiniteSet((A \cup B) \cup (C \cup D))
  BY <1>3, FS_Union
<1>5. IsFiniteSet(((A \cup B) \cup (C \cup D)) \cup {"robot_arm_vibration"})
  BY <1>4, FS_AddElement
<1>6. Keys = ((A \cup B) \cup (C \cup D)) \cup {"robot_arm_vibration"}
  BY DEF Keys, A, B, C, D
<1>7. QED
  BY <1>5, <1>6

\* The keys that an agent with the beliefs f has a belief for.
Known(f) == {k \in Keys : f[k] # "none"}

\* Whatever an agent believes, it knows a finite number of things.
LEMMA KnownFinite ==
  ASSUME NEW f
  PROVE  IsFiniteSet(Known(f)) /\ Cardinality(Known(f)) \in Nat
<1>1. Known(f) \in SUBSET Keys
  BY DEF Known
<1>2. IsFiniteSet(Known(f))
  BY <1>1, KeysFinite, FS_Subset
<1>3. QED
  BY <1>2, FS_CardinalityType

\* A belief adds one to what an agent knows at most.
LEMMA BeliefKnown ==
  ASSUME NEW f \in [Keys -> Values], NEW k \in Keys, NEW v
  PROVE  Cardinality(Known([f EXCEPT ![k] = v])) <= Cardinality(Known(f)) + 1
<1> DEFINE g == [f EXCEPT ![k] = v]
<1>1. /\ IsFiniteSet(Known(f) \cup {k})
      /\ Cardinality(Known(f) \cup {k}) <= Cardinality(Known(f)) + 1
  <2>1. IsFiniteSet(Known(f)) /\ Cardinality(Known(f)) \in Nat
    BY KnownFinite
  <2>2. /\ IsFiniteSet(Known(f) \cup {k})
        /\ Cardinality(Known(f) \cup {k}) =
             IF k \in Known(f) THEN Cardinality(Known(f)) ELSE Cardinality(Known(f)) + 1
    BY <2>1, FS_AddElement, Zenon
  <2>3. QED
    BY <2>1, <2>2
<1>2. Known(g) \in SUBSET (Known(f) \cup {k})
  BY DEF Known
<1>3. Cardinality(Known(g)) <= Cardinality(Known(f) \cup {k})
  BY <1>1, <1>2, FS_Subset
<1>4. Cardinality(Known(g)) \in Nat /\ Cardinality(Known(f) \cup {k}) \in Nat
  BY <1>1, KnownFinite, FS_CardinalityType
<1>5. Cardinality(Known(f)) \in Nat
  BY KnownFinite
<1> HIDE DEF g
<1>6. Cardinality(Known(g)) <= Cardinality(Known(f)) + 1
  BY <1>1, <1>3, <1>4, <1>5
<1>7. QED
  BY <1>6 DEF g

\* One unit of memory pays for one thing more, or the memory is full.
LEMMA MindStep ==
  ASSUME Inv, MindIsPaidFor, Next
  PROVE  MindIsPaidFor'
<1> DEFINE Paid(b) == 8 + Held(b) <= ram[b] \/ ram[b] = RamLimit[b]
<1> USE DEF busVars, mindVars, stockVars
<1>1. ASSUME NEW b \in registered \cap Agents,
             beliefs'[b] = beliefs[b], desires'[b] = desires[b], ram'[b] = ram[b]
      PROVE  Paid(b)'
  BY <1>1 DEF MindIsPaidFor, Held
<1>2. ASSUME NEW b \in registered \cap Agents, desires'[b] \in Nat,
             Cardinality(Known(beliefs'[b])) + desires'[b]
                <= Cardinality(Known(beliefs[b])) + desires[b] + 1,
             ram'[b] = consume(ram[b], 1, RamLimit[b])
      PROVE  Paid(b)'
  <2>1. /\ ram[b] \in Nat /\ RamLimit[b] \in Nat /\ ram[b] <= RamLimit[b]
        /\ desires[b] \in Nat
    BY DEF Inv, StateType
  <2>2. Cardinality(Known(beliefs[b])) \in Nat /\ Cardinality(Known(beliefs'[b])) \in Nat
    BY KnownFinite
  <2>3. 8 + Cardinality(Known(beliefs[b])) + desires[b] <= ram[b] \/ ram[b] = RamLimit[b]
    BY <2>1, <2>2 DEF MindIsPaidFor, Held, Known
  <2>4. 8 + (Cardinality(Known(beliefs'[b])) + desires'[b]) <= ram'[b] \/ ram'[b] = RamLimit[b]
    BY <1>2, <2>1, <2>2, <2>3 DEF consume
  <2>5. QED
    BY <2>4 DEF Held, Known
<1>3. ASSUME NEW a \in Agents, Construct(a)
      PROVE  MindIsPaidFor'
  <2>1. /\ \A b \in Agents : b # a => ram'[b] = ram[b]
        /\ ram'[a] = consume(ram[a], 8, RamLimit[a])
    BY <1>3, RamTyped DEF Construct
  <2>2. ram[a] = 0 /\ desires[a] = 0 /\ Known(beliefs[a]) = {}
    BY <1>3 DEF Construct, Inv, BlankInv, Known
  <2>3. Cardinality(Known(beliefs[a])) = 0
    BY <2>2, FS_EmptySet
  <2>4. ram'[a] = 8
    BY <2>1, <2>2 DEF consume
  <2>5. Paid(a)'
    BY <1>3, <2>2, <2>3, <2>4 DEF Construct, Held, Known
  <2>6. \A b \in registered \cap Agents : b # a => Paid(b)'
    BY <1>1, <1>3, <2>1 DEF Construct
  <2>7. registered' = registered \cup {a}
    BY <1>3 DEF Construct
  <2>8. QED
    BY <2>5, <2>6, <2>7 DEF MindIsPaidFor
<1>4. CASE UpdateBelief
  <2> DEFINE k == Head(Rest).key
             v == Head(Rest).value
  <2>1. PICK s \in registered \cap Agents : s = Self
    BY <1>4, RunnerFacts DEF UpdateBelief, Runs
  <2>2. k \in Keys
    BY <1>4, RunnerFacts, StatementKinds DEF UpdateBelief, Runs
  <2>3. /\ \A b \in Agents : b # s => ram'[b] = ram[b]
        /\ ram'[s] = consume(ram[s], 1, RamLimit[s])
    BY <1>4, <2>1, RamTyped DEF UpdateBelief
  <2>4. /\ beliefs'[s] = [beliefs[s] EXCEPT ![k] = v] /\ beliefs[s] \in [Keys -> Values]
        /\ \A b \in Agents : b # s => beliefs'[b] = beliefs[b]
    BY <1>4, <2>1 DEF UpdateBelief, Inv, StateType
  <2>5. Cardinality(Known(beliefs'[s])) <= Cardinality(Known(beliefs[s])) + 1
    BY <2>2, <2>4, BeliefKnown
  <2>6. desires' = desires /\ registered' = registered /\ desires[s] \in Nat
    BY <1>4, <2>1 DEF UpdateBelief, Inv, StateType
  <2>7. Cardinality(Known(beliefs'[s])) + desires'[s]
          <= Cardinality(Known(beliefs[s])) + desires[s] + 1
    BY <2>5, <2>6, KnownFinite
  <2>8. Paid(s)'
    BY <1>2, <2>3, <2>6, <2>7
  <2>9. \A b \in registered \cap Agents : b # s => Paid(b)'
    BY <1>1, <2>3, <2>4, <2>6
  <2>10. QED
    BY <2>6, <2>8, <2>9 DEF MindIsPaidFor
<1>5. CASE AddDesire
  <2>1. PICK s \in registered \cap Agents : s = Self
    BY <1>5, RunnerFacts DEF AddDesire, Runs
  <2>2. /\ \A b \in Agents : b # s => ram'[b] = ram[b]
        /\ ram'[s] = consume(ram[s], 1, RamLimit[s])
    BY <1>5, <2>1, RamTyped DEF AddDesire
  <2>3. /\ desires'[s] = desires[s] + 1
        /\ \A b \in Agents : b # s => desires'[b] = desires[b]
    BY <1>5, <2>1 DEF AddDesire, Inv, StateType
  <2>4. beliefs' = beliefs /\ registered' = registered
    BY <1>5 DEF AddDesire
  <2>5. /\ Cardinality(Known(beliefs'[s])) + desires'[s]
             <= Cardinality(Known(beliefs[s])) + desires[s] + 1
        /\ desires'[s] \in Nat
    BY <2>3, <2>4, KnownFinite DEF Inv, StateType
  <2>6. Paid(s)'
    BY <1>2, <2>2, <2>5
  <2>7. \A b \in registered \cap Agents : b # s => Paid(b)'
    BY <1>1, <2>2, <2>3, <2>4
  <2>8. QED
    BY <2>4, <2>6, <2>7 DEF MindIsPaidFor
<1>6. CASE RegisterAlias
  BY <1>6, AgentFacts DEF RegisterAlias, MindIsPaidFor, Held
<1>7. ASSUME UNCHANGED <<registered, beliefs, desires, ram>>
      PROVE  MindIsPaidFor'
  BY <1>7 DEF MindIsPaidFor, Held
<1>8. CASE SetIntention \/ Discover \/ ReserveMaterials \/ PerformAssembly
  BY <1>7, <1>8 DEF SetIntention, Discover, ReserveMaterials, PerformAssembly
<1>9. CASE SendTo \/ SendWaits \/ HandlerReturns \/ Decide
  BY <1>7, <1>9 DEF SendTo, SendWaits, mutexFree, HandlerReturns, Decide
<1>10. ASSUME NEW kind, NEW a, NEW statements, Call(kind, a, statements)
       PROVE  MindIsPaidFor'
  BY <1>7, <1>10 DEF Call
<1>11. QED
  BY <1>3, <1>4, <1>5, <1>6, <1>8, <1>9, <1>10
     DEF Next, MainCalls, Step, DiscoverPeers, StartMonitoring, StartProductionOrder, Request

-----------------------------------------------------------------------------
(* Reserving before assembling *)

\* No request is an order to assemble; only the production manager gives one.
NobodyElseOrders == \A m \in Requests : ~(m.to = "robot_arm" /\ m.payload = "assemble")

\* Statements that neither take, nor assemble, nor lead to assembling.
Plain ==
    {s \in Statements : /\ s.op \notin {"take", "assemble", "decide"}
                        /\ ~(s.op = "send" /\ s.key = "robot_arm" /\ s.value = "assemble")}
Deciding == Plain \cup {Do("decide")}

\* What is left of Produce before the reservation is sent, before the
\* order is sent, and after it.
reserveSend == send("inventory", "TELL", "reserve")
orderSend == send("robot_arm", "TELL", "assemble")
observeSend == send("quality_control", "OBSERVE", "subscribe")
Left0 == <<believe("materials_available", "true"), Do("intend"), reserveSend,
           Do("intend"), orderSend, Do("intend"), observeSend>>
Left1 == <<Do("intend"), reserveSend, Do("intend"), orderSend, Do("intend"), observeSend>>
Left2 == <<reserveSend, Do("intend"), orderSend, Do("intend"), observeSend>>
Left3 == <<Do("intend"), orderSend, Do("intend"), observeSend>>
Left4 == <<orderSend, Do("intend"), observeSend>>
Left5 == <<Do("intend"), observeSend>>

\* What is left of the reservation until the materials are taken, ...
Take0 == <<Do("intend"), Do("take"), believe("reserved_materials", "set")>>
Take1 == <<Do("take"), believe("reserved_materials", "set")>>

\* ... and of the assembly until it is performed.
Build0 == <<Do("intend"), believe("status", "assembling"), Do("assemble"), believe("status", "idle")>>
Build1 == <<believe("status", "assembling"), Do("assemble"), believe("status", "idle")>>
Build2 == <<Do("assemble"), believe("status", "idle")>>

Taking == body \in {Take0, Take1}
Building == body \in {Build0, Build1, Build2}

(***************************************************************************)
(* A reservation is ahead of every assembly: either the one that is being  *)
(* served, or one that was made and not used.                              *)
(***************************************************************************)
ScriptAhead ==
    \/ script \in Seq(Plain)
    \/ "inventory" \in registered /\ script \in Seq(Deciding)
    \/ "inventory" \in registered /\ script \in {Left0, Left1, Left2}
    \/ script \in {Left3, Left4} /\ (assembled < reserved \/ Taking)

BodyAhead ==
    \/ body \in Seq(Plain)
    \/ Taking
    \/ Building /\ assembled < reserved /\ script \in Seq(Plain)

AheadInv == assembled <= reserved /\ ScriptAhead /\ BodyAhead

\* A statement done leaves the next of the sequences above.
LEMMA Lefts ==
  /\ Produce = Left0
  /\ Tail(Left0) = Left1 /\ Tail(Left1) = Left2 /\ Tail(Left2) = Left3
  /\ Tail(Left3) = Left4 /\ Tail(Left4) = Left5
  /\ Tail(Take0) = Take1 /\ Tail(Build0) = Build1 /\ Tail(Build1) = Build2
  /\ Tail(Take1) = <<believe("reserved_materials", "set")>>
  /\ Tail(Build2) = <<believe("status", "idle")>>
<1>1. Produce = Left0
  BY DEF Produce, Left0, reserveSend, orderSend, observeSend
<1>2. Tail(Left0) = Left1 /\ Tail(Left1) = Left2
  BY DEF Left0, Left1, Left2
<1>3. Tail(Left2) = Left3 /\ Tail(Left3) = Left4 /\ Tail(Left4) = Left5
  BY DEF Left2, Left3, Left4, Left5
<1>4. Tail(Take0) = Take1 /\ Tail(Take1) = <<believe("reserved_materials", "set")>>
  BY DEF Take0, Take1
<1>5. Tail(Build0) = Build1 /\ Tail(Build1) = Build2 /\ Tail(Build2) = <<believe("status", "idle")>>
  BY DEF Build0, Build1, Build2
<1>6. QED
  BY <1>1, <1>2, <1>3, <1>4, <1>5

\* What is next in each of them, none of which is at its end.
LEMMA Heads ==
  /\ Head(Left0).op = "believe" /\ Head(Left1).op = "intend" /\ Head(Left2) = reserveSend
  /\ Head(Left3).op = "intend" /\ Head(Left4) = orderSend
  /\ Head(Take0).op = "intend" /\ Head(Take1).op = "take"
  /\ Head(Build0).op = "intend" /\ Head(Build1).op = "believe" /\ Head(Build2).op = "assemble"
  /\ Left0 # <<>> /\ Left1 # <<>> /\ Left2 # <<>> /\ Left3 # <<>> /\ Left4 # <<>>
  /\ Take0 # <<>> /\ Take1 # <<>> /\ Build0 # <<>> /\ Build1 # <<>> /\ Build2 # <<>>
<1>1. Do("intend").op = "intend" /\ Do("take").op = "take" /\ Do("assemble").op = "assemble"
  BY DEF Do
<1>2. \A k, v : believe(k, v).op = "believe"
  BY DEF believe
<1>3. /\ Head(Left0).op = "believe" /\ Head(Left1).op = "intend" /\ Head(Left2) = reserveSend
      /\ Left0 # <<>> /\ Left1 # <<>> /\ Left2 # <<>>
  BY <1>1, <1>2 DEF Left0, Left1, Left2
<1>4. /\ Head(Left3).op = "intend" /\ Head(Left4) = orderSend
      /\ Left3 # <<>> /\ Left4 # <<>>
  BY <1>1 DEF Left3, Left4
<1>5. /\ Head(Take0).op = "intend" /\ Head(Take1).op = "take"
      /\ Take0 # <<>> /\ Take1 # <<>>
  BY <1>1 DEF Take0, Take1
<1>6. /\ Head(Build0).op = "intend" /\ Head(Build1).op = "believe" /\ Head(Build2).op = "assemble"
      /\ Build0 # <<>> /\ Build1 # <<>> /\ Build2 # <<>>
  BY <1>1, <1>2 DEF Build0, Build1, Build2
<1>7. QED
  BY <1>3, <1>4, <1>5, <1>6

\* Statements that are plain.
LEMMA PlainStatements ==
  /\ \A k \in Keys, v \in Values : believe(k, v) \in Plain
  /\ \A o \in {"desire", "intend", "discover", "alias"} : Do(o) \in Plain
  /\ \A n \in Names, v \in Verbs, p \in Payloads :
        ~(n = "robot_arm" /\ p = "assemble") => send(n, v, p) \in Plain
  /\ Plain \subseteq Deciding
BY StatementsTyped DEF Plain, Statements, believe, Do, send, Deciding, Beliefs, Others, Sends

\* Only an order makes a handler assemble, and only a reservation takes.
LEMMA HandlersPlain ==
  ASSUME NEW m \in Messages, ~(m.to = "robot_arm" /\ m.payload = "assemble")
  PROVE  Handler(m) \in Seq(Plain) \/ Handler(m) = Take0
<1>1. /\ \A k \in Keys, v \in Values : believe(k, v) \in Plain
      /\ \A o \in {"desire", "intend"} : Do(o) \in Plain
  BY PlainStatements
<1>2. <<>> \in Seq(Plain)
  OBVIOUS
<1>3. ManagerHandles(m) \in Seq(Plain)
  BY <1>1, <1>2 DEF ManagerHandles, Keys, Values
<1>4. InventoryHandles(m) \in Seq(Plain) \/ InventoryHandles(m) = Take0
  BY <1>1, <1>2 DEF InventoryHandles, Take0, Keys, Values
<1>5. m.to = "robot_arm" => RobotHandles(m) \in Seq(Plain)
  BY <1>2 DEF RobotHandles
<1>6. AlertHandles(m) \in Seq(Plain)
  BY <1>1, <1>2 DEF AlertHandles, Keys, Values
<1>7. QualityHandles(m) \in Seq(Plain)
  <2>1. send("production_manager", "TELL", "quality_passed") \in Plain
    BY PlainStatements, AgentFacts DEF Names, Verbs, Payloads
  <2>2. CASE m.payload = "inspect"
    BY <1>1, <2>1, <2>2 DEF QualityHandles, Keys, Values
  <2>3. CASE m.payload # "inspect"
    BY <1>1, <1>2, <2>3 DEF QualityHandles
  <2>4. QED
    BY <2>2, <2>3
<1>8. MaintenanceHandles(m) \in Seq(Plain)
  BY <1>1, <1>2 DEF MaintenanceHandles, Keys, Values
<1>9. m.to \in Agents \cup {"robot_arm_maintenance"}
  BY DEF Messages, Names
<1>10. QED
  BY <1>3, <1>4, <1>5, <1>6, <1>7, <1>8, <1>9, AgentFacts DEF Handler

\* The calls of main other than an order for a product are plain.
LEMMA CallsPlain ==
  ASSUME NobodyElseOrders
  PROVE  /\ \A a \in Agents : Constructor(a) \in Seq(Plain)
         /\ startMonitoring \in Seq(Plain) /\ Blocked \in Seq(Plain)
         /\ <<Do("discover")>> \in Seq(Plain)
         /\ \A m \in Requests : <<send(m.to, m.verb, m.payload)>> \in Seq(Plain)
         /\ AskForMaterials \in Seq(Deciding)
         /\ Left5 \in Seq(Plain) /\ <<>> \in Seq(Plain)
<1>1. /\ \A k \in Keys, v \in Values : believe(k, v) \in Plain
      /\ \A o \in {"desire", "intend", "discover", "alias"} : Do(o) \in Plain
      /\ \A n \in Names, v \in Verbs, p \in Payloads :
            ~(n = "robot_arm" /\ p = "assemble") => send(n, v, p) \in Plain
  BY PlainStatements
<1>2. \A a \in Agents : Constructor(a) \in Seq(Plain)
  BY <1>1, AgentFacts DEF Constructor, ProductionManagerAgent,
       InventoryAgent, RobotArmAgent, QualityControlAgent, MaintenanceAgent, Keys, Values
<1>3. startMonitoring \in Seq(Plain)
  BY <1>1, AgentFacts DEF startMonitoring, Names, Verbs, Payloads
<1>4. Blocked \in Seq(Plain) /\ <<Do("discover")>> \in Seq(Plain) /\ <<>> \in Seq(Plain)
  BY <1>1 DEF Blocked, Keys, Values
<1>5. \A m \in Requests : <<send(m.to, m.verb, m.payload)>> \in Seq(Plain)
  <2>1. \A m \in Requests : m.to \in Names /\ m.verb \in Verbs /\ m.payload \in Payloads
    BY DEF Messages
  <2>2. QED
    BY <1>1, <2>1 DEF NobodyElseOrders
<1>6. AskForMaterials \in Seq(Deciding)
  <2>1. send("inventory", "ASK", "check_materials") \in Plain
    BY <1>1, AgentFacts DEF Names, Verbs, Payloads
  <2>2. Do("decide") \in Deciding
    BY DEF Deciding
  <2>3. \A k \in Keys, v \in Values : believe(k, v) \in Deciding
    BY <1>1, PlainStatements
  <2>4. /\ send("inventory", "ASK", "check_materials") \in Deciding
        /\ Do("desire") \in Deciding /\ Do("intend") \in Deciding
    BY <1>1, <2>1, PlainStatements
  <2>5. QED
    BY <2>2, <2>3, <2>4 DEF AskForMaterials, Keys, Values
<1>7. Left5 \in Seq(Plain)
  BY <1>1, AgentFacts DEF Left5, observeSend, Names, Verbs, Payloads
<1>8. QED
  BY <1>2, <1>3, <1>4, <1>5, <1>6, <1>7

\* A statement done that sends, takes, assembles and decides nothing.
LEMMA AdvanceAhead ==
  ASSUME Inv, AheadInv, Rest # <<>>, Advance,
         Head(Rest).op \notin {"send", "take", "assemble", "decide"},
         UNCHANGED <<serving, reserved, assembled>>, registered \subseteq registered'
  PROVE  AheadInv'
<1>1. assembled' = assembled /\ reserved' = reserved
  OBVIOUS
<1>2. reserveSend.op = "send" /\ orderSend.op = "send"
  BY DEF reserveSend, orderSend, send
<1>3. CASE serving = NoMessage
  <2>1. script' = Tail(script) /\ script # <<>> /\ body' = body /\ Rest = script
    BY <1>3 DEF Advance, Rest
  <2>2. body = <<>> /\ ~Taking /\ ~Building
    BY <1>3, Heads DEF Inv, RunInv, Taking, Building
  <2>3. BodyAhead'
    BY <2>1, <2>2 DEF BodyAhead
  <2>4. script # Left2 /\ script # Left4
    BY <1>2, <2>1, Heads
  <2>5. CASE script \in Seq(Plain)
    BY <1>1, <2>1, <2>3, <2>5 DEF AheadInv, ScriptAhead
  <2>6. CASE "inventory" \in registered /\ script \in Seq(Deciding)
    BY <1>1, <2>1, <2>3, <2>6 DEF AheadInv, ScriptAhead
  <2>7. CASE "inventory" \in registered /\ script \in {Left0, Left1}
    BY <1>1, <2>1, <2>3, <2>7, Lefts DEF AheadInv, ScriptAhead
  <2>8. CASE script = Left3 /\ assembled < reserved
    BY <1>1, <2>1, <2>3, <2>8, Lefts DEF AheadInv, ScriptAhead
  <2>9. QED
    BY <2>2, <2>4, <2>5, <2>6, <2>7, <2>8 DEF AheadInv, ScriptAhead
<1>4. CASE serving # NoMessage
  <2>1. body' = Tail(body) /\ body # <<>> /\ script' = script /\ Rest = body
    BY <1>4 DEF Advance, Rest
  <2>2. body # Take1 /\ body # Build2
    BY <2>1, Heads
  <2>3. CASE body \in Seq(Plain) /\ ~Taking
    <3>1. body' \in Seq(Plain)
      BY <2>1, <2>3
    <3>2. QED
      BY <1>1, <2>1, <2>3, <3>1 DEF AheadInv, ScriptAhead, BodyAhead
  <2>4. CASE body = Take0
    <3>1. Taking /\ Taking'
      BY <2>1, <2>4, Lefts DEF Taking
    <3>2. QED
      BY <1>1, <2>1, <3>1 DEF AheadInv, ScriptAhead, BodyAhead
  <2>5. CASE body \in {Build0, Build1} /\ assembled < reserved /\ script \in Seq(Plain)
    <3>1. Building'
      BY <2>1, <2>5, Lefts DEF Building
    <3>2. QED
      BY <1>1, <2>1, <2>5, <3>1 DEF AheadInv, ScriptAhead, BodyAhead
  <2>6. QED
    BY <2>2, <2>3, <2>4, <2>5 DEF AheadInv, BodyAhead, Taking, Building
<1>5. QED
  BY <1>3, <1>4

\* A send of the manager's order, of its reservation, or of anything else.
LEMMA SendAhead ==
  ASSUME Inv, AheadInv, NobodyElseOrders, SendTo
  PROVE  AheadInv'
<1>1. /\ serving = NoMessage /\ script # <<>> /\ script' = Tail(script)
      /\ UNCHANGED <<registered, reserved, assembled>>
      /\ Head(script).op = "send" /\ Rest = script
  BY DEF SendTo, mutexFree, Runs, Rest, stockVars
<1>2. body = <<>> /\ ~Taking /\ ~Building
  BY <1>1, Heads DEF Inv, RunInv, Taking, Building
<1>3. Sent \in Messages
  BY SentTyped DEF SendTo
<1>4. /\ Sent.to = Head(script).key /\ Sent.payload = Head(script).value
  BY <1>1 DEF Sent, Message
<1>5. body' = IF Sent.to \in registered THEN Handler(Sent) ELSE body
  BY DEF SendTo
<1>6. <<>> \in Seq(Plain)
  OBVIOUS
<1>7. CASE script \in Seq(Plain) \/ ("inventory" \in registered /\ script \in Seq(Deciding))
  <2>1. Head(script) \in Plain
    <3>1. Head(script) \in Deciding
      BY <1>1, <1>7, PlainStatements
    <3>2. Do("decide").op = "decide"
      BY DEF Do
    <3>3. QED
      BY <1>1, <3>1, <3>2 DEF Deciding
  <2>2. ~(Sent.to = "robot_arm" /\ Sent.payload = "assemble")
    BY <1>1, <1>4, <2>1 DEF Plain
  <2>3. body' \in Seq(Plain) \/ body' = Take0
    BY <1>2, <1>3, <1>5, <1>6, <2>2, HandlersPlain
  <2>4. script' \in Seq(Plain) \/ ("inventory" \in registered /\ script' \in Seq(Deciding))
    BY <1>1, <1>7
  <2>5. BodyAhead'
    BY <2>3 DEF BodyAhead, Taking
  <2>6. QED
    BY <1>1, <2>4, <2>5 DEF AheadInv, ScriptAhead
<1>8. CASE script = Left2 /\ "inventory" \in registered
  <2>1. Sent.to = "inventory" /\ Sent.payload = "reserve"
    BY <1>4, <1>8, Heads DEF reserveSend, send
  <2>2. Handler(Sent) = Take0
    BY <2>1 DEF Handler, InventoryHandles, Take0
  <2>3. body' = Take0 /\ script' = Left3
    BY <1>1, <1>5, <1>8, <2>1, <2>2, Lefts
  <2>4. QED
    BY <1>1, <2>3 DEF AheadInv, ScriptAhead, BodyAhead, Taking
<1>9. CASE script = Left4 /\ assembled < reserved
  <2>1. Sent.to = "robot_arm" /\ Sent.payload = "assemble"
    BY <1>4, <1>9, Heads DEF orderSend, send
  <2>2. Handler(Sent) = Build0
    BY <2>1 DEF Handler, RobotHandles, Build0
  <2>3. script' \in Seq(Plain)
    BY <1>1, <1>9, Lefts, CallsPlain
  <2>4. body' = Build0 \/ body' \in Seq(Plain)
    BY <1>2, <1>5, <1>6, <2>2
  <2>5. QED
    BY <1>1, <1>9, <2>3, <2>4 DEF AheadInv, ScriptAhead, BodyAhead, Building
<1>10. script \notin {Left0, Left1, Left3}
  BY <1>1, Heads
<1>11. QED
  <2>1. \/ script \in Seq(Plain)
        \/ "inventory" \in registered /\ script \in Seq(Deciding)
        \/ "inventory" \in registered /\ script = Left2
        \/ script = Left4 /\ assembled < reserved
    BY <1>2, <1>10 DEF AheadInv, ScriptAhead
  <2>2. QED
    BY <1>7, <1>8, <1>9, <2>1

\* Every step keeps a reservation ahead of every assembly.
LEMMA AheadStep ==
  ASSUME Inv, AheadInv, NobodyElseOrders, Next
  PROVE  AheadInv'
<1> USE DEF busVars, mindVars, stockVars
<1>1. ASSUME NEW statements, statements \in Seq(Plain) \cup Seq(Deciding), script' = statements,
             statements \in Seq(Plain) \/ "inventory" \in registered',
             Returned, UNCHANGED <<body, reserved, assembled>>
      PROVE  AheadInv'
  <2>1. body = <<>> /\ ~Taking /\ ~Building
    BY <1>1, Heads DEF Returned, Inv, RunInv, Taking, Building
  <2>2. QED
    BY <1>1, <2>1, CallsPlain DEF AheadInv, ScriptAhead, BodyAhead
<1>2. ASSUME NEW a \in Agents, Construct(a)
      PROVE  AheadInv'
  BY <1>1, <1>2, CallsPlain DEF Construct
<1>3. ASSUME NEW kind, NEW a, NEW statements \in Seq(Plain) \cup Seq(Deciding),
             Call(kind, a, statements)
      PROVE  AheadInv'
  BY <1>1, <1>3, AgentFacts DEF Call, Names
<1>4. CASE UpdateBelief
  BY <1>4, AdvanceAhead DEF UpdateBelief, Runs
<1>5. CASE AddDesire \/ SetIntention \/ Discover
  BY <1>5, AdvanceAhead DEF AddDesire, SetIntention, Discover, Runs
<1>6. CASE RegisterAlias
  BY <1>6, AdvanceAhead DEF RegisterAlias, Runs
<1>7. CASE SendTo
  BY <1>7, SendAhead
<1>8. CASE SendWaits \/ HandlerReturns
  <2>1. UNCHANGED <<registered, script, body, reserved, assembled>>
    BY <1>8 DEF SendWaits, mutexFree, HandlerReturns
  <2>2. QED
    BY <2>1 DEF AheadInv, ScriptAhead, BodyAhead, Taking, Building
<1>9. CASE Decide
  <2>1. /\ Head(script).op = "decide" /\ script # <<>> /\ body = <<>>
        /\ script' \in {Produce, Blocked}
        /\ UNCHANGED <<registered, body, reserved, assembled>>
    BY <1>9 DEF Decide, Runs, Rest, Inv, RunInv
  <2>2. "inventory" \in registered
    <3>1. script \notin Seq(Plain)
      BY <2>1 DEF Plain
    <3>2. script \notin {Left3, Left4}
      BY <2>1, Heads DEF orderSend, send
    <3>3. QED
      BY <3>1, <3>2 DEF AheadInv, ScriptAhead
  <2>3. ~Taking /\ ~Building /\ body \in Seq(Plain)
    BY <2>1, Heads DEF Taking, Building
  <2>4. QED
    BY <2>1, <2>2, <2>3, Lefts, CallsPlain DEF AheadInv, ScriptAhead, BodyAhead
<1>10. CASE ReserveMaterials \/ PerformAssembly
  <2>1. Rest # <<>> /\ Head(Rest).op \in {"take", "assemble"} /\ Advance
    BY <1>10 DEF ReserveMaterials, PerformAssembly, Runs
  <2>2. Do("decide").op = "decide" /\ reserveSend.op = "send" /\ orderSend.op = "send"
    BY DEF Do, reserveSend, orderSend, send
  <2>3. \A q \in Seq(Plain) : q # <<>> => Head(q).op \notin {"take", "assemble"}
    BY DEF Plain
  <2>4. \A q \in Seq(Deciding) : q # <<>> => Head(q).op \notin {"take", "assemble"}
    BY <2>2 DEF Deciding, Plain
  <2>5. serving # NoMessage
    <3>1. SUFFICES ASSUME serving = NoMessage PROVE FALSE
      OBVIOUS
    <3>2. Rest = script
      BY <3>1 DEF Rest
    <3>3. QED
      BY <2>1, <2>2, <2>3, <2>4, <3>2, Heads DEF AheadInv, ScriptAhead
  <2>6. Rest = body /\ body' = Tail(body) /\ script' = script
    BY <2>1, <2>5 DEF Rest, Advance
  <2>7. body = Take1 \/ (body = Build2 /\ assembled < reserved /\ script \in Seq(Plain))
    BY <2>1, <2>3, <2>6, Heads DEF AheadInv, BodyAhead, Taking, Building
  <2>8. reserved \in Nat /\ assembled \in Nat /\ registered' = registered
    BY <1>10 DEF Inv, StateType, ReserveMaterials, PerformAssembly
  <2>9. <<believe("reserved_materials", "set")>> \in Seq(Plain) /\ <<believe("status", "idle")>> \in Seq(Plain)
    BY PlainStatements DEF Keys, Values
  <2>10. CASE body = Take1
    <3>1. reserved' = reserved + 1 /\ assembled' = assembled
      BY <1>10, <2>6, <2>10, Heads DEF ReserveMaterials, PerformAssembly, Runs
    <3>2. body' \in Seq(Plain)
      BY <2>6, <2>9, <2>10, Lefts
    <3>3. assembled' < reserved'
      BY <2>8, <3>1 DEF AheadInv
    <3>4. assembled' <= reserved'
      BY <2>8, <3>1 DEF AheadInv
    <3>5. QED
      BY <2>6, <2>8, <3>2, <3>3, <3>4 DEF AheadInv, ScriptAhead, BodyAhead
  <2>11. CASE body = Build2 /\ assembled < reserved /\ script \in Seq(Plain)
    <3>1. reserved' = reserved /\ assembled' = assembled + 1
      BY <1>10, <2>6, <2>11, Heads DEF ReserveMaterials, PerformAssembly, Runs
    <3>2. body' \in Seq(Plain)
      BY <2>6, <2>9, <2>11, Lefts
    <3>3. assembled' <= reserved'
      BY <2>8, <2>11, <3>1
    <3>4. QED
      BY <2>6, <2>11, <3>2, <3>3 DEF AheadInv, ScriptAhead, BodyAhead
  <2>12. QED
    BY <2>7, <2>10, <2>11
<1>11. ASSUME NEW a \in Agents, DiscoverPeers(a) PROVE AheadInv'
  BY <1>3, <1>11, CallsPlain DEF DiscoverPeers
<1>12. CASE StartMonitoring \/ StartProductionOrder
  BY <1>3, <1>12, CallsPlain DEF StartMonitoring, StartProductionOrder
<1>13. ASSUME NEW m \in Requests, Request(m) PROVE AheadInv'
  BY <1>3, <1>13, CallsPlain DEF Request
<1>14. QED
  BY <1>2, <1>4, <1>5, <1>6, <1>7, <1>8, <1>9, <1>10, <1>11, <1>12, <1>13
     DEF Next, MainCalls, Step

-----------------------------------------------------------------------------
(* Theorems *)

\* The budgets are never exceeded and every variable keeps its type: an
\* agent's use is refused beyond its limits (smart_factory.cpp:156-189).
THEOREM TypeCorrect == Spec => []TypeOK
<1>1. Inv => TypeOK
  <2> SUFFICES ASSUME Inv PROVE TypeOK
    OBVIOUS
  <2>1. body \in Seq(Statements)
    <3>1. <<>> \in Seq(Statements)
      OBVIOUS
    <3>2. HandlerStatements(serving) \subseteq Statements
      BY StatementsTyped DEF HandlerStatements, Statements
    <3>3. CASE serving = NoMessage
      BY <3>1, <3>3 DEF Inv, RunInv
    <3>4. CASE serving # NoMessage
      <4>1. body \in Seq(HandlerStatements(serving))
        BY <3>4 DEF Inv, RunInv
      <4>2. QED
        BY <3>2, <4>1
    <3>5. QED
      BY <3>3, <3>4
  <2>2. \A a \in Agents : ram[a] \in 0..RamLimit[a] /\ energy[a] \in 0..EnergyLimit[a]
    <3>1. \A a \in Agents : RamLimit[a] \in Nat /\ EnergyLimit[a] \in Nat
      OBVIOUS
    <3>2. QED
      BY <3>1 DEF Inv, StateType
  <2>3. QED
    BY <2>1, <2>2 DEF Inv, StateType, RunInv, TypeOK
<1>2. QED
  BY Invariance, <1>1, PTL

\* Whatever main calls and asks agents to send, only an inspection makes the
\* program wait for itself (smart_factory.cpp:713).
THEOREM InspectionsBlock == Spec => []OnlyInspectionsBlock
<1>1. Inv => OnlyInspectionsBlock
  BY DEF Inv
<1>2. QED
  BY Invariance, <1>1, PTL

\* For any limits, what an agent keeps in mind is paid for or its memory is
\* full (smart_factory.cpp:156-162, 290-314).
THEOREM MindPaid == Spec => []MindIsPaidFor
<1>1. Init => MindIsPaidFor
  BY DEF Init, MindIsPaidFor
<1>2. Inv /\ MindIsPaidFor /\ Next => MindIsPaidFor'
  BY MindStep
<1>3. MindIsPaidFor /\ UNCHANGED vars => MindIsPaidFor'
  BY DEF vars, MindIsPaidFor, Held
<1>4. QED
  BY Invariance, <1>1, <1>2, <1>3, PTL DEF Spec
\* If nobody but the production manager orders assemblies, none is performed
\* that was not reserved, however calls and requests follow each other
\* (smart_factory.cpp:483-496).
THEOREM ReservedFirst == ASSUME NobodyElseOrders PROVE Spec => []AssembledIsReserved
<1>1. Init => AheadInv
  <2>1. <<>> \in Seq(Plain)
    OBVIOUS
  <2>2. Init => reserved = 0 /\ assembled = 0 /\ script = <<>> /\ body = <<>>
    BY DEF Init
  <2>3. Init => assembled <= reserved
    BY <2>2
  <2>4. Init => ScriptAhead /\ BodyAhead
    BY <2>1, <2>2 DEF ScriptAhead, BodyAhead
  <2>5. QED
    BY <2>3, <2>4 DEF AheadInv
<1>2. Inv /\ AheadInv /\ Next => AheadInv'
  BY AheadStep
<1>3. AheadInv /\ UNCHANGED vars => AheadInv'
  BY DEF vars, AheadInv, ScriptAhead, BodyAhead, Taking, Building
<1>4. AheadInv => AssembledIsReserved
  BY DEF AheadInv, AssembledIsReserved
<1>5. QED
  BY Invariance, <1>1, <1>2, <1>3, <1>4, PTL DEF Spec
=============================================================================
