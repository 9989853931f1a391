---------------------------- MODULE SmartFactory ----------------------------
(***************************************************************************)
(* The simulation smart_factory (src/examples/smart_factory.cpp): five     *)
(* agents with beliefs, desires and a budget of memory and energy, who     *)
(* send each other messages over a MessageBus.  A send is a call: the bus  *)
(* runs the handler of the addressee under its mutex_, which is not        *)
(* recursive, so that a handler that sends waits for its own thread.       *)
(*                                                                         *)
(* All runs on the thread of main(), which constructs the agents and calls *)
(* their public functions; here it may call them again and in any order,   *)
(* and send the messages that handlers expect and whose sends are          *)
(* commented out (lines 524, 641) or missing.  The limits of the agents    *)
(* and the first stock are parameters.                                     *)
(*                                                                         *)
(* A function is the sequence of statements that it still has to run.      *)
(* Abstracted: the text of desires and intentions; a payload is the word   *)
(* that handlers look for; energy is counted in 0.01 mAh, and what the     *)
(* length of a payload adds to a message's 0.1 mAh is below that; compute  *)
(* cycles, storage, time stamps and the list of discovered peers, which    *)
(* nothing reads.                                                          *)
(***************************************************************************)
EXTENDS Integers, Sequences, FiniteSets

CONSTANTS
    RamLimit, EnergyLimit,  \* ResourceLimits of each agent
    Stock,                  \* what inventory_ holds at first
    Calls,                  \* the kinds of call that main makes
    Requests,               \* messages that main has an agent send
    MaxCalls                \* bound on the calls after the construction

\* In the order of their construction.
Order == <<"production_manager", "inventory", "robot_arm", "quality_control", "maintenance">>
Agents == {Order[i] : i \in 1..Len(Order)}
Names == Agents \cup {"robot_arm_maintenance"}
Owner(name) == IF name = "robot_arm_maintenance" THEN "robot_arm" ELSE name

Verbs == {"TELL", "ASK", "OBSERVE"}
Payloads == {"check_materials", "reserve", "assemble", "subscribe", "subscribe_telemetry", "inspect",
             "assembly_complete", "quality_passed", "quality_failed", "telemetry", "pause"}
Replies == {"status:available", "status:unavailable", "ok", ""}

\* The materials of one SmartWidget order, whatever its quantity.
Needs == [steel_plate |-> 5, circuit_board |-> 2, sensor_unit |-> 3]
Materials == DOMAIN Needs

Keys == {"current_product", "order_quantity", "conversation_id", "materials_available",
         "assembly_status", "order_status", "total_items", "reserved_materials", "status",
         "position", "inspection_mode", "pass_rate", "inspection_status", "system_health",
         "next_maintenance", "robot_arm_temp", "robot_arm_vibration"}
Values == {"none", "set", "true", "false", "completed", "rework_needed", "idle", "assembling",
           "paused", "in_progress", "passed"}

Message(from, to, verb, payload) == [from |-> from, to |-> to, verb |-> verb, payload |-> payload]
Messages == [from : Agents, to : Names, verb : Verbs, payload : Payloads]
NoMessage == [from |-> "nobody"]

ASSUME SmartAssumption ==
    /\ RamLimit \in [Agents -> Nat] /\ \A a \in Agents : RamLimit[a] >= 8
    /\ EnergyLimit \in [Agents -> Nat] /\ Stock \in [Materials -> Nat]
    /\ Calls \subseteq {"discover", "monitor", "order", "request"}
    /\ Requests \subseteq Messages
    /\ MaxCalls \in Nat

VARIABLES
    registered,       \* the names in agents_ of the bus
    caller, script,   \* the agent that main calls, the statements left of that call
    serving, body,    \* the message whose handler holds mutex_, its statements left
    waiting,          \* the message whose send waits for mutex_, for ever
    reply,            \* the payload of the response that came last
    beliefs, desires, \* beliefs_ and how many desires_ an agent has
    ram, energy,      \* ram_used_ and energy_used_
    stock,            \* inventory_
    reserved, assembled,  \* history: reservations made, assemblies performed
    calls             \* the bound's counter

vars == <<registered, caller, script, serving, body, waiting, reply, beliefs, desires,
          ram, energy, stock, reserved, assembled, calls>>
busVars == <<registered, serving, waiting, reply>>
mindVars == <<beliefs, desires>>
stockVars == <<stock, reserved, assembled>>

-----------------------------------------------------------------------------
(* Statements and functions *)

Beliefs == [op : {"believe"}, key : Keys, value : Values, verb : {""}]
Sends == [op : {"send"}, key : Names, value : Payloads, verb : Verbs]
Others == [op : {"desire", "intend", "discover", "alias", "take", "assemble", "decide"},
           key : {""}, value : {""}, verb : {""}]
Statements == Beliefs \cup Sends \cup Others

Do(op) == [op |-> op, key |-> "", value |-> "", verb |-> ""]
believe(key, value) == [op |-> "believe", key |-> key, value |-> value, verb |-> ""]
send(to, verb, payload) == [op |-> "send", key |-> to, value |-> payload, verb |-> verb]

\* What the constructor of each class does after that of BDIAgent.
ProductionManagerAgent == <<>>

InventoryAgent == <<believe("total_items", "set")>>

RobotArmAgent == <<believe("status", "idle"), believe("position", "set"), Do("alias")>>

QualityControlAgent == <<believe("inspection_mode", "set"), believe("pass_rate", "set")>>

MaintenanceAgent ==
    <<believe("system_health", "set"), believe("next_maintenance", "set"), Do("desire")>>

Constructor(a) ==
    CASE a = "production_manager" -> ProductionManagerAgent
      [] a = "inventory" -> InventoryAgent
      [] a = "robot_arm" -> RobotArmAgent
      [] a = "quality_control" -> QualityControlAgent
      [] a = "maintenance" -> MaintenanceAgent

startMonitoring == <<Do("intend"), send("robot_arm", "OBSERVE", "subscribe_telemetry")>>

\* startProductionOrder up to the response of the inventory, ...
AskForMaterials ==
    <<believe("current_product", "set"), believe("order_quantity", "set"),
      believe("conversation_id", "set"), Do("desire"), Do("intend"),
      send("inventory", "ASK", "check_materials"), Do("decide")>>

\* Mutant: assembly starts before the materials are reserved.
Bug_AssembleFirst ==
    <<believe("materials_available", "true"),
      Do("intend"), send("robot_arm", "TELL", "assemble"),
      Do("intend"), send("inventory", "TELL", "reserve"),
      Do("intend"), send("quality_control", "OBSERVE", "subscribe")>>

\* ... when the response says that there are materials, ...
Produce ==
    <<believe("materials_available", "true"),
      Do("intend"), send("inventory", "TELL", "reserve"),
      Do("intend"), send("robot_arm", "TELL", "assemble"),
      Do("intend"), send("quality_control", "OBSERVE", "subscribe")>>

\* ... and when it does not.
Blocked == <<believe("materials_available", "false")>>

\* The handlers, each of which looks for words in the payload.
ManagerHandles(m) ==
    CASE m.payload = "assembly_complete" -> <<believe("assembly_status", "completed"), Do("intend")>>
      [] m.payload = "quality_passed" -> <<believe("order_status", "completed")>>
      [] m.payload = "quality_failed" -> <<believe("order_status", "rework_needed")>>
      [] OTHER -> <<>>

InventoryHandles(m) ==
    CASE m.payload = "check_materials" -> <<Do("intend")>>
      [] m.payload = "reserve" -> <<Do("intend"), Do("take"), believe("reserved_materials", "set")>>
      [] OTHER -> <<>>

\* Mutant: the notification that line 641 comments out.
Bug_RobotNotifies(m) ==
    IF m.payload = "assemble"
    THEN <<Do("intend"), believe("status", "assembling"), Do("assemble"),
           send("production_manager", "TELL", "assembly_complete"), believe("status", "idle")>>
    ELSE <<>>

RobotHandles(m) ==
    IF m.payload = "assemble"
    THEN <<Do("intend"), believe("status", "assembling"), Do("assemble"), believe("status", "idle")>>
    ELSE <<>>

AlertHandles(m) == IF m.payload = "pause" THEN <<believe("status", "paused")>> ELSE <<>>

\* performInspection passes every product.
QualityHandles(m) ==
    IF m.payload = "inspect"
    THEN <<Do("intend"), believe("inspection_status", "in_progress"),
           send("production_manager", "TELL", "quality_passed"), believe("inspection_status", "passed")>>
    ELSE IF m.verb = "OBSERVE" THEN <<Do("desire")>> ELSE <<>>

MaintenanceHandles(m) ==
    IF m.payload = "telemetry"
    THEN <<Do("intend"), believe("robot_arm_temp", "set"), believe("robot_arm_vibration", "set"),
           believe("system_health", "set")>>
    ELSE <<>>

Handler(m) ==
    CASE m.to = "production_manager" -> ManagerHandles(m)
      [] m.to = "inventory" -> InventoryHandles(m)
      [] m.to = "robot_arm" -> RobotHandles(m)
      [] m.to = "robot_arm_maintenance" -> AlertHandles(m)
      [] m.to = "quality_control" -> QualityHandles(m)
      [] m.to = "maintenance" -> MaintenanceHandles(m)

checkMaterialsForProduct == \A x \in Materials : stock[x] >= Needs[x]

\* Only the response to "check_materials" is read.
Response(m) ==
    IF m.to = "inventory" /\ m.payload = "check_materials"
    THEN IF checkMaterialsForProduct THEN "status:available" ELSE "status:unavailable"
    ELSE "ok"

\* find("available"): the word is part of both answers.
SaysAvailable(r) == r \in {"status:available", "status:unavailable"}

-----------------------------------------------------------------------------
(* Budgets *)

\* Mutant: nothing is refused.
Bug_consumeUnchecked(used, amount, limit) == used + amount

\* Mutant: the last unit is refused.
Bug_consumeBelow(used, amount, limit) == IF used + amount >= limit THEN used ELSE used + amount

\* Refused when it exceeds the limit, which no caller looks at.
consume(used, amount, limit) == IF used + amount > limit THEN used ELSE used + amount

consumeRAM(a, kb) == ram' = [ram EXCEPT ![a] = consume(@, kb, RamLimit[a])]
consumeEnergy(a, units) == energy' = [energy EXCEPT ![a] = consume(@, units, EnergyLimit[a])]

Init ==
    /\ registered = {}
    /\ caller = Order[1] /\ script = <<>>
    /\ serving = NoMessage /\ body = <<>> /\ waiting = NoMessage /\ reply = ""
    /\ beliefs = [a \in Agents |-> [k \in Keys |-> "none"]]
    /\ desires = [a \in Agents |-> 0]
    /\ ram = [a \in Agents |-> 0] /\ energy = [a \in Agents |-> 0]
    /\ stock = Stock /\ reserved = 0 /\ assembled = 0
    /\ calls = 0

-----------------------------------------------------------------------------
(* The calls of main *)

Returned == script = <<>> /\ serving = NoMessage /\ waiting = NoMessage

\* The constructor of BDIAgent registers the agent and pays for its core.
Construct(a) ==
    /\ Returned /\ a \notin registered
    /\ \A i, j \in 1..Len(Order) : i < j /\ Order[j] = a => Order[i] \in registered
    /\ registered' = registered \cup {a}
    /\ consumeRAM(a, 8) /\ consumeEnergy(a, 50)
    /\ caller' = a /\ script' = Constructor(a)
    /\ UNCHANGED <<serving, body, waiting, reply, mindVars, stockVars, calls>>

Call(kind, a, statements) ==
    /\ kind \in Calls /\ calls < MaxCalls
    /\ Returned /\ Names \subseteq registered
    /\ calls' = calls + 1
    /\ caller' = a /\ script' = statements
    /\ UNCHANGED <<busVars, body, mindVars, ram, energy, stockVars>>

DiscoverPeers(a) == Call("discover", a, <<Do("discover")>>)
StartMonitoring == Call("monitor", "maintenance", startMonitoring)
StartProductionOrder == Call("order", "production_manager", AskForMaterials)
Request(m) == Call("request", m.from, <<send(m.to, m.verb, m.payload)>>)

-----------------------------------------------------------------------------
(* Statements, of the handler that runs or else of the call *)

Self == IF serving = NoMessage THEN caller ELSE Owner(serving.to)
Rest == IF serving = NoMessage THEN script ELSE body

Runs(op) == waiting = NoMessage /\ Rest # <<>> /\ Head(Rest).op = op

\* Registering, discovering and sending take mutex_, which handlers hold.
mutexFree == serving = NoMessage

Advance ==
    IF serving = NoMessage
    THEN script' = Tail(script) /\ UNCHANGED body
    ELSE body' = Tail(body) /\ UNCHANGED script

\* A belief is paid for again each time it is overwritten.
UpdateBelief ==
    /\ Runs("believe")
    /\ consumeRAM(Self, 1) /\ consumeEnergy(Self, 1)
    /\ beliefs' = [beliefs EXCEPT ![Self][Head(Rest).key] = Head(Rest).value]
    /\ Advance
    /\ UNCHANGED <<busVars, caller, desires, stockVars, calls>>

AddDesire ==
    /\ Runs("desire")
    /\ consumeRAM(Self, 1) /\ consumeEnergy(Self, 1)
    /\ desires' = [desires EXCEPT ![Self] = @ + 1]
    /\ Advance
    /\ UNCHANGED <<busVars, caller, beliefs, stockVars, calls>>

SetIntention ==
    /\ Runs("intend")
    /\ consumeEnergy(Self, 2)
    /\ Advance
    /\ UNCHANGED <<busVars, caller, mindVars, ram, stockVars, calls>>

Discover ==
    /\ Runs("discover") /\ mutexFree
    /\ consumeEnergy(Self, 50)
    /\ Advance
    /\ UNCHANGED <<busVars, caller, mindVars, ram, stockVars, calls>>

\* The robot arm registers its second handler.
RegisterAlias ==
    /\ Runs("alias") /\ mutexFree
    /\ registered' = registered \cup {"robot_arm_maintenance"}
    /\ Advance
    /\ UNCHANGED <<serving, waiting, reply, caller, mindVars, ram, energy, stockVars, calls>>

Sent == Message(Self, Head(Rest).key, Head(Rest).verb, Head(Rest).value)

\* The bus takes its lock and calls the handler, or finds no addressee.
SendTo ==
    /\ Runs("send") /\ mutexFree
    /\ consumeEnergy(Self, 10)
    /\ script' = Tail(script)
    /\ IF Sent.to \in registered
       THEN serving' = Sent /\ body' = Handler(Sent) /\ UNCHANGED reply
       ELSE reply' = "" /\ UNCHANGED <<serving, body>>
    /\ UNCHANGED <<registered, waiting, caller, mindVars, ram, stockVars, calls>>

\* The thread that holds the lock waits for it.
SendWaits ==
    /\ Runs("send") /\ ~mutexFree
    /\ consumeEnergy(Self, 10)
    /\ waiting' = Sent
    /\ UNCHANGED <<registered, serving, reply, caller, script, body, mindVars, ram, stockVars, calls>>

HandlerReturns ==
    /\ serving # NoMessage /\ body = <<>> /\ waiting = NoMessage
    /\ serving' = NoMessage
    /\ reply' = Response(serving)
    /\ UNCHANGED <<registered, waiting, caller, script, body, mindVars, ram, energy, stockVars, calls>>

Decide ==
    /\ Runs("decide") /\ serving = NoMessage
    /\ script' = IF SaysAvailable(reply) THEN Produce ELSE Blocked
    /\ UNCHANGED <<busVars, caller, body, mindVars, ram, energy, stockVars, calls>>

ReserveMaterials ==
    /\ Runs("take")
    /\ stock' = [x \in Materials |-> stock[x] - Needs[x]]
    /\ reserved' = reserved + 1
    /\ Advance
    /\ UNCHANGED <<busVars, caller, mindVars, ram, energy, assembled, calls>>

PerformAssembly ==
    /\ Runs("assemble")
    /\ assembled' = assembled + 1
    /\ Advance
    /\ UNCHANGED <<busVars, caller, mindVars, ram, energy, stock, reserved, calls>>

-----------------------------------------------------------------------------

MainCalls ==
    \/ \E a \in Agents : Construct(a) \/ DiscoverPeers(a)
    \/ StartMonitoring \/ StartProductionOrder
    \/ \E m \in Requests : Request(m)

Step ==
    \/ UpdateBelief \/ AddDesire \/ SetIntention \/ Discover \/ RegisterAlias
    \/ SendTo \/ SendWaits \/ HandlerReturns \/ Decide
    \/ ReserveMaterials \/ PerformAssembly

Next == MainCalls \/ Step

Spec == Init /\ [][Next]_vars

-----------------------------------------------------------------------------
(* Properties *)

TypeOK ==
    /\ registered \subseteq Names
    /\ caller \in Agents /\ script \in Seq(Statements)
    /\ serving \in Messages \cup {NoMessage} /\ body \in Seq(Statements)
    /\ waiting \in Messages \cup {NoMessage} /\ reply \in Replies
    /\ beliefs \in [Agents -> [Keys -> Values]] /\ desires \in [Agents -> Nat]
    /\ \A a \in Agents : ram[a] \in 0..RamLimit[a] /\ energy[a] \in 0..EnergyLimit[a]
    /\ stock \in [Materials -> Int] /\ reserved \in Nat /\ assembled \in Nat
    /\ calls \in 0..MaxCalls

(***************************************************************************)
(* The program waits for itself only in an inspection: of the three sends  *)
(* inside handlers, "NOTE: sendTo() from within handleMessage causes       *)
(* deadlock" took out two, and that of the quality control is left         *)
(* (smart_factory.cpp:98-102, 523, 640, 713).                              *)
(***************************************************************************)
OnlyInspectionsBlock ==
    waiting # NoMessage => serving.to = "quality_control" /\ serving.payload = "inspect"

\* The robot arm assembles nothing for which the inventory has not reserved
\* the materials, however calls follow each other (smart_factory.cpp:483-496).
AssembledIsReserved == assembled <= reserved

Held(a) == Cardinality({k \in Keys : beliefs[a][k] # "none"}) + desires[a]

\* What an agent keeps in mind is paid for in memory, until its memory is
\* full and consumeRAM refuses what is kept all the same
\* (smart_factory.cpp:156-162, 262, 290-314).
MindIsPaidFor ==
    \A a \in registered \cap Agents : 8 + Held(a) <= ram[a] \/ ram[a] = RamLimit[a]

-----------------------------------------------------------------------------
(* What a comment says and the code does not do *)

\* smart_factory.cpp:595 "Check if we have enough of each material", before
\* any is reserved (506 "Production blocked: Insufficient materials!").
StockNeverNegative == \A x \in Materials : stock[x] >= 0
=============================================================================
