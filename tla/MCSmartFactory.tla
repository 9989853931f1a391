--------------------------- MODULE MCSmartFactory ---------------------------
(* Limits, stocks and requests for model checking SmartFactory.            *)
EXTENDS SmartFactory

\* The numbers of smart_factory.cpp, energy in 0.01 mAh.
FactoryRam ==
    [production_manager |-> 128, inventory |-> 64, robot_arm |-> 32,
     quality_control |-> 96, maintenance |-> 48]
FactoryEnergy ==
    [production_manager |-> 100000, inventory |-> 80000, robot_arm |-> 200000,
     quality_control |-> 60000, maintenance |-> 40000]
FactoryStock == [steel_plate |-> 100, circuit_board |-> 50, sensor_unit |-> 75]

\* Numbers that a few calls exhaust.
SmallRam ==
    [production_manager |-> 14, inventory |-> 11, robot_arm |-> 12,
     quality_control |-> 12, maintenance |-> 13]
SmallEnergy ==
    [production_manager |-> 150, inventory |-> 60, robot_arm |-> 80,
     quality_control |-> 90, maintenance |-> 70]
SmallStock == [steel_plate |-> 10, circuit_board |-> 3, sensor_unit |-> 6]

NoRequests == {}
FactoryRequests ==
    {Message("robot_arm", "production_manager", "TELL", "assembly_complete"),
     Message("production_manager", "quality_control", "ASK", "inspect"),
     Message("quality_control", "production_manager", "TELL", "quality_passed"),
     Message("quality_control", "production_manager", "TELL", "quality_failed"),
     Message("maintenance", "robot_arm_maintenance", "TELL", "pause"),
     Message("robot_arm", "maintenance", "TELL", "telemetry")}
=============================================================================
