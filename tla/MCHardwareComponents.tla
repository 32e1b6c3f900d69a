------------------------- MODULE MCHardwareComponents -------------------------
(* HardwareComponents with an actuator, a sensor and a system, for TLC. *)
EXTENDS HardwareComponents

MCHardware == {"actuator", "sensor", "system"}
MCSensors == {"sensor"}
MCOrder == <<"actuator", "sensor", "system">>

\* Every component on its own.
Ungrouped == [h \in MCHardware |-> "none"]

\* The actuator and the sensor in one group, the system on its own.
OneGroup == [h \in MCHardware |-> IF h = "system" THEN "none" ELSE "arm"]
=============================================================================
