----------------------------- MODULE MCCommandPath -----------------------------
(* Joints of few positions, with hard limits, soft limits or a limited       *)
(* acceleration, and controllers in the loop or with a thread of their own.  *)
EXTENDS CommandPath

Near ==
    [has |-> {"position", "velocity"}, min_position |-> -1, max_position |-> 1,
     max_velocity |-> 1, max_acceleration |-> 1, max_effort |-> 1, max_deceleration |-> 1]
Wide == [Near EXCEPT !.min_position = -2, !.max_position = 2, !.max_velocity = 2]
Accelerating == [Wide EXCEPT !.has = @ \cup {"acceleration"}]
Soft == [min_position |-> -1, max_position |-> 1, k_position |-> 1, k_velocity |-> 1]

BothWays == [k \in Commanded |-> {-2, 3}]
OneWay == [k \in Commanded |-> IF k = "position" THEN {3} ELSE {-1}]

Setup(limits, soft, targets, async, asap) ==
    [limits |-> limits, soft |-> soft, targets |-> targets, async |-> async, asap |-> asap]

MCSetups ==
    { Setup(l, NoValue, BothWays, {}, asap) : l \in {Wide, Accelerating}, asap \in BOOLEAN }
    \cup { Setup(l, s, OneWay, {}, TRUE) : l \in {Wide, Accelerating}, s \in {Soft, NoValue} }
    \cup { Setup(Near, NoValue, BothWays, {k}, TRUE) : k \in Commanded }
    \cup { Setup(Near, NoValue, OneWay, {"velocity"}, FALSE) }
=============================================================================
