-------------------------- MODULE TrajectoryLimiter --------------------------
(***************************************************************************)
(* The saturating limiter of trajectory points, for controllers of several *)
(* joints (joint_saturation_limiter.cpp): it clamps the position, velocity *)
(* and acceleration of each joint, and brakes all joints when one of them  *)
(* could not stop within its position limits.                              *)
(*                                                                         *)
(* Numbers are integers and the period is the unit of time.  A point is a  *)
(* record of functions from the joints, NotGiven where the message has no  *)
(* entry for each joint.                                                   *)
(***************************************************************************)
EXTENDS Integers

CONSTANT NotGiven

Magnitude(a) == IF a < 0 THEN -a ELSE a
Copysign(magnitude, sign) == IF sign < 0 THEN -magnitude ELSE magnitude
Least(a, b) == IF a < b THEN a ELSE b
Within(limits, position) ==
    IF position < limits.min_position THEN limits.min_position
    ELSE IF position > limits.max_position THEN limits.max_position ELSE position

ValueOr0(values, j) == IF values = NotGiven THEN 0 ELSE values[j]

-----------------------------------------------------------------------------
(* One joint: "now" is where it is and how fast, "want" what is desired.   *)

LimitPosition(limits, now, want) ==
    LET position == IF want.byPosition /\ "position" \in limits.has
                    THEN Within(limits, want.position) ELSE want.position
    IN  [want EXCEPT !.position = position,
                     !.enforced = position # want.position,
                     !.velocity = IF want.byPosition /\ @ = 0 THEN position - now.position ELSE @]

\* A velocity of 0 counts as not given, without a position it leads to position 0.
LimitVelocity(limits, now, want) ==
    LET velocity == IF want.velocity = 0 THEN want.position - now.position ELSE want.velocity
        limited == Copysign(limits.max_velocity, velocity)
    IN  IF "velocity" \notin limits.has THEN want
        ELSE IF Magnitude(velocity) <= limits.max_velocity THEN [want EXCEPT !.velocity = velocity]
        ELSE [want EXCEPT !.velocity = limited,
                          !.position = IF want.byPosition THEN now.position + limited ELSE @,
                          !.acceleration = limited - now.velocity,
                          !.enforced = TRUE]

\* A deceleration without a limit of its own has that of the acceleration.
AccelerationBound(limits, now, acceleration) ==
    LET slows == acceleration * now.velocity < 0
    IN  IF slows /\ "deceleration" \in limits.has THEN limits.max_deceleration
        ELSE IF "acceleration" \in limits.has THEN limits.max_acceleration
        ELSE Magnitude(acceleration)

\* The position a constant acceleration leads to.
PositionAfter(now, acceleration) == now.position + now.velocity + acceleration \div 2

LimitAcceleration(limits, now, want) ==
    LET acceleration == IF want.acceleration = 0 THEN want.velocity - now.velocity
                        ELSE want.acceleration
        bound == AccelerationBound(limits, now, acceleration)
        limited == Copysign(bound, acceleration)
    IN  IF {"acceleration", "deceleration"} \cap limits.has = {} THEN want
        ELSE IF Magnitude(acceleration) <= bound THEN [want EXCEPT !.acceleration = acceleration]
        ELSE [want EXCEPT !.acceleration = limited,
                          !.velocity = now.velocity + limited,
                          !.position = IF want.byPosition THEN PositionAfter(now, limited) ELSE @,
                          !.enforced = TRUE]

\* With a velocity alone the next position is looked at here.
PlanAhead(limits, now, want) ==
    LET expected == now.position + want.velocity
        position == Within(limits, expected)
    IN  IF want.byPosition \/ "position" \notin limits.has \/ position = expected THEN want
        ELSE [want EXCEPT !.velocity = position - now.position, !.enforced = TRUE]

Stopping(limits, velocity) ==
    IF "deceleration" \in limits.has THEN limits.max_deceleration
    ELSE IF "acceleration" \in limits.has THEN limits.max_acceleration
    ELSE Magnitude(velocity)

\* The distance to stop is v * v / (2 * stopping); the divisor is multiplied out.
StopsTooLate(limits, now, v) ==
    LET twice == 2 * Stopping(limits, v)
    IN  \/ v < 0 /\ (now.position - limits.min_position) * twice < v * v
        \/ v > 0 /\ (limits.max_position - now.position) * twice < v * v

\* Mutant: what the joint moves while it does not slow down yet is not looked at.
StoppingDistanceOnly(limits, now, want) ==
    "position" \in limits.has /\ StopsTooLate(limits, now, want.velocity)

\* v * |v| / stopping is the motion at the unchanged speed; it has the sign of v, so that
\* the second condition is never true at the lower limit.
MustBrake(limits, now, want) ==
    LET v == want.velocity
        stopping == Stopping(limits, v)
    IN  /\ "position" \in limits.has
        /\ \/ StopsTooLate(limits, now, v)
           \/ v < 0 /\ (now.position - limits.min_position) * stopping + v * v < 0
           \/ v > 0 /\ (limits.max_position - now.position) * stopping < v * v

Braking(limits, now) ==
    Copysign(Least(Magnitude(now.velocity), Stopping(limits, now.velocity)), -now.velocity)

Brake(limits, now, want) ==
    LET braking == Braking(limits, now)
    IN  [want EXCEPT !.acceleration = braking, !.velocity = now.velocity + braking,
                     !.position = PositionAfter(now, braking), !.enforced = TRUE]

-----------------------------------------------------------------------------
(* All joints.  Nothing is done without a position of the joints, or with  *)
(* neither a desired position nor a desired velocity.                      *)

on_enforce(limits, current, desired) ==
    LET joints == DOMAIN limits
        Now(j) == [position |-> current.position[j], velocity |-> ValueOr0(current.velocity, j)]
        Want(j) == [position |-> ValueOr0(desired.position, j),
                    velocity |-> ValueOr0(desired.velocity, j),
                    acceleration |-> ValueOr0(desired.acceleration, j),
                    byPosition |-> desired.position # NotGiven,
                    enforced |-> FALSE]
        Next1(j) == LimitVelocity(limits[j], Now(j), LimitPosition(limits[j], Now(j), Want(j)))
        Next2(j) == LimitAcceleration(limits[j], Now(j), Next1(j))
        planned == [j \in joints |-> PlanAhead(limits[j], Now(j), Next2(j))]
        brakes == \E j \in joints : MustBrake(limits[j], Now(j), planned[j])
        limited == [j \in joints |-> IF brakes THEN Brake(limits[j], Now(j), planned[j])
                                     ELSE planned[j]]
        Out(values, k) == IF values = NotGiven THEN NotGiven
                          ELSE [j \in joints |-> limited[j][k]]
    IN  IF NotGiven = current.position \/ {desired.position, desired.velocity} = {NotGiven}
        THEN [point |-> desired, enforced |-> FALSE]
        ELSE [point |-> [position |-> Out(desired.position, "position"),
                         velocity |-> Out(desired.velocity, "velocity"),
                         acceleration |-> Out(desired.acceleration, "acceleration")],
              enforced |-> \E j \in joints : limited[j].enforced]
=============================================================================
