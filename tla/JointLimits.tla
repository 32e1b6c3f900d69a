----------------------------- MODULE JointLimits -----------------------------
(***************************************************************************)
(* The joint limiters of joint_limits: the ranges computed from a joint's  *)
(* limits and state (joint_limits_helpers.cpp), the saturating limiter     *)
(* (joint_range_limiter.cpp) and the soft limiter (joint_soft_limiter.cpp).*)
(* A limiter clamps the commanded position, velocity, effort and           *)
(* acceleration of one joint and remembers what it let through.            *)
(*                                                                         *)
(* Numbers are integers, the control period is the unit of time, and       *)
(* comparisons with "not a number" are false, as they are for doubles.     *)
(***************************************************************************)
EXTENDS Integers

CONSTANTS NaN,                        \* not a number
          NoValue,                    \* std::nullopt
          Infinity,                   \* larger than every other number
          PositionBoundsTolerance,    \* how far out of its limits a joint may still be moved
          OutOfBoundsTolerance,       \* ... and how far it may be without an exception
          SoftLimitReachVelocity      \* the speed allowed outside the soft limits

ASSUME TolerancesAssumption ==
    /\ Infinity \in Nat
    /\ PositionBoundsTolerance \in Nat
    /\ OutOfBoundsTolerance \in Nat
    /\ PositionBoundsTolerance <= OutOfBoundsTolerance
    /\ SoftLimitReachVelocity \in Nat

ASSUME NoNumberAssumption == NaN \notin Int /\ NoValue \notin Int /\ NaN # NoValue

Kinds == {"position", "velocity", "effort", "acceleration"}
NoData == [k \in Kinds |-> NoValue]

-----------------------------------------------------------------------------
(* Double arithmetic: a result from NaN is NaN, and std::min, std::max and *)
(* std::clamp keep their first argument when a comparison is false.        *)

Less(a, b) == NaN \notin {a, b} /\ a < b
Plus(a, b) == IF NaN \in {a, b} THEN NaN ELSE a + b
Minus(a, b) == IF NaN \in {a, b} THEN NaN ELSE a - b
Times(a, b) == IF NaN \in {a, b} THEN NaN ELSE a * b
AbsoluteOf(a) == IF Less(a, 0) THEN -a ELSE a
Smaller(a, b) == IF Less(b, a) THEN b ELSE a
Larger(a, b) == IF Less(a, b) THEN b ELSE a
Clamp(v, range) == IF Less(v, range[1]) THEN range[1]
                   ELSE IF Less(range[2], v) THEN range[2] ELSE v
IsFinite(a) == a \notin {NaN, NoValue, Infinity, -Infinity}

Unlimited == <<-Infinity, Infinity>>
Symmetric(m) == <<-m, m>>

\* Mutant: the bounds stay as they are.
AsGiven(range) == range

\* check_and_swap_limits
InOrder(range) == IF Less(range[2], range[1]) THEN <<range[2], range[1]>> ELSE range

-----------------------------------------------------------------------------
(* The ranges of joint_limits_helpers.cpp.  "limits.has" is the set of the *)
(* limits the joint has.                                                   *)

\* verify_actual_position_within_limits throws
PositionThrows(limits, actual) ==
    /\ "position" \in limits.has
    /\ actual.position # NoValue
    /\ \/ Less(limits.max_position + OutOfBoundsTolerance, actual.position)
       \/ Less(actual.position, limits.min_position - OutOfBoundsTolerance)

\* The step is taken from the last command and only without one from the joint.
compute_position_limits(limits, actual, memory) ==
    LET speed == IF actual.velocity = NoValue THEN 0 ELSE AbsoluteOf(actual.velocity)
        step == IF "acceleration" \in limits.has
                THEN Smaller(limits.max_velocity, Plus(speed, limits.max_acceleration))
                ELSE limits.max_velocity
        reference == IF memory.position # NoValue THEN memory.position ELSE actual.position
        lower == Larger(Smaller(Minus(reference, step), limits.max_position), limits.min_position)
        upper == Smaller(Larger(Plus(reference, step), lower), limits.max_position)
    IN  InOrder(IF "velocity" \in limits.has /\ reference # NoValue
                THEN <<lower, upper>> ELSE <<limits.min_position, limits.max_position>>)

\* A joint out of its limits may not be moved on, nor moved at all far outside.
StopsOutside(limits, position, desired) ==
    LET max == limits.max_position
        min == limits.min_position
    IN  \/ Less(max, position) /\ Less(position, max + PositionBoundsTolerance) /\ desired >= 0
        \/ Less(position, min) /\ Less(min - PositionBoundsTolerance, position) /\ desired <= 0
        \/ Less(max + PositionBoundsTolerance, position)
        \/ Less(position, min - PositionBoundsTolerance)

\* Mutant: the position limits are not looked at.
VelocityLimitsAlone(limits, actual, desired, memory) == Symmetric(limits.max_velocity)

compute_velocity_limits(limits, actual, desired, memory) ==
    LET position == actual.position
        placed == "position" \in limits.has /\ position # NoValue
        reach == <<Larger(Minus(limits.min_position, position), -limits.max_velocity),
                   Smaller(Minus(limits.max_position, position), limits.max_velocity)>>
        range == IF ~placed THEN Symmetric(limits.max_velocity)
                 ELSE IF StopsOutside(limits, position, desired) THEN <<0, 0>> ELSE reach
    IN  IF "velocity" \notin limits.has THEN Unlimited
        ELSE InOrder(IF "acceleration" \in limits.has /\ memory.velocity # NoValue
                     THEN <<Larger(Minus(memory.velocity, limits.max_acceleration), range[1]),
                            Smaller(Plus(memory.velocity, limits.max_acceleration), range[2])>>
                     ELSE range)

\* No effort further out of the position limits, none that speeds up too fast a joint.
compute_effort_limits(limits, actual) ==
    LET known == "position" \in limits.has /\ NoValue \notin {actual.position, actual.velocity}
        speed == "velocity" \in limits.has /\ actual.velocity # NoValue
        atMin == known /\ ~Less(limits.min_position, actual.position)
                       /\ ~Less(0, actual.velocity) /\ NaN \notin {actual.position, actual.velocity}
        atMax == known /\ ~atMin /\ ~Less(actual.position, limits.max_position)
                       /\ ~Less(actual.velocity, 0) /\ NaN \notin {actual.position, actual.velocity}
        tooLow == speed /\ Less(actual.velocity, -limits.max_velocity)
        tooHigh == speed /\ Less(limits.max_velocity, actual.velocity)
    IN  IF "effort" \notin limits.has THEN Unlimited
        ELSE <<IF atMin \/ tooLow THEN 0 ELSE -limits.max_effort,
               IF atMax \/ tooHigh THEN 0 ELSE limits.max_effort>>

compute_acceleration_limits(limits, actual, desired) ==
    LET brakes == /\ actual.velocity # NoValue
                  /\ \/ desired < 0 /\ Less(0, actual.velocity)
                     \/ desired > 0 /\ Less(actual.velocity, 0)
    IN  IF "deceleration" \in limits.has /\ brakes THEN Symmetric(limits.max_deceleration)
        ELSE IF "acceleration" \in limits.has THEN Symmetric(limits.max_acceleration)
        ELSE Unlimited

-----------------------------------------------------------------------------
(* The limiters.  The result is the clamped command, whether it differs    *)
(* from the desired one, what the limiter remembers, whether it threw, and *)
(* the ranges it clamped to.                                               *)

Given(v) == v \notin {NoValue, NaN}
HasData(data) == \E k \in Kinds : data[k] # NoValue

\* An empty memory starts from where the joint is.
FirstMemory(memory, actual, desired) ==
    IF HasData(memory) THEN memory
    ELSE [k \in Kinds |-> IF desired[k] = NoValue THEN NoValue
                          ELSE IF actual[k] # NoValue THEN actual[k]
                          ELSE IF desired[k] # NaN THEN desired[k] ELSE NoValue]

\* Mutant: the limiter goes on from where it started.
keep_prev_command(limited, memory) == memory

update_prev_command(limited, memory) ==
    [k \in Kinds |-> IF Given(limited[k]) THEN limited[k] ELSE memory[k]]

Limited(desired, memory, ranges, throws) ==
    LET limited == [k \in Kinds |-> IF Given(desired[k]) THEN Clamp(desired[k], ranges[k])
                                    ELSE desired[k]]
    IN  [command |-> IF throws THEN desired ELSE limited,
         enforced |-> limited # desired,
         memory |-> IF throws THEN memory ELSE update_prev_command(limited, memory),
         throws |-> throws,
         ranges |-> ranges]

\* JointSaturationLimiter<JointControlInterfacesData>::on_enforce
RangeLimiter(limits, actual, desired, memory) ==
    LET first == FirstMemory(memory, actual, desired)
        ranges == [k \in Kinds |->
                     CASE ~Given(desired[k]) -> Unlimited
                       [] k = "position" /\ Given(desired[k]) ->
                            compute_position_limits(limits, actual, first)
                       [] k = "velocity" /\ Given(desired[k]) ->
                            compute_velocity_limits(limits, actual, desired[k], first)
                       [] k = "effort" /\ Given(desired[k]) -> compute_effort_limits(limits, actual)
                       [] k = "acceleration" /\ Given(desired[k]) ->
                            compute_acceleration_limits(limits, actual, desired[k])]
    IN  Limited(desired, first, ranges,
                Given(desired.position) /\ PositionThrows(limits, actual))

-----------------------------------------------------------------------------
(* The soft limiter bends the velocity near the soft limits and derives    *)
(* the ranges of position and effort from that velocity.                   *)

has_soft_position_limits(soft) ==
    IsFinite(soft.min_position) /\ IsFinite(soft.max_position)
    /\ soft.max_position > soft.min_position

has_soft_limits(soft) ==
    has_soft_position_limits(soft) /\ IsFinite(soft.k_position) /\ soft.k_position # 0

\* copysign: the products below are never positive zeros.
WithSignOf(v, sign) == IF Less(0, sign) THEN v ELSE -v

SoftVelocity(limits, soft, actual, memory) ==
    LET hard == Symmetric(limits.max_velocity)
        last == IF IsFinite(memory.position) THEN memory.position
                ELSE IF actual.position # NoValue THEN actual.position ELSE Infinity
        place == IF actual.position # NoValue THEN actual.position ELSE last
        bent == <<Clamp(-soft.k_position * (last - soft.min_position), hard),
                  Clamp(-soft.k_position * (last - soft.max_position), hard)>>
        farOut == \/ Less(place, limits.min_position - PositionBoundsTolerance)
                  \/ Less(limits.max_position + PositionBoundsTolerance, place)
        out == Less(place, soft.min_position) \/ Less(soft.max_position, place)
    IN  IF "velocity" \notin limits.has THEN Unlimited
        ELSE IF ~("position" \in limits.has /\ has_soft_limits(soft) /\ IsFinite(last)) THEN hard
        ELSE IF IsFinite(place) /\ farOut THEN <<0, 0>>
        ELSE IF out THEN <<WithSignOf(SoftLimitReachVelocity, bent[1]),
                           WithSignOf(SoftLimitReachVelocity, bent[2])>>
        ELSE bent

SoftPosition(limits, soft, actual, memory, velocity) ==
    LET last == IF IsFinite(memory.position) THEN memory.position ELSE actual.position
        range == IF has_soft_position_limits(soft) THEN <<soft.min_position, soft.max_position>>
                 ELSE Unlimited
        low == Clamp(last + velocity[1], range)
        bent == IF "velocity" \in limits.has /\ IsFinite(last)
                THEN <<low, Clamp(last + velocity[2], <<low, range[2]>>)>> ELSE range
        hard == compute_position_limits(limits, actual, memory)
        both == <<Larger(bent[1], hard[1]), Smaller(bent[2], hard[2])>>
    IN  IF Less(both[2], both[1]) THEN bent ELSE both

SoftCommandedVelocity(limits, actual, desired, memory, velocity) ==
    LET near == IF {"velocity", "acceleration"} \subseteq limits.has /\ actual.velocity # NoValue
                THEN <<Larger(Minus(actual.velocity, limits.max_acceleration), velocity[1]),
                       Smaller(Plus(actual.velocity, limits.max_acceleration), velocity[2])>>
                ELSE velocity
        hard == compute_velocity_limits(limits, actual, desired, memory)
    IN  <<Larger(near[1], hard[1]), Smaller(near[2], hard[2])>>

SoftEffort(limits, soft, actual, velocity) ==
    LET hard == compute_effort_limits(limits, actual)
        bent(v) == Clamp(Times(-soft.k_velocity, Minus(actual.velocity, v)),
                         Symmetric(limits.max_effort))
    IN  IF "effort" \in limits.has /\ IsFinite(soft.k_velocity) /\ actual.velocity # NoValue
        THEN <<Larger(bent(velocity[1]), hard[1]), Smaller(bent(velocity[2]), hard[2])>>
        ELSE hard

\* JointSoftLimiter::on_enforce
SoftLimiter(limits, soft, actual, desired, memory) ==
    LET first == FirstMemory(memory, actual, desired)
        velocity == SoftVelocity(limits, soft, actual, first)
        commanded == IF Given(desired.velocity)
                     THEN SoftCommandedVelocity(limits, actual, desired.velocity, first, velocity)
                     ELSE velocity
        ranges == [k \in Kinds |->
                     CASE ~Given(desired[k]) -> Unlimited
                       [] k = "position" /\ Given(desired[k]) ->
                            SoftPosition(limits, soft, actual, first, velocity)
                       [] k = "velocity" /\ Given(desired[k]) -> commanded
                       [] k = "effort" /\ Given(desired[k]) ->
                            SoftEffort(limits, soft, actual, commanded)
                       [] k = "acceleration" /\ Given(desired[k]) ->
                            compute_acceleration_limits(limits, actual, desired[k])]
    IN  Limited(desired, first, ranges,
                Given(desired.position) /\ PositionThrows(limits, actual))
=============================================================================
