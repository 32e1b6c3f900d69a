-------------------------- MODULE CommandPathProofs --------------------------
(***************************************************************************)
(* Proofs about CommandPath and the limiters it takes from JointLimits,    *)
(* for any limits and soft limits of a joint and any controllers, in the   *)
(* loop or with threads of their own: the ranges a limiter computes, what  *)
(* it therefore lets through, and where a checked command can get to.      *)
(***************************************************************************)
EXTENDS CommandPath, TLAPS

-----------------------------------------------------------------------------
(* The ranges.                                                             *)

\* What a limiter remembers of an interface, and what is known of a command.
Known == Int \cup {NoValue}
Values == Int \cup {NoValue, NaN}
Ranges == Int \X Int

\* The joint has a place and a velocity, and the limiter remembers numbers.
IsPlaced(state) == state.position \in Int /\ state.velocity \in Int
IsMemory(data) == data.position \in Known /\ data.velocity \in Known

\* Positions and velocities.
Motions ==
    { data \in [Kinds -> Values] : data.effort = NoValue /\ data.acceleration = NoValue }

\* A range of positions in order, within the limits.
Within(range, limits) ==
    /\ limits.min_position <= range[1]
    /\ range[1] <= range[2]
    /\ range[2] <= limits.max_position

\* The range around a number, cut to the limits.
LEMMA CutRange ==
    ASSUME NEW min \in Int, NEW max \in Int, min <= max, NEW low \in Int, NEW high \in Int,
           NEW lower, lower = Larger(Smaller(low, max), min),
           NEW upper, upper = Smaller(Larger(high, lower), max)
    PROVE  /\ lower \in Int /\ upper \in Int
           /\ min <= lower /\ lower <= upper /\ upper <= max
<1>1. Smaller(low, max) \in Int /\ Smaller(low, max) <= max
  BY NoNumberAssumption DEF Less, Smaller
<1>2. lower \in Int /\ min <= lower /\ lower <= max
  BY <1>1, NoNumberAssumption DEF Less, Larger
<1>3. Larger(high, lower) \in Int /\ lower <= Larger(high, lower)
  BY <1>2, NoNumberAssumption DEF Less, Larger
<1> QED BY <1>2, <1>3, NoNumberAssumption DEF Less, Smaller

\* The limits of the joint bound the range of positions, wherever it is.
LEMMA HardPositions ==
    ASSUME NEW s, IsSetup(s),
           NEW actual_, IsPlaced(actual_), NEW memory_, IsMemory(memory_)
    PROVE  /\ compute_position_limits(s.limits, actual_, memory_) \in Ranges
           /\ Within(compute_position_limits(s.limits, actual_, memory_), s.limits)
<1> DEFINE max == s.limits.max_position
           min == s.limits.min_position
           speed == AbsoluteOf(actual_.velocity)
           step == IF "acceleration" \in s.limits.has
                   THEN Smaller(s.limits.max_velocity, Plus(speed, s.limits.max_acceleration))
                   ELSE s.limits.max_velocity
           reference == IF memory_.position # NoValue THEN memory_.position ELSE actual_.position
           lower == Larger(Smaller(Minus(reference, step), max), min)
           upper == Smaller(Larger(Plus(reference, step), lower), max)
<1>1. /\ min \in Int /\ max \in Int /\ min <= max
      /\ s.limits.max_velocity \in Int /\ s.limits.max_acceleration \in Int
  BY CommandPathAssumption DEF IsSetup
<1>2. compute_position_limits(s.limits, actual_, memory_)
          \in {InOrder(<<lower, upper>>), InOrder(<<min, max>>)}
  <2>1. actual_.velocity # NoValue
    BY NoNumberAssumption DEF IsPlaced
  <2> QED BY <2>1 DEF compute_position_limits
<1>3. speed \in Int
  BY NoNumberAssumption DEF Less, AbsoluteOf, IsPlaced
<1>4. step \in Int
  <2> HIDE DEF speed
  <2>1. Plus(speed, s.limits.max_acceleration) \in Int
    BY <1>1, <1>3, NoNumberAssumption DEF Plus
  <2> QED BY <2>1, <1>1 DEF Smaller
<1>5. reference \in Int
  BY DEF Known, IsPlaced, IsMemory
<1> HIDE DEF speed, step, reference, min, max
<1>6. Minus(reference, step) \in Int /\ Plus(reference, step) \in Int
  BY <1>4, <1>5, NoNumberAssumption DEF Minus, Plus
<1>7. /\ lower \in Int /\ upper \in Int
      /\ min <= lower /\ lower <= upper /\ upper <= max
  BY <1>1, <1>6, CutRange
<1> HIDE DEF lower, upper
<1>8. InOrder(<<lower, upper>>) = <<lower, upper>> /\ InOrder(<<min, max>>) = <<min, max>>
  BY <1>1, <1>7 DEF InOrder, Less
<1> QED BY <1>1, <1>2, <1>7, <1>8 DEF Within, Ranges, min, max

\* Near, between and far outside the soft limits the velocity has numbers for bounds.
LEMMA SoftVelocities ==
    ASSUME NEW s, IsSetup(s), s.soft # NoValue,
           NEW actual_, IsPlaced(actual_), NEW memory_, IsMemory(memory_)
    PROVE  SoftVelocity(s.limits, s.soft, actual_, memory_) \in Ranges
<1> DEFINE hard == Symmetric(s.limits.max_velocity)
           last == IF IsFinite(memory_.position) THEN memory_.position
                   ELSE IF actual_.position # NoValue THEN actual_.position ELSE Infinity
           bent(bound) == Clamp(-s.soft.k_position * (last - bound), hard)
           reach(v) == WithSignOf(SoftLimitReachVelocity, v)
           min == s.soft.min_position
           max == s.soft.max_position
<1>1. SoftVelocity(s.limits, s.soft, actual_, memory_)
          \in {Unlimited, hard, <<0, 0>>, <<reach(bent(min)), reach(bent(max))>>,
               <<bent(min), bent(max)>>}
  BY DEF SoftVelocity
<1>2. s.limits.max_velocity \in Int /\ s.soft.k_position \in Int /\ min \in Int /\ max \in Int
  BY CommandPathAssumption DEF IsSetup
<1>3. last \in Int
  BY TolerancesAssumption DEF Known, IsPlaced, IsMemory, IsFinite
<1> HIDE DEF last, min, max
<1>4. -s.soft.k_position * (last - min) \in Int /\ -s.soft.k_position * (last - max) \in Int
  BY <1>2, <1>3
<1>5. bent(min) \in Int /\ bent(max) \in Int
  BY <1>2, <1>4, NoNumberAssumption DEF Clamp, Less, Symmetric
<1> HIDE DEF bent
<1>6. reach(bent(min)) \in Int /\ reach(bent(max)) \in Int
  BY TolerancesAssumption DEF WithSignOf
<1> HIDE DEF reach
<1>7. Unlimited \in Ranges /\ hard \in Ranges /\ <<0, 0>> \in Ranges
  BY TolerancesAssumption, <1>2 DEF Unlimited, Symmetric, Ranges
<1> HIDE DEF hard
<1> QED BY <1>1, <1>5, <1>6, <1>7 DEF Ranges

\* The soft limits narrow the range of positions, and never widen it.
LEMMA SoftPositions ==
    ASSUME NEW s, IsSetup(s), s.soft # NoValue,
           NEW actual_, IsPlaced(actual_), NEW memory_, IsMemory(memory_),
           NEW velocity \in Ranges
    PROVE  /\ SoftPosition(s.limits, s.soft, actual_, memory_, velocity) \in Ranges
           /\ Within(SoftPosition(s.limits, s.soft, actual_, memory_, velocity), s.limits)
<1> DEFINE last == IF IsFinite(memory_.position) THEN memory_.position ELSE actual_.position
           min == s.soft.min_position
           max == s.soft.max_position
           low == Clamp(last + velocity[1], <<min, max>>)
           high == Clamp(last + velocity[2], <<low, max>>)
           hard == compute_position_limits(s.limits, actual_, memory_)
           both(bent) == <<Larger(bent[1], hard[1]), Smaller(bent[2], hard[2])>>
           cut(bent) == IF Less(both(bent)[2], both(bent)[1]) THEN bent ELSE both(bent)
<1>1. /\ min \in Int /\ max \in Int /\ min < max
      /\ s.limits.min_position \in Int /\ s.limits.max_position \in Int
      /\ s.limits.min_position <= min /\ max <= s.limits.max_position
      /\ IsFinite(min) /\ IsFinite(max)
  BY CommandPathAssumption, TolerancesAssumption, NoNumberAssumption DEF IsSetup, IsFinite
<1>2. SoftPosition(s.limits, s.soft, actual_, memory_, velocity)
          \in {cut(<<low, high>>), cut(<<min, max>>)}
  BY <1>1 DEF SoftPosition, has_soft_position_limits
<1>3. last \in Int /\ velocity[1] \in Int /\ velocity[2] \in Int
  BY DEF Known, IsPlaced, IsMemory, IsFinite, Ranges
<1> HIDE DEF last, min, max
<1>4. low \in Int /\ min <= low /\ low <= max
  BY <1>1, <1>3, NoNumberAssumption DEF Clamp, Less
<1> HIDE DEF low
<1>5. high \in Int /\ low <= high /\ high <= max
  BY <1>1, <1>3, <1>4, NoNumberAssumption DEF Clamp, Less
<1>6. hard \in Ranges /\ Within(hard, s.limits)
  BY HardPositions
<1> HIDE DEF high, hard
<1>7. ASSUME NEW a \in Int, NEW b \in Int, min <= a, a <= b, b <= max
      PROVE  cut(<<a, b>>) \in Ranges /\ Within(cut(<<a, b>>), s.limits)
  <2>1. both(<<a, b>>) = <<Larger(a, hard[1]), Smaller(b, hard[2])>>
    OBVIOUS
  <2>2. hard[1] \in Int /\ hard[2] \in Int
    BY <1>6 DEF Ranges
  <2>3. /\ Larger(a, hard[1]) \in Int /\ s.limits.min_position <= Larger(a, hard[1])
        /\ Smaller(b, hard[2]) \in Int /\ Smaller(b, hard[2]) <= s.limits.max_position
    BY <1>1, <1>7, <1>6, <2>2, NoNumberAssumption DEF Larger, Smaller, Less, Within
  <2> QED BY <1>1, <1>7, <2>1, <2>3, NoNumberAssumption DEF Less, Ranges, Within
<1> QED BY <1>1, <1>2, <1>4, <1>5, <1>7

\* From inside its limits, a velocity in the range does not take the joint out of them.
Holds(limits, position, range) ==
    /\ range[1] <= range[2]
    /\ limits.min_position <= position + range[1]
    /\ position + range[2] <= limits.max_position

\* A velocity in the range holds the joint inside, unless the range was swapped.
LEMMA HardVelocities ==
    ASSUME NEW s, IsSetup(s), NEW actual_, IsPlaced(actual_), NEW memory_, IsMemory(memory_),
           NEW desired \in Int
    PROVE  /\ compute_velocity_limits(s.limits, actual_, desired, memory_) \in Ranges
           /\ /\ "acceleration" \notin s.limits.has
              /\ s.limits.min_position <= actual_.position
              /\ actual_.position <= s.limits.max_position
              => Holds(s.limits, actual_.position,
                       compute_velocity_limits(s.limits, actual_, desired, memory_))
<1> DEFINE position == actual_.position
           min == s.limits.min_position
           max == s.limits.max_position
           speed == s.limits.max_velocity
           growth == s.limits.max_acceleration
           reach == <<Larger(Minus(min, position), -speed), Smaller(Minus(max, position), speed)>>
           range == IF StopsOutside(s.limits, position, desired) THEN <<0, 0>> ELSE reach
           near(r) == <<Larger(Minus(memory_.velocity, growth), r[1]),
                        Smaller(Plus(memory_.velocity, growth), r[2])>>
<1>1. /\ min \in Int /\ max \in Int /\ min <= max /\ speed \in Nat /\ growth \in Nat
      /\ position \in Int
  BY CommandPathAssumption DEF IsSetup, IsPlaced
<1>2. compute_velocity_limits(s.limits, actual_, desired, memory_)
          = InOrder(IF "acceleration" \in s.limits.has /\ memory_.velocity # NoValue
                    THEN near(range) ELSE range)
  <2>1. {"position", "velocity"} \subseteq s.limits.has /\ position # NoValue
    BY NoNumberAssumption DEF IsSetup, IsPlaced
  <2> QED BY <2>1 DEF compute_velocity_limits
<1>3. min <= position /\ position <= max =>
          /\ \/ range = <<0, 0>>
             \/ range = reach
          /\ Holds(s.limits, position, <<0, 0>>)
  BY <1>1 DEF Holds
<1> HIDE DEF position, min, max, speed, growth
<1>4. Minus(min, position) = min - position /\ Minus(max, position) = max - position
  BY <1>1, NoNumberAssumption DEF Minus
<1>5. /\ reach \in Ranges
      /\ min <= position /\ position <= max =>
            /\ reach[1] <= reach[2]
            /\ min <= position + reach[1] /\ position + reach[2] <= max
  <2>1. ASSUME NEW d \in Int
        PROVE  /\ Larger(d, -speed) \in Int /\ d <= Larger(d, -speed)
               /\ Smaller(d, speed) \in Int /\ Smaller(d, speed) <= d
               /\ d <= 0 => Larger(d, -speed) <= 0
               /\ d >= 0 => Smaller(d, speed) >= 0
    BY <1>1, NoNumberAssumption DEF Larger, Smaller, Less
  <2>2. /\ Larger(min - position, -speed) \in Int
        /\ min - position <= Larger(min - position, -speed)
        /\ min - position <= 0 => Larger(min - position, -speed) <= 0
    BY <1>1, <2>1
  <2>3. /\ Smaller(max - position, speed) \in Int
        /\ Smaller(max - position, speed) <= max - position
        /\ max - position >= 0 => Smaller(max - position, speed) >= 0
    BY <1>1, <2>1
  <2>4. reach = <<Larger(min - position, -speed), Smaller(max - position, speed)>>
    BY <1>4
  <2> QED BY <1>1, <2>2, <2>3, <2>4 DEF Ranges
<1> HIDE DEF reach
<1>6. range \in Ranges
  BY <1>5 DEF Ranges
<1>7. min <= position /\ position <= max => Holds(s.limits, position, range)
  BY <1>3, <1>5 DEF Holds, min, max
<1> HIDE DEF range
<1>8. CASE "acceleration" \in s.limits.has /\ memory_.velocity # NoValue
  <2>1. memory_.velocity \in Int
    BY <1>8 DEF IsMemory, Known
  <2>2. Minus(memory_.velocity, growth) \in Int /\ Plus(memory_.velocity, growth) \in Int
    BY <1>1, <2>1, NoNumberAssumption DEF Minus, Plus
  <2>3. range[1] \in Int /\ range[2] \in Int
    BY <1>6 DEF Ranges
  <2>4. near(range)[1] \in Int /\ near(range)[2] \in Int
    BY <2>2, <2>3 DEF Larger, Smaller
  <2>5. near(range) \in Ranges
    BY <2>4 DEF Ranges
  <2>6. compute_velocity_limits(s.limits, actual_, desired, memory_) = InOrder(near(range))
    BY <1>2, <1>8
  <2> HIDE DEF near
  <2>7. InOrder(near(range)) \in Ranges
    BY <2>5 DEF InOrder, Ranges
  <2> QED BY <2>6, <2>7, <1>8
<1>9. CASE ~("acceleration" \in s.limits.has /\ memory_.velocity # NoValue)
  <2>1. compute_velocity_limits(s.limits, actual_, desired, memory_) = InOrder(range)
    BY <1>2, <1>9
  <2>2. InOrder(range) \in Ranges
    BY <1>6 DEF InOrder, Ranges
  <2>3. Holds(s.limits, position, range) => InOrder(range) = range
    BY <1>6 DEF Holds, InOrder, Less, Ranges
  <2> QED BY <2>1, <2>2, <2>3, <1>7 DEF position, min, max
<1> QED BY <1>8, <1>9

\* The velocity a soft limiter is asked for has numbers for bounds.
LEMMA SoftCommandedVelocities ==
    ASSUME NEW s, IsSetup(s), NEW actual_, IsPlaced(actual_), NEW memory_, IsMemory(memory_),
           NEW desired \in Int, NEW velocity \in Ranges
    PROVE  SoftCommandedVelocity(s.limits, actual_, desired, memory_, velocity) \in Ranges
<1> DEFINE growth == s.limits.max_acceleration
           slow == Minus(actual_.velocity, growth)
           fast == Plus(actual_.velocity, growth)
           near == IF {"velocity", "acceleration"} \subseteq s.limits.has /\ actual_.velocity # NoValue
                   THEN <<Larger(slow, velocity[1]), Smaller(fast, velocity[2])>>
                   ELSE velocity
           hard == compute_velocity_limits(s.limits, actual_, desired, memory_)
<1>1. SoftCommandedVelocity(s.limits, actual_, desired, memory_, velocity)
          = <<Larger(near[1], hard[1]), Smaller(near[2], hard[2])>>
  BY DEF SoftCommandedVelocity
<1>2. slow \in Int /\ fast \in Int
  BY CommandPathAssumption, NoNumberAssumption DEF IsSetup, IsPlaced, Minus, Plus
<1> HIDE DEF slow, fast
<1>3. velocity[1] \in Int /\ velocity[2] \in Int
  BY DEF Ranges
<1>4. near[1] \in Int /\ near[2] \in Int
  BY <1>2, <1>3 DEF Larger, Smaller
<1>5. hard \in Ranges
  BY HardVelocities
<1> HIDE DEF near, hard
<1>6. hard[1] \in Int /\ hard[2] \in Int
  BY <1>5 DEF Ranges
<1> QED BY <1>1, <1>4, <1>6 DEF Larger, Smaller, Ranges

-----------------------------------------------------------------------------
(* The limiters.                                                           *)

\* What every limiter makes of its ranges: see Limited.
AreRanges(desired, ranges) == \A k \in Commanded : Given(desired[k]) => ranges[k] \in Ranges

IsClamped(result, desired, ranges, throws) ==
    /\ result.throws = throws
    /\ result.command \in Motions
    /\ IsMemory(result.memory)
    /\ ~throws => \A k \in Commanded :
                     result.command[k] = IF Given(desired[k])
                                         THEN Clamp(desired[k], ranges[k]) ELSE desired[k]
    /\ ~throws /\ ~result.enforced => result.command = desired

\* Both limiters clamp what is asked for and remember it.
LEMMA LimitedResult ==
    ASSUME NEW desired \in Motions, NEW memory_, IsMemory(memory_),
           NEW ranges, AreRanges(desired, ranges), NEW throws,
           NEW result, result = Limited(desired, memory_, ranges, throws)
    PROVE  IsClamped(result, desired, ranges, throws)
<1> DEFINE limited == [k \in Kinds |-> IF Given(desired[k]) THEN Clamp(desired[k], ranges[k])
                                       ELSE desired[k]]
<1>1. /\ result.throws = throws
      /\ result.command = IF throws THEN desired ELSE limited
      /\ result.enforced = (limited # desired)
      /\ result.memory = IF throws THEN memory_ ELSE update_prev_command(limited, memory_)
  BY DEF Limited
<1>2. \A k \in Commanded : Given(desired[k]) => Clamp(desired[k], ranges[k]) \in Int
  <2> SUFFICES ASSUME NEW k \in Commanded, Given(desired[k])
               PROVE  Clamp(desired[k], ranges[k]) \in Int
    OBVIOUS
  <2>1. desired[k] \in Int
    BY DEF Given, Motions, Values, Commanded, Kinds
  <2> QED BY <2>1 DEF AreRanges, Clamp, Ranges
<1>3. limited \in Motions
  <2>1. desired \in [Kinds -> Values] /\ ~Given(desired.effort) /\ ~Given(desired.acceleration)
    BY DEF Motions, Given
  <2>2. \A k \in Kinds : limited[k] \in Values
    BY <1>2, <2>1 DEF Kinds, Commanded, Values
  <2> QED BY <2>1, <2>2 DEF Motions, Kinds
<1>4. IsMemory(update_prev_command(limited, memory_))
  <2>1. \A k \in Commanded : update_prev_command(limited, memory_)[k] =
                                IF Given(limited[k]) THEN limited[k] ELSE memory_[k]
    BY DEF update_prev_command, Commanded, Kinds
  <2>2. \A k \in Commanded : Given(limited[k]) => limited[k] \in Int
    BY <1>3 DEF Given, Motions, Values, Commanded, Kinds
  <2> HIDE DEF limited
  <2> QED BY <2>1, <2>2 DEF IsMemory, Known, Commanded
<1>5. \A k \in Commanded : limited[k] = IF Given(desired[k])
                                        THEN Clamp(desired[k], ranges[k]) ELSE desired[k]
  BY DEF Commanded, Kinds
<1> HIDE DEF limited
<1> QED BY <1>1, <1>3, <1>4, <1>5 DEF IsClamped

\* A limiter starts from numbers.
LEMMA FirstMemoryIsMemory ==
    ASSUME NEW memory_, IsMemory(memory_), NEW actual_, IsPlaced(actual_), NEW desired
    PROVE  IsMemory(FirstMemory(memory_, actual_, desired))
<1>1. actual_.position # NoValue /\ actual_.velocity # NoValue
  BY NoNumberAssumption DEF IsPlaced
<1> QED BY <1>1 DEF FirstMemory, IsMemory, IsPlaced, Known, Kinds

\* The result comes from ranges within the limits.
RangesAreGood(limiter, desired) ==
    \E ranges, first :
        /\ limiter = Limited(desired, first, ranges,
                             Given(desired.position) /\ PositionThrows(setup.limits, actual))
        /\ IsMemory(first)
        /\ Given(desired.position) =>
              ranges.position \in Ranges /\ Within(ranges.position, setup.limits)
        /\ Given(desired.velocity) =>
              /\ ranges.velocity \in Ranges
              /\ /\ setup.soft = NoValue /\ "acceleration" \notin setup.limits.has
                 /\ Inside(actual.position)
                 => Holds(setup.limits, actual.position, ranges.velocity)

\* JointSaturationLimiter's ranges are good.
LEMMA RangeLimiterRanges ==
    ASSUME setup \in Setups, IsPlaced(actual), IsMemory(memory), NEW desired \in Motions
    PROVE  RangesAreGood(RangeLimiter(setup.limits, actual, desired, memory), desired)
<1> DEFINE first == FirstMemory(memory, actual, desired)
           ranges == [k \in Kinds |->
                     CASE ~Given(desired[k]) -> Unlimited
                       [] k = "position" /\ Given(desired[k]) ->
                            compute_position_limits(setup.limits, actual, first)
                       [] k = "velocity" /\ Given(desired[k]) ->
                            compute_velocity_limits(setup.limits, actual, desired[k], first)
                       [] k = "effort" /\ Given(desired[k]) -> compute_effort_limits(setup.limits, actual)
                       [] k = "acceleration" /\ Given(desired[k]) ->
                            compute_acceleration_limits(setup.limits, actual, desired[k])]
<1>1. RangeLimiter(setup.limits, actual, desired, memory)
          = Limited(desired, first, ranges,
                    Given(desired.position) /\ PositionThrows(setup.limits, actual))
  BY DEF RangeLimiter
<1>2. /\ Given(desired.position) =>
            ranges.position = compute_position_limits(setup.limits, actual, first)
      /\ Given(desired.velocity) =>
            ranges.velocity = compute_velocity_limits(setup.limits, actual, desired.velocity, first)
  BY DEF Kinds
<1>3. IsMemory(first) /\ IsSetup(setup)
  BY FirstMemoryIsMemory, CommandPathAssumption
<1>4. Given(desired.velocity) => desired.velocity \in Int
  BY DEF Given, Motions, Values, Kinds
<1> HIDE DEF first, ranges
<1>5. Given(desired.position) => ranges.position \in Ranges /\ Within(ranges.position, setup.limits)
  BY <1>2, <1>3, HardPositions
<1>6. Given(desired.velocity) =>
        /\ ranges.velocity \in Ranges
        /\ "acceleration" \notin setup.limits.has /\ Inside(actual.position)
           => Holds(setup.limits, actual.position, ranges.velocity)
  BY <1>2, <1>3, <1>4, HardVelocities DEF Inside
<1> QED BY <1>1, <1>3, <1>5, <1>6 DEF RangesAreGood

\* JointSoftLimiter's ranges are good.
LEMMA SoftLimiterRanges ==
    ASSUME setup \in Setups, IsPlaced(actual), IsMemory(memory), setup.soft # NoValue,
           NEW desired \in Motions
    PROVE  RangesAreGood(SoftLimiter(setup.limits, setup.soft, actual, desired, memory), desired)
<1> DEFINE first == FirstMemory(memory, actual, desired)
           velocity == SoftVelocity(setup.limits, setup.soft, actual, first)
           commanded == IF Given(desired.velocity)
                        THEN SoftCommandedVelocity(setup.limits, actual, desired.velocity, first, velocity)
                        ELSE velocity
           ranges == [k \in Kinds |->
                     CASE ~Given(desired[k]) -> Unlimited
                       [] k = "position" /\ Given(desired[k]) ->
                            SoftPosition(setup.limits, setup.soft, actual, first, velocity)
                       [] k = "velocity" /\ Given(desired[k]) -> commanded
                       [] k = "effort" /\ Given(desired[k]) ->
                            SoftEffort(setup.limits, setup.soft, actual, commanded)
                       [] k = "acceleration" /\ Given(desired[k]) ->
                            compute_acceleration_limits(setup.limits, actual, desired[k])]
<1>1. SoftLimiter(setup.limits, setup.soft, actual, desired, memory)
          = Limited(desired, first, ranges,
                    Given(desired.position) /\ PositionThrows(setup.limits, actual))
  BY DEF SoftLimiter
<1>2. /\ Given(desired.position) =>
            ranges.position = SoftPosition(setup.limits, setup.soft, actual, first, velocity)
      /\ Given(desired.velocity) => ranges.velocity = commanded
  BY DEF Kinds
<1>3. IsMemory(first) /\ IsSetup(setup)
  BY FirstMemoryIsMemory, CommandPathAssumption
<1>4. Given(desired.velocity) => desired.velocity \in Int
  BY DEF Given, Motions, Values, Kinds
<1> HIDE DEF first, ranges
<1>5. velocity \in Ranges
  BY <1>3, SoftVelocities
<1> HIDE DEF velocity
<1>6. Given(desired.position) => ranges.position \in Ranges /\ Within(ranges.position, setup.limits)
  BY <1>2, <1>3, <1>5, SoftPositions
<1>7. Given(desired.velocity) => ranges.velocity \in Ranges
  BY <1>2, <1>3, <1>4, <1>5, SoftCommandedVelocities
<1> QED BY <1>1, <1>3, <1>6, <1>7 DEF RangesAreGood

\* What a limiter lets through.
LEMMA LimiterResult ==
    ASSUME setup \in Setups, IsPlaced(actual), IsMemory(memory), NEW desired \in Motions,
           NEW result, result = Limiter(desired)
    PROVE  /\ result.throws \in BOOLEAN
           /\ result.command \in Motions
           /\ IsMemory(result.memory)
           /\ ~result.throws =>
                /\ \A k \in Commanded : Given(desired[k]) <=> Given(result.command[k])
                /\ Given(result.command.position) => Inside(result.command.position)
                /\ /\ Given(result.command.velocity)
                   /\ setup.soft = NoValue /\ "acceleration" \notin setup.limits.has
                   /\ Inside(actual.position)
                   => Inside(actual.position + result.command.velocity)
                /\ ~result.enforced => result.command = desired
<1>1. RangesAreGood(result, desired)
  BY RangeLimiterRanges, SoftLimiterRanges DEF Limiter
<1>2. PICK ranges, first :
        /\ result = Limited(desired, first, ranges,
                            Given(desired.position) /\ PositionThrows(setup.limits, actual))
        /\ IsMemory(first)
        /\ Given(desired.position) =>
              ranges.position \in Ranges /\ Within(ranges.position, setup.limits)
        /\ Given(desired.velocity) =>
              /\ ranges.velocity \in Ranges
              /\ /\ setup.soft = NoValue /\ "acceleration" \notin setup.limits.has
                 /\ Inside(actual.position)
                 => Holds(setup.limits, actual.position, ranges.velocity)
  BY <1>1 DEF RangesAreGood
<1> DEFINE throws == Given(desired.position) /\ PositionThrows(setup.limits, actual)
<1>3. throws \in BOOLEAN
  OBVIOUS
<1>4. AreRanges(desired, ranges)
  BY <1>2 DEF AreRanges, Commanded
<1> HIDE DEF throws
<1>5. IsClamped(result, desired, ranges, throws)
  <2>1. result = Limited(desired, first, ranges, throws) /\ IsMemory(first)
    BY <1>2 DEF throws
  <2> QED BY <2>1, <1>4, LimitedResult
<1>6. \A k \in Commanded : Given(desired[k]) =>
        /\ desired[k] \in Int
        /\ Clamp(desired[k], ranges[k]) \in Int
        /\ ranges[k][1] <= ranges[k][2] =>
             /\ ranges[k][1] <= Clamp(desired[k], ranges[k])
             /\ Clamp(desired[k], ranges[k]) <= ranges[k][2]
  <2> SUFFICES ASSUME NEW k \in Commanded, Given(desired[k])
               PROVE  /\ desired[k] \in Int
                      /\ Clamp(desired[k], ranges[k]) \in Int
                      /\ ranges[k][1] <= ranges[k][2] =>
                           /\ ranges[k][1] <= Clamp(desired[k], ranges[k])
                           /\ Clamp(desired[k], ranges[k]) <= ranges[k][2]
    OBVIOUS
  <2>1. desired[k] \in Int
    BY DEF Given, Motions, Values, Commanded, Kinds
  <2>2. ranges[k][1] \in Int /\ ranges[k][2] \in Int
    BY <1>4 DEF AreRanges, Ranges
  <2> QED BY <2>1, <2>2, NoNumberAssumption DEF Clamp, Less
<1>7. ASSUME ~throws
      PROVE  /\ \A k \in Commanded : Given(desired[k]) <=> Given(result.command[k])
             /\ \A k \in Commanded : Given(desired[k]) =>
                    result.command[k] = Clamp(desired[k], ranges[k])
  <2> SUFFICES ASSUME NEW k \in Commanded
               PROVE  /\ Given(desired[k]) <=> Given(result.command[k])
                      /\ Given(desired[k]) => result.command[k] = Clamp(desired[k], ranges[k])
    OBVIOUS
  <2>1. CASE Given(desired[k])
    BY <2>1, <1>5, <1>6, <1>7, NoNumberAssumption DEF Given, IsClamped
  <2>2. CASE ~Given(desired[k])
    BY <2>2, <1>5, <1>7 DEF IsClamped
  <2> QED BY <2>1, <2>2
<1>8. ASSUME ~throws, Given(result.command.position)
      PROVE  Inside(result.command.position)
  <2>1. Given(desired.position) /\ result.command.position = Clamp(desired.position, ranges.position)
    BY <1>7, <1>8 DEF Commanded
  <2>2. /\ ranges.position[1] \in Int /\ ranges.position[2] \in Int
        /\ setup.limits.min_position \in Int /\ setup.limits.max_position \in Int
    BY <2>1, <1>2, CommandPathAssumption DEF Ranges, IsSetup
  <2> QED BY <2>1, <2>2, <1>2, <1>6 DEF Commanded, Inside, Within
<1>9. ASSUME ~throws, Given(result.command.velocity),
             setup.soft = NoValue, "acceleration" \notin setup.limits.has,
             Inside(actual.position)
      PROVE  Inside(actual.position + result.command.velocity)
  <2>1. Given(desired.velocity) /\ result.command.velocity = Clamp(desired.velocity, ranges.velocity)
    BY <1>7, <1>9 DEF Commanded
  <2>2. /\ ranges.velocity[1] \in Int /\ ranges.velocity[2] \in Int
        /\ setup.limits.min_position \in Int /\ setup.limits.max_position \in Int
        /\ actual.position \in Int
    BY <2>1, <1>2, CommandPathAssumption DEF Ranges, IsSetup, IsPlaced
  <2>3. Holds(setup.limits, actual.position, ranges.velocity)
    BY <2>1, <1>2, <1>9
  <2> QED BY <2>1, <2>2, <2>3, <1>6 DEF Commanded, Inside, Holds
<1> QED BY <1>3, <1>5, <1>7, <1>8, <1>9 DEF IsClamped

-----------------------------------------------------------------------------
(* The inductive invariant.  A position that was checked stays in the      *)
(* limits wherever it waits to be written: with a thread of its own, that  *)
(* is to set it, or with the loop, that is to store it.  A velocity is     *)
(* good only as long as the joint has not moved.                           *)

TaskFields == {"stage", "wish", "value", "tries", "fresh"}

NumbersOK ==
    /\ setup \in Setups
    /\ command \in [Commanded -> Int \cup {NaN}]
    /\ actual \in Motions /\ IsPlaced(actual)
    /\ IsMemory(memory)
    /\ collected \in Motions
    /\ at \in Commanded
    /\ DOMAIN task = Commanded
    /\ \A k \in Commanded :
         /\ DOMAIN task[k] = TaskFields
         /\ task[k].stage # "idle" => task[k].wish \in Int
         /\ task[k].stage = "set" => task[k].value \in Int

MayBe(position) == Given(position) => Inside(position)

PositionsChecked ==
    /\ MayBe(command.position)
    /\ task.position.stage = "set" => Inside(task.position.value)
    /\ pc = "store" => MayBe(collected.position)

Keeps(velocity) == Given(velocity) /\ Inside(actual.position + velocity)

NeedNotBrake ==
    setup.soft = NoValue /\ "acceleration" \notin setup.limits.has /\ Inside(actual.position)

VelocitiesChecked ==
    NeedNotBrake =>
        /\ "velocity" \in fresh => Keeps(command.velocity)
        /\ task.velocity.stage = "set" /\ task.velocity.fresh => Keeps(task.velocity.value)
        /\ pc = "store" /\ Given(collected.velocity) => Keeps(collected.velocity)

PathIInv == NumbersOK /\ PositionsChecked /\ VelocitiesChecked

\* What the limiter of an interface makes of a number.
IsChecked(k, result) ==
    /\ IsMemory(result.memory)
    /\ ~result.throws =>
         /\ result.command[k] \in Int
         /\ k = "position" => Inside(result.command[k])
         /\ k = "velocity" /\ NeedNotBrake => Keeps(result.command[k])

\* The limiter bound to an interface lets only checked numbers through.
LEMMA SetLimitedResult ==
    ASSUME NumbersOK, NEW k \in Commanded, NEW value \in Int,
           NEW result, result = SetLimited(k, value)
    PROVE  IsChecked(k, result)
<1> DEFINE desired == [NoData EXCEPT ![k] = value]
<1>1. desired \in Motions /\ desired[k] = value
  BY DEF Motions, NoData, Kinds, Values, Commanded
<1>2. Given(desired[k])
  BY <1>1, NoNumberAssumption DEF Given
<1>3. result = Limiter(desired)
  BY DEF SetLimited
<1> HIDE DEF desired
<1>4. setup \in Setups /\ IsPlaced(actual) /\ IsMemory(memory)
  BY DEF NumbersOK
<1>5. /\ result.command \in Motions
      /\ IsMemory(result.memory)
      /\ ~result.throws =>
           /\ Given(result.command[k])
           /\ Given(result.command.position) => Inside(result.command.position)
           /\ Given(result.command.velocity) /\ NeedNotBrake
              => Inside(actual.position + result.command.velocity)
  BY <1>1, <1>2, <1>3, <1>4, LimiterResult DEF NeedNotBrake
<1>6. ~result.throws => result.command[k] \in Int
  BY <1>5 DEF Motions, Values, Given, Commanded, Kinds
<1> QED BY <1>5, <1>6 DEF IsChecked, Keeps, Commanded

\* Nothing is commanded at first.
LEMMA PathInitially == CommandPathInit => PathIInv
<1> SUFFICES ASSUME CommandPathInit PROVE PathIInv
  OBVIOUS
<1>1. NoData \in Motions /\ actual \in Motions /\ IsPlaced(actual) /\ IsMemory(NoData)
  <2>1. NoData \in Motions /\ IsMemory(NoData)
    BY DEF NoData, Motions, Values, Kinds, IsMemory, Known
  <2>2. actual = [NoData EXCEPT !.position = 0, !.velocity = 0]
    BY DEF CommandPathInit
  <2>3. actual = [k \in Kinds |-> IF k \in Commanded THEN 0 ELSE NoValue]
    BY <2>2 DEF NoData, Kinds, Commanded
  <2>4. actual \in Motions /\ IsPlaced(actual)
    BY <2>3 DEF Motions, Values, Kinds, Commanded, IsPlaced
  <2> QED BY <2>1, <2>4
<1>2. NumbersOK
  BY <1>1 DEF CommandPathInit, NumbersOK, NoTask, TaskFields, Commanded
<1>3. PositionsChecked
  BY DEF CommandPathInit, PositionsChecked, MayBe, Given, NoTask, Commanded
<1>4. VelocitiesChecked
  BY DEF CommandPathInit, VelocitiesChecked, NoTask, Commanded
<1> QED BY <1>2, <1>3, <1>4 DEF PathIInv

\* Every step keeps numbers numbers.
LEMMA NumbersStep == ASSUME NumbersOK, CommandPathNext PROVE NumbersOK'
<1> USE DEF NumbersOK
<1>1. ASSUME NEW k \in Commanded, UpdateController(k) PROVE NumbersOK'
  <2>1. PICK value \in setup.targets[k] :
            LET checked == SetLimited(k, value) IN
            /\ memory' = checked.memory
            /\ IF checked.throws THEN UNCHANGED command
               ELSE command' = [command EXCEPT ![k] = checked.command[k]]
    BY <1>1 DEF UpdateController
  <2>2. value \in Int
    BY <2>1, CommandPathAssumption DEF IsSetup, Commanded
  <2>3. IsChecked(k, SetLimited(k, value))
    BY <2>2, SetLimitedResult
  <2>4. IsMemory(memory')
    BY <2>1, <2>3 DEF IsChecked
  <2>5. command' \in [Commanded -> Int \cup {NaN}]
    BY <2>1, <2>3 DEF IsChecked
  <2>6. UNCHANGED <<setup, actual, mode, at, collected, task>>
    BY <1>1 DEF UpdateController
  <2> QED BY <2>4, <2>5, <2>6 DEF IsMemory, IsPlaced
<1>2. ASSUME NEW k \in Commanded, TriggerController(k) PROVE NumbersOK'
  <2>1. CASE UNCHANGED task
    BY <1>2, <2>1 DEF TriggerController, IsMemory, IsPlaced
  <2>2. CASE \E value \in setup.targets[k] :
                task' = [task EXCEPT ![k].stage = "check", ![k].wish = value]
    <3>1. PICK value \in setup.targets[k] :
                task' = [task EXCEPT ![k].stage = "check", ![k].wish = value]
      BY <2>2
    <3>2. value \in Int
      BY CommandPathAssumption DEF IsSetup, Commanded
    <3>3. /\ DOMAIN task' = Commanded
          /\ \A j \in Commanded \ {k} : task'[j] = task[j]
          /\ task'[k] = [task[k] EXCEPT !.stage = "check", !.wish = value]
      BY <3>1
    <3>4. /\ DOMAIN task'[k] = TaskFields
          /\ task'[k].stage = "check" /\ task'[k].wish = value
      BY <3>3 DEF TaskFields
    <3>5. UNCHANGED <<setup, command, actual, memory, collected, at>>
      BY <1>2 DEF TriggerController
    <3> QED BY <3>2, <3>3, <3>4, <3>5 DEF IsMemory, IsPlaced
  <2> QED BY <1>2, <2>1, <2>2 DEF TriggerController
<1>3. ASSUME NEW k \in Commanded, CheckAsync(k) PROVE NumbersOK'
  <2> DEFINE checked == SetLimited(k, task[k].wish)
  <2>1. /\ task[k].stage = "check"
        /\ memory' = checked.memory
        /\ IF checked.throws THEN task' = [task EXCEPT ![k] = NoTask]
           ELSE task' = [task EXCEPT ![k].stage = "set", ![k].value = checked.command[k],
                                     ![k].fresh = TRUE]
        /\ UNCHANGED <<setup, command, actual, mode, at, collected>>
    BY <1>3 DEF CheckAsync
  <2>2. IsChecked(k, checked)
    BY <2>1, SetLimitedResult
  <2> HIDE DEF checked
  <2>3. IsMemory(memory')
    BY <2>1, <2>2 DEF IsChecked
  <2>4. CASE checked.throws
    BY <2>1, <2>3, <2>4 DEF NoTask, TaskFields, IsMemory, IsPlaced
  <2>5. CASE ~checked.throws
    BY <2>1, <2>2, <2>3, <2>5 DEF IsChecked, TaskFields, IsMemory, IsPlaced
  <2> QED BY <2>4, <2>5
<1>4. ASSUME NEW k \in Commanded, SetAsync(k) PROVE NumbersOK'
  <2>1. UNCHANGED <<setup, actual, mode, memory, at, collected>> /\ task[k].stage = "set"
    BY <1>4 DEF SetAsync
  <2>2. command' \in [Commanded -> Int \cup {NaN}]
    BY <1>4 DEF SetAsync
  <2>3. PICK next : /\ task' = [task EXCEPT ![k] = next]
                    /\ \/ next = NoTask
                       \/ next = [NoTask EXCEPT !.stage = "check", !.wish = task[k].wish,
                                                !.tries = task[k].tries + 1]
    BY <1>4 DEF SetAsync
  <2>4. /\ DOMAIN next = TaskFields
        /\ next.stage # "idle" => next.wish = task[k].wish
        /\ next.stage # "set"
    <3>1. CASE next = NoTask
      BY <3>1 DEF NoTask, TaskFields
    <3>2. CASE next = [NoTask EXCEPT !.stage = "check", !.wish = task[k].wish,
                                     !.tries = task[k].tries + 1]
      BY <3>2 DEF NoTask, TaskFields
    <3> QED BY <2>3, <3>1, <3>2
  <2>5. task[k].wish \in Int
    BY <2>1
  <2> QED BY <2>1, <2>2, <2>3, <2>4, <2>5 DEF IsMemory, IsPlaced
<1>5. CASE EndUpdates
  BY <1>5 DEF EndUpdates, NoData, Motions, Kinds, Values, Commanded, IsMemory, IsPlaced, Known
<1>6. CASE Collect
  BY <1>6 DEF Collect, Motions, Kinds, Values, Commanded, IsMemory, IsPlaced, Known
<1>7. CASE Enforce
  <2>1. PICK checked : /\ checked = Limiter(collected)
                       /\ memory' = checked.memory
                       /\ collected' = IF checked.enforced THEN checked.command ELSE NoData
    BY <1>7 DEF Enforce
  <2>2. IsMemory(checked.memory) /\ checked.command \in Motions
    BY <2>1, LimiterResult
  <2>3. NoData \in Motions
    BY DEF NoData, Motions, Kinds, Values
  <2>4. UNCHANGED <<setup, command, actual, mode, at, task>>
    BY <1>7 DEF Enforce
  <2> QED BY <2>1, <2>2, <2>3, <2>4 DEF IsMemory, IsPlaced
<1>8. CASE Store
  <2>1. command' \in [Commanded -> Int \cup {NaN}]
    BY <1>8 DEF Store, Motions, Kinds, Values, Commanded
  <2>2. collected' \in Motions /\ at' \in Commanded
    BY <1>8 DEF Store, Motions, Kinds, Values, Commanded
  <2> QED BY <1>8, <2>1, <2>2 DEF Store, IsMemory, IsPlaced
<1>9. CASE EndCycle
  BY <1>9 DEF EndCycle, IsMemory, IsPlaced
<1>10. CASE Read
  <2>1. UNCHANGED <<setup, command, mode, memory, at, collected>>
    BY <1>10 DEF Read
  <2>2. actual' = Moved /\ task' = Outdated
    BY <1>10 DEF Read
  <2>3. Moved \in Motions /\ IsPlaced(Moved)
    <3>1. \A v \in Int : Placed(v) \in Int
      BY CommandPathAssumption DEF Placed, Symmetric, Clamp
    <3>2. CASE mode = "velocity"
      <4> DEFINE v == IF command.velocity = NaN THEN actual.velocity ELSE command.velocity
      <4>1. v \in Int /\ actual.position + v \in Int
        BY DEF IsPlaced, Commanded
      <4>2. Moved = [actual EXCEPT !.position = Placed(actual.position + v), !.velocity = v]
        BY <3>2 DEF Moved
      <4> HIDE DEF v
      <4>3. Placed(actual.position + v) \in Int
        BY <3>1, <4>1
      <4> QED BY <4>1, <4>2, <4>3 DEF Motions, Kinds, Values, IsPlaced
    <3>3. CASE mode # "velocity"
      <4>1. CASE command.position = NaN
        BY <3>3, <4>1 DEF Moved
      <4>2. CASE command.position # NaN
        <5>1. command.position \in Int /\ command.position - actual.position \in Int
          BY <4>2 DEF IsPlaced, Commanded
        <5>2. Moved = [actual EXCEPT !.position = command.position,
                                     !.velocity = command.position - actual.position]
          BY <3>3, <4>2 DEF Moved
        <5> QED BY <5>1, <5>2 DEF Motions, Kinds, Values, IsPlaced
      <4> QED BY <4>1, <4>2
    <3> QED BY <3>2, <3>3
  <2> QED BY <2>1, <2>2, <2>3 DEF Outdated, TaskFields, IsMemory, IsPlaced
<1>11. CASE \E start, stop \in SUBSET Commanded : RequestSwitch(start, stop)
  BY <1>11 DEF RequestSwitch, IsMemory, IsPlaced
<1>12. CASE PerformModeSwitch
  <2>1. UNCHANGED <<setup, command, actual, at, collected>> /\ task' = Outdated
    BY <1>12 DEF PerformModeSwitch
  <2>2. IsMemory(memory')
    BY <1>12 DEF PerformModeSwitch, reset_internals, NoData, IsMemory, Known, Kinds
  <2> QED BY <2>1, <2>2 DEF Outdated, TaskFields, IsMemory, IsPlaced
<1>13. CASE SwitchControllers
  BY <1>13 DEF SwitchControllers, IsMemory, IsPlaced
<1> QED BY <1>1, <1>2, <1>3, <1>4, <1>5, <1>6, <1>7, <1>8, <1>9, <1>10, <1>11, <1>12, <1>13
        DEF CommandPathNext, LoopStep, AsyncStep, ServiceStep

\* An update writes what was checked, or nothing.
LEMMA UpdateOf ==
    ASSUME NumbersOK, NEW k \in Commanded, UpdateController(k)
    PROVE  /\ UNCHANGED <<setup, actual, pc, collected, task>>
           /\ \/ UNCHANGED <<command, fresh>>
              \/ \E value \in Int :
                   /\ command' = [command EXCEPT ![k] = value]
                   /\ fresh' = fresh \cup {k}
                   /\ k = "position" => Inside(value)
                   /\ k = "velocity" /\ NeedNotBrake => Keeps(value)
<1>1. PICK value \in setup.targets[k] :
          LET checked == SetLimited(k, value) IN
          IF checked.throws THEN UNCHANGED <<command, fresh>>
          ELSE /\ command' = [command EXCEPT ![k] = checked.command[k]]
               /\ fresh' = fresh \cup {k}
  BY DEF UpdateController
<1>2. value \in Int
  BY <1>1, CommandPathAssumption DEF IsSetup, Commanded, NumbersOK
<1>3. IsChecked(k, SetLimited(k, value))
  BY <1>2, SetLimitedResult
<1>4. UNCHANGED <<setup, actual, pc, collected, task>>
  BY DEF UpdateController
<1> QED BY <1>1, <1>3, <1>4 DEF IsChecked

\* A thread keeps only what was checked.
LEMMA CheckOf ==
    ASSUME NumbersOK, NEW k \in Commanded, CheckAsync(k)
    PROVE  /\ UNCHANGED <<setup, actual, pc, collected, command, fresh>>
           /\ \/ task' = [task EXCEPT ![k] = NoTask]
              \/ \E value \in Int :
                   /\ task' = [task EXCEPT ![k].stage = "set", ![k].value = value, ![k].fresh = TRUE]
                   /\ k = "position" => Inside(value)
                   /\ k = "velocity" /\ NeedNotBrake => Keeps(value)
<1> DEFINE checked == SetLimited(k, task[k].wish)
<1>1. /\ task[k].stage = "check"
      /\ IF checked.throws THEN task' = [task EXCEPT ![k] = NoTask]
         ELSE task' = [task EXCEPT ![k].stage = "set", ![k].value = checked.command[k],
                                   ![k].fresh = TRUE]
      /\ UNCHANGED <<setup, actual, pc, collected, command, fresh>>
  BY DEF CheckAsync
<1>2. IsChecked(k, checked)
  BY <1>1, SetLimitedResult DEF NumbersOK
<1> HIDE DEF checked
<1> QED BY <1>1, <1>2 DEF IsChecked

\* Once it has written, or not, a thread has nothing left to set.
LEMMA SetOf ==
    ASSUME NEW k \in Commanded, SetAsync(k)
    PROVE  \E next : task' = [task EXCEPT ![k] = next] /\ next.stage # "set"
<1> DEFINE Again == [NoTask EXCEPT !.stage = "check", !.wish = task[k].wish,
                                   !.tries = task[k].tries + 1]
<1>1. task' = [task EXCEPT ![k] = NoTask] \/ task' = [task EXCEPT ![k] = Again]
  BY DEF SetAsync
<1>2. NoTask.stage # "set" /\ Again.stage # "set"
  BY DEF NoTask
<1> HIDE DEF Again
<1> QED BY <1>1, <1>2

\* Every step keeps positions checked.
LEMMA PositionsStep ==
    ASSUME NumbersOK, PositionsChecked, CommandPathNext PROVE PositionsChecked'
<1> USE DEF PositionsChecked, MayBe, Inside
<1>1. ASSUME NEW k \in Commanded, UpdateController(k) PROVE PositionsChecked'
  <2>1. UNCHANGED <<setup, pc, collected, task>>
    BY <1>1, UpdateOf
  <2>2. CASE UNCHANGED command
    BY <2>1, <2>2
  <2>3. CASE \E value \in Int : /\ command' = [command EXCEPT ![k] = value]
                                /\ k = "position" => Inside(value)
    BY <2>1, <2>3 DEF NumbersOK, Commanded
  <2> QED BY <1>1, <2>2, <2>3, UpdateOf
<1>2. ASSUME NEW k \in Commanded, TriggerController(k) PROVE PositionsChecked'
  <2>1. UNCHANGED <<setup, command, pc, collected>>
    BY <1>2 DEF TriggerController
  <2>2. task'.position.stage = "set" => task'.position = task.position
    BY <1>2 DEF TriggerController, NumbersOK, TaskFields, Commanded
  <2> QED BY <2>1, <2>2
<1>3. ASSUME NEW k \in Commanded, CheckAsync(k) PROVE PositionsChecked'
  <2>1. UNCHANGED <<setup, command, pc, collected>>
    BY <1>3, CheckOf
  <2>2. CASE task' = [task EXCEPT ![k] = NoTask]
    BY <2>1, <2>2 DEF NumbersOK, NoTask, Commanded
  <2>3. CASE \E value \in Int :
                /\ task' = [task EXCEPT ![k].stage = "set", ![k].value = value, ![k].fresh = TRUE]
                /\ k = "position" => Inside(value)
    BY <2>1, <2>3 DEF NumbersOK, TaskFields, Commanded
  <2> QED BY <1>3, <2>2, <2>3, CheckOf
<1>4. ASSUME NEW k \in Commanded, SetAsync(k) PROVE PositionsChecked'
  <2>1. UNCHANGED <<setup, pc, collected>> /\ task[k].stage = "set"
    BY <1>4 DEF SetAsync
  <2>2. command' = command \/ command' = [command EXCEPT ![k] = task[k].value]
    BY <1>4 DEF SetAsync
  <2>3. task'.position.stage = "set" => task'.position = task.position
    <3>1. PICK next : task' = [task EXCEPT ![k] = next] /\ next.stage # "set"
      BY <1>4, SetOf
    <3> QED BY <3>1 DEF NumbersOK, Commanded
  <2>4. MayBe(command.position)'
    BY <2>1, <2>2 DEF NumbersOK, Commanded
  <2> QED BY <2>1, <2>3, <2>4
<1>5. CASE EndUpdates
  BY <1>5 DEF EndUpdates
<1>6. CASE Collect
  BY <1>6 DEF Collect
<1>7. CASE Enforce
  <2>1. PICK checked : /\ checked = Limiter(collected)
                       /\ collected' = IF checked.enforced THEN checked.command ELSE NoData
                       /\ pc' = IF checked.throws THEN "terminated"
                                ELSE IF checked.enforced THEN "store" ELSE "switch"
    BY <1>7 DEF Enforce
  <2>2. ~checked.throws => MayBe(checked.command.position)
    BY <2>1, LimiterResult DEF NumbersOK
  <2>3. UNCHANGED <<setup, command, task>>
    BY <1>7 DEF Enforce
  <2>4. pc' = "store" => collected' = checked.command /\ ~checked.throws
    BY <2>1
  <2> QED BY <2>2, <2>3, <2>4
<1>8. CASE Store
  <2>1. UNCHANGED <<setup, task>> /\ pc = "store"
    BY <1>8 DEF Store
  <2>2. command'.position \in {command.position, collected.position}
    BY <1>8 DEF Store, NumbersOK, Commanded
  <2>3. collected'.position \in {collected.position, NoValue}
    BY <1>8 DEF Store, NumbersOK, Motions, Kinds
  <2> QED BY <2>1, <2>2, <2>3 DEF Given
<1>9. CASE EndCycle
  BY <1>9 DEF EndCycle
<1>10. CASE Read
  BY <1>10 DEF Read, Outdated, NumbersOK, TaskFields, Commanded
<1>11. CASE \E start, stop \in SUBSET Commanded : RequestSwitch(start, stop)
  BY <1>11 DEF RequestSwitch
<1>12. CASE PerformModeSwitch
  BY <1>12 DEF PerformModeSwitch, Outdated, NumbersOK, TaskFields, Commanded
<1>13. CASE SwitchControllers
  BY <1>13 DEF SwitchControllers
<1> QED BY <1>1, <1>2, <1>3, <1>4, <1>5, <1>6, <1>7, <1>8, <1>9, <1>10, <1>11, <1>12, <1>13
        DEF CommandPathNext, LoopStep, AsyncStep, ServiceStep

\* Every step keeps velocities checked; the joint moves only when none is needed any more.
LEMMA VelocitiesStep ==
    ASSUME NumbersOK, VelocitiesChecked, CommandPathNext PROVE VelocitiesChecked'
<1> SUFFICES ASSUME NeedNotBrake'
             PROVE  /\ "velocity" \in fresh' => Keeps(command.velocity)'
                    /\ task'.velocity.stage = "set" /\ task'.velocity.fresh
                       => Keeps(task.velocity.value)'
                    /\ pc' = "store" /\ Given(collected'.velocity) => Keeps(collected.velocity)'
  BY DEF VelocitiesChecked
<1>a. ASSUME UNCHANGED <<setup, actual>>
      PROVE  /\ NeedNotBrake
             /\ "velocity" \in fresh => Keeps(command.velocity)
             /\ task.velocity.stage = "set" /\ task.velocity.fresh => Keeps(task.velocity.value)
             /\ pc = "store" /\ Given(collected.velocity) => Keeps(collected.velocity)
  BY <1>a DEF VelocitiesChecked, NeedNotBrake, Inside
<1> USE DEF Keeps, Inside
<1>1. ASSUME NEW k \in Commanded, UpdateController(k) PROVE VelocitiesChecked'
  <2>1. UNCHANGED <<setup, actual, pc, collected, task>>
    BY <1>1, UpdateOf
  <2>2. CASE UNCHANGED <<command, fresh>>
    BY <2>1, <2>2, <1>a DEF VelocitiesChecked
  <2>3. CASE \E value \in Int : /\ command' = [command EXCEPT ![k] = value]
                                /\ fresh' = fresh \cup {k}
                                /\ k = "velocity" /\ NeedNotBrake => Keeps(value)
    BY <2>1, <2>3, <1>a DEF VelocitiesChecked, NumbersOK, Commanded
  <2> QED BY <1>1, <2>2, <2>3, UpdateOf
<1>2. ASSUME NEW k \in Commanded, TriggerController(k) PROVE VelocitiesChecked'
  <2>1. UNCHANGED <<setup, actual, command, fresh, pc, collected>>
    BY <1>2 DEF TriggerController
  <2>2. task'.velocity.stage = "set" => task'.velocity = task.velocity
    BY <1>2 DEF TriggerController, NumbersOK, TaskFields, Commanded
  <2> QED BY <2>1, <2>2, <1>a DEF VelocitiesChecked
<1>3. ASSUME NEW k \in Commanded, CheckAsync(k) PROVE VelocitiesChecked'
  <2>1. UNCHANGED <<setup, actual, command, fresh, pc, collected>>
    BY <1>3, CheckOf
  <2>2. CASE task' = [task EXCEPT ![k] = NoTask]
    BY <2>1, <2>2, <1>a DEF VelocitiesChecked, NumbersOK, NoTask, Commanded
  <2>3. CASE \E value \in Int :
                /\ task' = [task EXCEPT ![k].stage = "set", ![k].value = value, ![k].fresh = TRUE]
                /\ k = "velocity" /\ NeedNotBrake => Keeps(value)
    BY <2>1, <2>3, <1>a DEF VelocitiesChecked, NumbersOK, TaskFields, Commanded
  <2> QED BY <1>3, <2>2, <2>3, CheckOf
<1>4. ASSUME NEW k \in Commanded, SetAsync(k) PROVE VelocitiesChecked'
  <2>1. UNCHANGED <<setup, actual, pc, collected>> /\ task[k].stage = "set"
    BY <1>4 DEF SetAsync
  <2>2. \/ UNCHANGED <<command, fresh>>
        \/ /\ command' = [command EXCEPT ![k] = task[k].value]
           /\ fresh' = IF task[k].fresh THEN fresh \cup {k} ELSE fresh \ {k}
    BY <1>4 DEF SetAsync
  <2>3. task'.velocity.stage = "set" => task'.velocity = task.velocity
    <3>1. PICK next : task' = [task EXCEPT ![k] = next] /\ next.stage # "set"
      BY <1>4, SetOf
    <3> QED BY <3>1 DEF NumbersOK, Commanded
  <2>4. "velocity" \in fresh' => Keeps(command'.velocity)
    BY <2>1, <2>2, <1>a DEF NumbersOK, Commanded
  <2> QED BY <2>1, <2>3, <2>4, <1>a DEF VelocitiesChecked
<1>5. CASE EndUpdates
  BY <1>5, <1>a DEF EndUpdates, VelocitiesChecked
<1>6. CASE Collect
  BY <1>6, <1>a DEF Collect, VelocitiesChecked
<1>7. CASE Enforce
  <2>1. PICK checked : /\ checked = Limiter(collected)
                       /\ collected' = IF checked.enforced THEN checked.command ELSE NoData
                       /\ pc' = IF checked.throws THEN "terminated"
                                ELSE IF checked.enforced THEN "store" ELSE "switch"
                       /\ fresh' = IF checked.throws \/ checked.enforced THEN fresh
                                   ELSE fresh \cup { k \in claimed : Given(command[k])
                                                                     /\ command[k] = collected[k] }
    BY <1>7 DEF Enforce
  <2>2. UNCHANGED <<setup, actual, command, task>>
    BY <1>7 DEF Enforce
  <2>3. ~checked.throws =>
          /\ Given(checked.command.velocity) => Keeps(checked.command.velocity)
          /\ ~checked.enforced => checked.command = collected
    BY <2>1, <2>2, <1>a, LimiterResult DEF NumbersOK, NeedNotBrake
  <2>4. pc' = "store" => collected' = checked.command /\ ~checked.throws
    BY <2>1
  <2>5. "velocity" \in fresh' =>
          \/ "velocity" \in fresh
          \/ /\ ~checked.throws /\ ~checked.enforced
             /\ Given(command.velocity) /\ command.velocity = collected.velocity
    BY <2>1
  <2>6. "velocity" \in fresh' => Keeps(command.velocity)
    BY <2>2, <2>3, <2>5, <1>a
  <2> QED BY <2>2, <2>3, <2>4, <2>6, <1>a DEF VelocitiesChecked
<1>8. CASE Store
  <2>1. UNCHANGED <<setup, actual, task>> /\ pc = "store"
    BY <1>8 DEF Store
  <2>2. "velocity" \in fresh' =>
          \/ "velocity" \in fresh /\ command'.velocity = command.velocity
          \/ command'.velocity = collected.velocity /\ Given(collected.velocity)
    BY <1>8 DEF Store, NumbersOK, Commanded, NotNumbers
  <2>3. collected'.velocity \in {collected.velocity, NoValue}
    BY <1>8 DEF Store, NumbersOK, Motions, Kinds
  <2> QED BY <2>1, <2>2, <2>3, <1>a DEF Given, VelocitiesChecked
<1>9. CASE EndCycle
  BY <1>9, <1>a DEF EndCycle, VelocitiesChecked
<1>10. CASE Read
  <2>1. fresh' = {} /\ pc' = "update" /\ ~task'.velocity.fresh
    BY <1>10 DEF Read, Outdated, NumbersOK, TaskFields, Commanded
  <2> QED BY <2>1 DEF VelocitiesChecked
<1>11. CASE \E start, stop \in SUBSET Commanded : RequestSwitch(start, stop)
  BY <1>11, <1>a DEF RequestSwitch, VelocitiesChecked
<1>12. CASE PerformModeSwitch
  <2>1. fresh' = {} /\ UNCHANGED <<setup, actual, pc, collected>> /\ ~task'.velocity.fresh
    BY <1>12 DEF PerformModeSwitch, Outdated, NumbersOK, TaskFields, Commanded
  <2> QED BY <2>1, <1>a DEF VelocitiesChecked
<1>13. CASE SwitchControllers
  BY <1>13, <1>a DEF SwitchControllers, VelocitiesChecked
<1>14. VelocitiesChecked'
  BY <1>1, <1>2, <1>3, <1>4, <1>5, <1>6, <1>7, <1>8, <1>9, <1>10, <1>11, <1>12, <1>13
     DEF CommandPathNext, LoopStep, AsyncStep, ServiceStep, VelocitiesChecked, NeedNotBrake
<1> QED BY <1>14 DEF VelocitiesChecked

\* The invariant is inductive.
LEMMA PathStep == PathIInv /\ [CommandPathNext]_vars => PathIInv'
<1>1. ASSUME PathIInv, CommandPathNext PROVE PathIInv'
  BY <1>1, NumbersStep, PositionsStep, VelocitiesStep DEF PathIInv
<1>2. ASSUME PathIInv, UNCHANGED vars PROVE PathIInv'
  <2> USE <1>2 DEF vars
  <2>1. NumbersOK'
    BY DEF PathIInv, NumbersOK, IsPlaced, IsMemory
  <2>2. PositionsChecked'
    BY DEF PathIInv, PositionsChecked, MayBe, Inside
  <2>3. VelocitiesChecked'
    BY DEF PathIInv, VelocitiesChecked, NeedNotBrake, Keeps, Inside
  <2> QED BY <2>1, <2>2, <2>3 DEF PathIInv
<1> QED BY <1>1, <1>2

\* The strengthened invariant holds in every state.
THEOREM PathInvariant == CommandPathSpec => []PathIInv
<1> QED BY PathInitially, PathStep, PTL DEF CommandPathSpec

-----------------------------------------------------------------------------
(* A position command is within the limits of the joint, with soft limits  *)
(* and without, whoever set it and however switches, exceptions and        *)
(* threads interleave.                                                     *)

THEOREM PositionStaysInLimits == CommandPathSpec => []PositionIsInLimits
<1>1. PathIInv => PositionIsInLimits
  BY DEF PathIInv, PositionsChecked, PositionIsInLimits, MayBe, Inside
<1> QED BY <1>1, PathInvariant, PTL

(* If no joint has soft limits, a checked velocity does not take the joint *)
(* out of its limits.                                                      *)

THEOREM VelocityStaysInside ==
    ASSUME \A s \in Setups : s.soft = NoValue
    PROVE  CommandPathSpec => CheckedVelocityStaysInside
<1> DEFINE Kept == /\ "acceleration" \notin setup.limits.has
                   /\ pc = "read" /\ mode = "velocity" /\ "velocity" \in fresh
                   /\ Inside(actual.position)
                   => Inside(actual'.position)
<1>1. ASSUME PathIInv, CommandPathNext PROVE Kept
  <2> SUFFICES ASSUME "acceleration" \notin setup.limits.has,
                      pc = "read", mode = "velocity", "velocity" \in fresh,
                      Inside(actual.position)
               PROVE  Inside(actual'.position)
    OBVIOUS
  <2>1. CASE UNCHANGED actual
    BY <2>1
  <2>2. CASE Read
    <3>1. Keeps(command.velocity)
      BY <1>1 DEF PathIInv, NumbersOK, VelocitiesChecked, NeedNotBrake
    <3>2. actual' = [actual EXCEPT !.position = Placed(actual.position + command.velocity),
                                   !.velocity = command.velocity]
      BY <2>2, <3>1 DEF Read, Moved, Keeps, Given
    <3>3. command.velocity \in Int /\ actual.position \in Int /\ actual \in Motions
      BY <1>1, <3>1 DEF PathIInv, NumbersOK, IsPlaced, Keeps, Given, Commanded
    <3>4. Placed(actual.position + command.velocity) = actual.position + command.velocity
      <4>1. /\ setup.limits.min_position \in -JointEnd..JointEnd
            /\ setup.limits.max_position \in -JointEnd..JointEnd
        BY <1>1, CommandPathAssumption DEF PathIInv, NumbersOK, IsSetup
      <4>2. actual.position + command.velocity \in -JointEnd..JointEnd
        BY <4>1, <3>1, <3>3, CommandPathAssumption DEF Keeps, Inside
      <4> QED BY <4>2, CommandPathAssumption DEF Placed, Clamp, Less, Symmetric
    <3>5. actual'.position = actual.position + command.velocity
      BY <3>2, <3>3, <3>4 DEF Motions, Kinds
    <3> QED BY <3>1, <3>5 DEF Keeps
  <2>3. Read \/ UNCHANGED actual
    BY <1>1 DEF CommandPathNext, LoopStep, AsyncStep, ServiceStep, UpdateController,
                TriggerController, CheckAsync, SetAsync, EndUpdates, Collect, Enforce, Store,
                EndCycle, RequestSwitch, PerformModeSwitch, SwitchControllers
  <2> QED BY <2>1, <2>2, <2>3
<1>2. CheckedVelocityStaysInside <=> [][Kept]_vars
  BY DEF CheckedVelocityStaysInside
<1> QED BY <1>1, <1>2, PathInvariant, PTL DEF CommandPathSpec

-----------------------------------------------------------------------------
(* The step of a checked position.  The limiter counts it from what it     *)
(* remembers, so it has to remember where the joint is whenever the joint  *)
(* has just moved: that is the invariant, through updates that throw,      *)
(* checks that are left out and switches at any time.                      *)

\* A position in the range is a bounded step away from where the range is taken from.
LEMMA NearPositions ==
    ASSUME setup \in Setups, IsPlaced(actual), NEW memory_, IsMemory(memory_),
           NEW reference, reference = IF memory_.position # NoValue
                                      THEN memory_.position ELSE actual.position,
           NEW range, range = compute_position_limits(setup.limits, actual, memory_),
           NEW x \in Int
    PROVE  /\ range[1] <= x /\ x <= range[2] => StepIsBounded(reference, x)
           /\ Inside(reference) => range[1] <= reference /\ reference <= range[2]
<1> DEFINE max == setup.limits.max_position
           min == setup.limits.min_position
           speed == setup.limits.max_velocity
           growth == setup.limits.max_acceleration
           now == AbsoluteOf(actual.velocity)
           step == IF "acceleration" \in setup.limits.has
                   THEN Smaller(speed, Plus(now, growth)) ELSE speed
           lower == Larger(Smaller(Minus(reference, step), max), min)
           upper == Smaller(Larger(Plus(reference, step), lower), max)
<1>1. /\ min \in Int /\ max \in Int /\ min <= max
      /\ speed \in Nat /\ growth \in Nat
      /\ {"position", "velocity"} \subseteq setup.limits.has
  BY CommandPathAssumption DEF IsSetup
<1>2. reference \in Int
  BY DEF Known, IsPlaced, IsMemory
<1>3. range = InOrder(<<lower, upper>>)
  <2>1. actual.velocity # NoValue /\ reference # NoValue
    BY <1>2, NoNumberAssumption DEF IsPlaced
  <2> QED BY <1>1, <2>1 DEF compute_position_limits
<1>4. now \in Nat
  BY NoNumberAssumption DEF Less, AbsoluteOf, IsPlaced
<1> HIDE DEF now
<1>5. step \in Nat /\ step <= speed
  <2>1. Plus(now, growth) \in Nat
    BY <1>1, <1>4, NoNumberAssumption DEF Plus
  <2> QED BY <2>1, <1>1, NoNumberAssumption DEF Smaller, Less
<1> HIDE DEF step, speed, growth
<1>6. Minus(reference, step) = reference - step /\ Plus(reference, step) = reference + step
  BY <1>2, <1>5, NoNumberAssumption DEF Minus, Plus
<1> HIDE DEF min, max
<1>7. lower = IF reference - step > max THEN max
              ELSE IF reference - step < min THEN min ELSE reference - step
  BY <1>1, <1>2, <1>5, <1>6, NoNumberAssumption DEF Less, Larger, Smaller
<1>8. upper = IF reference + step < lower THEN lower
              ELSE IF reference + step > max THEN max ELSE reference + step
  <2>1. lower \in Int /\ lower <= max
    BY <1>1, <1>2, <1>5, <1>7
  <2> HIDE DEF lower
  <2> QED BY <2>1, <1>1, <1>2, <1>5, <1>6, NoNumberAssumption DEF Less, Larger, Smaller
<1> HIDE DEF lower, upper
<1>9. lower \in Int /\ upper \in Int /\ lower <= upper
  BY <1>1, <1>2, <1>5, <1>7, <1>8
<1>10. range = <<lower, upper>>
  BY <1>3, <1>9 DEF InOrder, Less
<1>11. ASSUME lower <= x, x <= upper PROVE StepIsBounded(reference, x)
  <2>1. \/ reference - step <= x /\ x <= reference + step
        \/ reference > max /\ x = max
        \/ reference < min /\ x = min
    BY <1>11, <1>1, <1>2, <1>5, <1>7, <1>8, <1>9
  <2>2. CASE reference - step <= x /\ x <= reference + step
    <3>1. x - reference \in Int /\ -step <= x - reference /\ x - reference <= step
      BY <2>2, <1>2, <1>5
    <3>2. AbsoluteOf(x - reference) <= step
      BY <3>1, <1>5, NoNumberAssumption DEF AbsoluteOf, Less
    <3> QED BY <3>1, <3>2, <1>1, <1>5, NoNumberAssumption DEF StepIsBounded, speed, AbsoluteOf, Less
  <2>3. CASE reference > max /\ x = max
    BY <2>3, <1>1, <1>2, NoNumberAssumption
       DEF StepIsBounded, PositionLimits, Inside, Clamp, Less, min, max
  <2>4. CASE reference < min /\ x = min
    BY <2>4, <1>1, <1>2, NoNumberAssumption
       DEF StepIsBounded, PositionLimits, Inside, Clamp, Less, min, max
  <2> QED BY <2>1, <2>2, <2>3, <2>4
<1>12. Inside(reference) => lower <= reference /\ reference <= upper
  BY <1>1, <1>2, <1>5, <1>7, <1>8 DEF Inside, min, max
<1> QED BY <1>10, <1>11, <1>12

\* What a limiter counts the step from.
Reference == IF memory.position # NoValue THEN memory.position ELSE actual.position

\* What a limiter remembers when it lets nothing through.
RemembersNothing(result) ==
    result.memory.position \in IF memory.position = NoValue THEN {NoValue, actual.position}
                               ELSE {memory.position}

\* What JointSaturationLimiter makes of a position, and remembers of it.
IsNear(result, desired) ==
    /\ result.throws => RemembersNothing(result)
    /\ desired = NoValue =>
         /\ result.memory.position = memory.position
         /\ ~result.throws => result.command.position = NoValue
    /\ desired = NaN =>
         /\ RemembersNothing(result)
         /\ ~result.throws => result.command.position = NaN
    /\ Given(desired) /\ ~result.throws =>
         /\ result.command.position \in Int
         /\ result.memory.position = result.command.position
         /\ StepIsBounded(Reference, result.command.position)
         /\ Inside(Reference) /\ desired = Reference => result.command.position = Reference

\* The limiter lets a bounded step through, and what it let through before as it is.
LEMMA NearResult ==
    ASSUME setup \in Setups, setup.soft = NoValue, IsPlaced(actual), IsMemory(memory),
           NEW desired \in Motions, NEW result, result = Limiter(desired)
    PROVE  IsNear(result, desired.position)
<1> DEFINE first == FirstMemory(memory, actual, desired)
           ranges == [k \in Kinds |->
                     CASE ~Given(desired[k]) -> Unlimited
                       [] k = "position" /\ Given(desired[k]) ->
                            compute_position_limits(setup.limits, actual, first)
                       [] k = "velocity" /\ Given(desired[k]) ->
                            compute_velocity_limits(setup.limits, actual, desired[k], first)
                       [] k = "effort" /\ Given(desired[k]) -> compute_effort_limits(setup.limits, actual)
                       [] k = "acceleration" /\ Given(desired[k]) ->
                            compute_acceleration_limits(setup.limits, actual, desired[k])]
           throws == Given(desired.position) /\ PositionThrows(setup.limits, actual)
           limited == [k \in Kinds |-> IF Given(desired[k]) THEN Clamp(desired[k], ranges[k])
                                       ELSE desired[k]]
<1>1. result = Limited(desired, first, ranges, throws)
  BY DEF Limiter, RangeLimiter
<1>2. Given(desired.position) =>
          ranges.position = compute_position_limits(setup.limits, actual, first)
  BY DEF Kinds
<1>3. /\ IsMemory(first)
      /\ \/ first.position = memory.position
         \/ memory.position = NoValue /\ desired.position # NoValue
            /\ first.position = actual.position
  <2>1. actual.position # NoValue
    BY NoNumberAssumption DEF IsPlaced
  <2>2. HasData(memory) \/ memory.position = NoValue
    BY DEF HasData, Kinds
  <2>3. IsMemory(first)
    BY FirstMemoryIsMemory
  <2>4. CASE HasData(memory)
    BY <2>3, <2>4 DEF FirstMemory
  <2>5. CASE ~HasData(memory)
    BY <2>1, <2>2, <2>3, <2>5 DEF FirstMemory, Kinds
  <2> QED BY <2>4, <2>5
<1> HIDE DEF first, ranges
<1>4. /\ result.throws = throws
      /\ ~throws => result.command = limited
      /\ result.memory = IF throws THEN first ELSE update_prev_command(limited, first)
  BY <1>1 DEF Limited
<1>5. /\ limited.position = IF Given(desired.position)
                            THEN Clamp(desired.position, ranges.position) ELSE desired.position
      /\ ~throws => result.memory.position = IF Given(limited.position)
                                             THEN limited.position ELSE first.position
  BY <1>4 DEF Kinds, update_prev_command
<1> HIDE DEF limited
<1>6. throws \in BOOLEAN /\ (throws => Given(desired.position))
  OBVIOUS
<1> HIDE DEF throws
<1>7. ASSUME Given(desired.position), ~throws
      PROVE  /\ limited.position \in Int
             /\ StepIsBounded(Reference, limited.position)
             /\ Inside(Reference) /\ desired.position = Reference
                => limited.position = Reference
  <2>1. desired.position \in Int
    BY <1>7 DEF Given, Motions, Values, Kinds
  <2>2. setup.limits.min_position \in Int /\ setup.limits.max_position \in Int /\ IsSetup(setup)
    BY CommandPathAssumption DEF IsSetup
  <2>3. ranges.position \in Ranges /\ Within(ranges.position, setup.limits)
    BY <1>2, <1>3, <1>7, <2>2, HardPositions
  <2>4. ranges.position[1] \in Int /\ ranges.position[2] \in Int
        /\ ranges.position[1] <= ranges.position[2]
    BY <2>3 DEF Ranges, Within
  <2>5. limited.position = Clamp(desired.position, ranges.position)
    BY <1>5, <1>7
  <2>6. /\ limited.position \in Int
        /\ ranges.position[1] <= limited.position /\ limited.position <= ranges.position[2]
        /\ ranges.position[1] <= desired.position /\ desired.position <= ranges.position[2]
           => limited.position = desired.position
    BY <2>1, <2>4, <2>5, NoNumberAssumption DEF Clamp, Less
  <2>7. Reference = IF first.position # NoValue THEN first.position ELSE actual.position
    BY <1>3 DEF Reference
  <2>8. /\ StepIsBounded(Reference, limited.position)
        /\ Inside(Reference) => ranges.position[1] <= Reference /\ Reference <= ranges.position[2]
    BY <1>2, <1>3, <1>7, <2>6, <2>7, NearPositions
  <2> QED BY <2>6, <2>8
<1>9. first.position \in IF memory.position = NoValue THEN {NoValue, actual.position}
                         ELSE {memory.position}
  BY <1>3
<1>10. result.throws => RemembersNothing(result)
  BY <1>4, <1>9 DEF RemembersNothing
<1>11. CASE desired.position = NoValue
  BY <1>11, <1>3, <1>4, <1>5, <1>6, <1>10, NoNumberAssumption DEF IsNear, Given
<1>12. CASE desired.position = NaN
  BY <1>12, <1>4, <1>5, <1>6, <1>9, <1>10, NoNumberAssumption DEF IsNear, Given, RemembersNothing
<1>13. CASE Given(desired.position)
  <2>1. desired.position # NoValue /\ desired.position # NaN
    BY <1>13 DEF Given
  <2>2. ~throws => Given(limited.position)
    BY <1>7, <1>13, NoNumberAssumption DEF Given
  <2> QED BY <1>4, <1>5, <1>7, <1>10, <1>13, <2>1, <2>2 DEF IsNear
<1> QED BY <1>11, <1>12, <1>13 DEF Given

\* The position the loop is about to write, or else the one that is commanded.
Waiting == IF pc = "store" /\ collected.position # NoValue THEN collected.position
           ELSE command.position

\* The limiter remembers the command or, without one, where the joint is; and
\* where the joint is as long as its controller has still to be updated.
IsRemembered(position) ==
    /\ StepIsBounded(actual.position, position)
    /\ ~(pc = "update" /\ "position" \in failed) =>
         position = IF Given(Waiting) THEN Waiting ELSE actual.position
    /\ pc = "update" /\ "position" \in due => position = actual.position

StepsChecked ==
    mode = "position" /\ pc # "terminated" =>
        /\ memory.position # NoValue => IsRemembered(memory.position)
        /\ "position" \in fresh /\ Given(command.position)
           => StepIsBounded(actual.position, command.position)
        /\ pc = "store" /\ Given(collected.position)
           => StepIsBounded(actual.position, collected.position)

\* Who is started holds nothing yet, who is stopped is not updated any more.
UnderWay == request.stage \in {"ready", "mode"}

SwitchesInOrder ==
    /\ request \in [stage : {"none", "asked", "ready", "mode"},
                    start : SUBSET Commanded, stop : SUBSET Commanded]
    /\ \A k \in Commanded : task[k].stage = "idle"
    /\ setup.async = {}
    /\ request.start \cap claimed = {}
    /\ due \cup failed \subseteq claimed
    /\ pc # "update" => failed = {}
    /\ pc = "update" /\ UnderWay => request.stop \cap (due \cup failed) = {}
    /\ setup.asap /\ UnderWay => request.stage = "mode" /\ pc = "switch"

\* The loop reads what is commanded, of an interface that is started nothing.
PositionIsRead == pc \in {"enforce", "store"} \/ (pc = "collect" /\ at = "velocity")

CheckInOrder ==
    /\ pc = "enforce" => at = "position"
    /\ pc = "store" /\ at = "velocity" => collected.position = NoValue
    /\ pc \in {"collect", "enforce"} /\ collected.position # NoValue
       => collected.position = command.position
    /\ UnderWay /\ "position" \in request.start /\ PositionIsRead => collected.position = NoValue

\* In the loop only what is due is updated, and no thread runs.
LEMMA SwitchesStep ==
    ASSUME NumbersOK, SwitchesInOrder, CommandPathNext PROVE SwitchesInOrder'
<1> USE DEF SwitchesInOrder, UnderWay
<1>1. ASSUME NEW k \in Commanded, UpdateController(k) PROVE SwitchesInOrder'
  <2>1. UNCHANGED <<setup, claimed, pc, task, request>>
    BY <1>1 DEF UpdateController
  <2>2. due' \cup failed' \subseteq due \cup failed /\ pc = "update"
    BY <1>1 DEF UpdateController
  <2> QED BY <2>1, <2>2
<1>2. ASSUME NEW k \in Commanded PROVE ~TriggerController(k) /\ ~AsyncStep(k)
  BY DEF TriggerController, AsyncStep, CheckAsync, SetAsync
<1>3. CASE EndUpdates
  <2>1. UNCHANGED <<setup, task, request>> /\ pc = "update" /\ due = {} /\ due' = due
    BY <1>3 DEF EndUpdates
  <2>2. claimed' \subseteq claimed /\ failed' = {}
    BY <1>3 DEF EndUpdates
  <2>3. ~(setup.asap /\ UnderWay)
    BY <2>1
  <2> QED BY <2>1, <2>2, <2>3
<1>4. CASE Collect \/ Enforce \/ Store
  BY <1>4 DEF Collect, Enforce, Store
<1>5. CASE EndCycle
  BY <1>5 DEF EndCycle
<1>6. CASE Read
  <2>1. UNCHANGED <<setup, claimed, failed, request>> /\ pc = "read" /\ failed = {}
    BY <1>6 DEF Read
  <2>2. due' \subseteq claimed /\ (setup.asap \/ due' \cap request.stop = {})
    BY <1>6 DEF Read, Switched
  <2>3. \A k \in Commanded : task'[k].stage = "idle"
    BY <1>6 DEF Read, Outdated, NumbersOK, TaskFields
  <2> QED BY <2>1, <2>2, <2>3
<1>7. CASE \E start, stop \in SUBSET Commanded : RequestSwitch(start, stop)
  BY <1>7 DEF RequestSwitch
<1>8. CASE PerformModeSwitch
  <2>1. UNCHANGED <<setup, claimed, due, failed, pc>> /\ request' = [request EXCEPT !.stage = "mode"]
    BY <1>8 DEF PerformModeSwitch
  <2>2. \/ request.stage = "asked" /\ setup.asap /\ pc = "switch"
        \/ request.stage = "ready"
    BY <1>8 DEF PerformModeSwitch
  <2>3. \A k \in Commanded : task'[k].stage = "idle"
    BY <1>8 DEF PerformModeSwitch, Outdated, NumbersOK, TaskFields
  <2> QED BY <2>1, <2>2, <2>3
<1>9. CASE SwitchControllers
  <2>1. request' = NoRequest /\ UNCHANGED <<setup, failed, task>> /\ request.stage = "mode"
    BY <1>9 DEF SwitchControllers
  <2>2. /\ claimed' = (claimed \ request.stop) \cup request.start
        /\ due' = due \ request.stop
        /\ pc' = IF setup.asap THEN "read" ELSE pc
    BY <1>9 DEF SwitchControllers
  <2>3. request.stop \cap failed = {} /\ (pc' # "update" => failed = {})
    BY <2>1, <2>2
  <2> QED BY <2>1, <2>2, <2>3 DEF NoRequest
<1> QED BY <1>1, <1>2, <1>3, <1>4, <1>5, <1>6, <1>7, <1>8, <1>9
        DEF CommandPathNext, LoopStep, ServiceStep

\* The check writes back what it read.
LEMMA CheckStep ==
    ASSUME NumbersOK, SwitchesInOrder, CheckInOrder,
           \A s \in Setups : s.soft = NoValue, CommandPathNext
    PROVE  CheckInOrder'
<1> USE DEF CheckInOrder, PositionIsRead
<1>1. ASSUME NEW k \in Commanded, UpdateController(k) PROVE CheckInOrder'
  BY <1>1 DEF UpdateController
<1>2. ASSUME NEW k \in Commanded PROVE ~TriggerController(k) /\ ~AsyncStep(k)
  BY DEF SwitchesInOrder, TriggerController, AsyncStep, CheckAsync, SetAsync
<1>3. CASE EndUpdates
  BY <1>3 DEF EndUpdates, NoData, Kinds
<1>4. CASE Collect
  <2>1. UNCHANGED <<command, request, claimed>> /\ pc = "collect" /\ at \in Commanded
    BY <1>4 DEF Collect, NumbersOK
  <2>2. /\ pc' = IF at = "position" THEN "collect" ELSE "enforce"
        /\ at' = IF at = "position" THEN "velocity" ELSE "position"
        /\ collected'.position = IF at # "position" THEN collected.position
                                 ELSE IF "position" \in claimed THEN command.position ELSE NoValue
    BY <1>4 DEF Collect, NumbersOK, Motions, Kinds, Commanded
  <2>3. "position" \in request.start => "position" \notin claimed
    BY DEF SwitchesInOrder
  <2> QED BY <2>1, <2>2, <2>3 DEF UnderWay, Commanded
<1>5. CASE Enforce
  <2>1. PICK checked : /\ checked = Limiter(collected)
                       /\ collected' = IF checked.enforced THEN checked.command ELSE NoData
                       /\ pc' = IF checked.throws THEN "terminated"
                                ELSE IF checked.enforced THEN "store" ELSE "switch"
    BY <1>5 DEF Enforce
  <2>2. UNCHANGED <<command, at, request>> /\ pc = "enforce"
    BY <1>5 DEF Enforce
  <2>3. collected.position = NoValue /\ ~checked.throws => checked.command.position = NoValue
    BY <2>1, NearResult DEF NumbersOK, IsNear
  <2> QED BY <2>1, <2>2, <2>3 DEF UnderWay
<1>6. CASE Store
  <2>1. UNCHANGED request /\ pc = "store" /\ at \in Commanded
    BY <1>6 DEF Store, NumbersOK
  <2>2. /\ pc' = IF at = "position" THEN "store" ELSE "switch"
        /\ collected'.position = IF at = "position" THEN NoValue ELSE collected.position
    BY <1>6 DEF Store, NumbersOK, Motions, Kinds, Commanded
  <2> QED BY <2>1, <2>2 DEF UnderWay, Commanded
<1>7. CASE EndCycle
  BY <1>7 DEF EndCycle
<1>8. CASE Read
  BY <1>8 DEF Read
<1>9. CASE \E start, stop \in SUBSET Commanded : RequestSwitch(start, stop)
  BY <1>9 DEF RequestSwitch, UnderWay
<1>10. CASE PerformModeSwitch
  <2>1. UNCHANGED <<command, pc, at, collected>> /\ request' = [request EXCEPT !.stage = "mode"]
    BY <1>10 DEF PerformModeSwitch
  <2>2. request.stage = "ready" \/ pc = "switch"
    BY <1>10 DEF PerformModeSwitch
  <2>3. request'.start = request.start
    BY <2>1 DEF SwitchesInOrder
  <2> QED BY <2>1, <2>2, <2>3 DEF UnderWay
<1>11. CASE SwitchControllers
  <2>1. request'.stage = "none" /\ UNCHANGED <<command, at, collected>> /\ pc' \in {pc, "read"}
    BY <1>11 DEF SwitchControllers, NoRequest
  <2> QED BY <2>1 DEF UnderWay
<1> QED BY <1>1, <1>2, <1>3, <1>4, <1>5, <1>6, <1>7, <1>8, <1>9, <1>10, <1>11
        DEF CommandPathNext, LoopStep, ServiceStep

\* Staying where the joint is, is a bounded step.
LEMMA StayIsBounded ==
    ASSUME setup \in Setups, NEW position \in Int PROVE StepIsBounded(position, position)
<1>1. setup.limits.max_velocity \in Nat /\ position - position = 0
  BY CommandPathAssumption DEF IsSetup
<1> QED BY <1>1, NoNumberAssumption DEF StepIsBounded, AbsoluteOf, Less

\* The update of the position controller starts from where the joint is.
LEMMA UpdateIsNear ==
    ASSUME NumbersOK, StepsChecked, setup.soft = NoValue, mode = "position",
           NEW k \in Commanded, UpdateController(k)
    PROVE  StepsChecked'
<1>1. PICK value \in setup.targets[k] :
          LET checked == SetLimited(k, value) IN
          /\ memory' = checked.memory
          /\ IF checked.throws
             THEN failed' = failed \cup {k} /\ UNCHANGED <<command, fresh>>
             ELSE /\ command' = [command EXCEPT ![k] = checked.command[k]]
                  /\ fresh' = fresh \cup {k}
                  /\ UNCHANGED failed
  BY DEF UpdateController
<1>2. /\ UNCHANGED <<setup, actual, mode, pc, collected>> /\ pc = "update"
      /\ k \in due /\ due' = due \ {k}
  BY DEF UpdateController
<1> DEFINE desired == [NoData EXCEPT ![k] = value]
           checked == SetLimited(k, value)
<1>3. value \in Int
  BY CommandPathAssumption DEF IsSetup, Commanded, NumbersOK
<1>4. desired \in Motions /\ desired.position = IF k = "position" THEN value ELSE NoValue
  BY <1>3 DEF Motions, NoData, Kinds, Values, Commanded
<1>5. checked = Limiter(desired)
  BY DEF SetLimited
<1> HIDE DEF desired
<1>6. IsNear(checked, desired.position)
  BY <1>4, <1>5, NearResult DEF NumbersOK
<1> HIDE DEF checked
<1>7. actual.position \in Int /\ StepIsBounded(actual.position, actual.position)
  BY StayIsBounded DEF NumbersOK, IsPlaced
<1>8. CASE k = "position"
  <2>1. memory.position # NoValue => memory.position = actual.position
    BY <1>2, <1>8 DEF StepsChecked, IsRemembered
  <2>2. Reference = actual.position /\ Given(desired.position)
    BY <1>3, <1>4, <1>8, <2>1, NoNumberAssumption DEF Reference, Given
  <2>3. CASE checked.throws
    <3>1. UNCHANGED <<command, fresh>> /\ "position" \in failed' /\ "position" \notin due'
      BY <1>1, <1>2, <1>8, <2>3 DEF checked
    <3>2. memory'.position \in {NoValue, actual.position}
      BY <1>1, <1>6, <2>1, <2>3 DEF IsNear, RemembersNothing, checked
    <3> QED BY <1>2, <1>7, <3>1, <3>2 DEF StepsChecked, IsRemembered, StepIsBounded, Inside,
                                          PositionLimits
  <2>4. CASE ~checked.throws
    <3>1. command'.position = checked.command.position /\ memory'.position = checked.command.position
      BY <1>1, <1>6, <1>8, <2>2, <2>4 DEF IsNear, checked, NumbersOK, Commanded
    <3>2. checked.command.position \in Int /\ StepIsBounded(actual.position, checked.command.position)
      BY <1>6, <2>2, <2>4 DEF IsNear
    <3>3. "position" \notin due' /\ Given(command'.position) /\ Waiting' = command'.position
      BY <1>2, <1>8, <3>1, <3>2, NoNumberAssumption DEF Given, Waiting
    <3> QED BY <1>2, <3>1, <3>2, <3>3 DEF StepsChecked, IsRemembered, StepIsBounded, Inside,
                                          PositionLimits
  <2> QED BY <2>3, <2>4
<1>9. CASE k = "velocity"
  <2>1. memory'.position = memory.position
    BY <1>1, <1>4, <1>6, <1>9 DEF IsNear, checked
  <2>2. command'.position = command.position
    BY <1>1, <1>9 DEF NumbersOK, Commanded
  <2>3. /\ "position" \in fresh' <=> "position" \in fresh
        /\ "position" \in failed' <=> "position" \in failed
        /\ "position" \in due' <=> "position" \in due
    BY <1>1, <1>2, <1>9
  <2> QED BY <1>2, <2>1, <2>2, <2>3 DEF StepsChecked, IsRemembered, Waiting, StepIsBounded,
                                        Inside, PositionLimits
<1> QED BY <1>8, <1>9 DEF Commanded

\* The check of the loop lets through what the limiter let through before.
LEMMA EnforceIsNear ==
    ASSUME NumbersOK, PositionsChecked, CheckInOrder, StepsChecked, setup.soft = NoValue,
           mode = "position", Enforce
    PROVE  StepsChecked'
<1>1. PICK checked :
        /\ checked = Limiter(collected)
        /\ memory' = checked.memory
        /\ collected' = IF checked.enforced THEN checked.command ELSE NoData
        /\ pc' = IF checked.throws THEN "terminated"
                 ELSE IF checked.enforced THEN "store" ELSE "switch"
        /\ fresh' = IF checked.throws \/ checked.enforced THEN fresh
                    ELSE fresh \cup { k \in claimed : Given(command[k]) /\ command[k] = collected[k] }
  BY DEF Enforce
<1>2. pc = "enforce" /\ UNCHANGED <<setup, command, actual, mode>>
  BY DEF Enforce
<1>3. IsNear(checked, collected.position)
  BY <1>1, NearResult DEF NumbersOK
<1>4. ~checked.throws /\ ~checked.enforced => checked.command = collected
  BY <1>1, LimiterResult DEF NumbersOK
<1>5. /\ command.position \in Int \cup {NaN} /\ actual.position \in Int
      /\ collected.position \in {NoValue, command.position}
  BY <1>2 DEF NumbersOK, IsPlaced, CheckInOrder, Commanded
<1>6. memory.position # NoValue =>
        /\ StepIsBounded(actual.position, memory.position)
        /\ memory.position = IF Given(command.position) THEN command.position ELSE actual.position
  BY <1>2 DEF StepsChecked, IsRemembered, Waiting
<1>7. "position" \in fresh /\ Given(command.position) => StepIsBounded(actual.position, command.position)
  BY <1>2 DEF StepsChecked
<1>8. SUFFICES ASSUME ~checked.throws PROVE StepsChecked'
  BY <1>1 DEF StepsChecked
<1>9. /\ pc' = IF checked.enforced THEN "store" ELSE "switch"
      /\ pc' = "store" => collected' = checked.command
      /\ "position" \in fresh' => \/ "position" \in fresh
                                  \/ ~checked.enforced /\ command.position = collected.position
  BY <1>1, <1>8
<1>10. StepIsBounded(actual.position, actual.position)
  BY <1>5, StayIsBounded DEF NumbersOK
<1> DEFINE x == checked.command.position
           Bounded(y) == StepIsBounded(actual.position, y)
<1>11. ASSUME NEW y PROVE StepIsBounded(actual.position, y)' <=> Bounded(y)
  BY <1>2 DEF StepIsBounded, Inside, PositionLimits
<1>12. Waiting' = IF checked.enforced /\ x # NoValue THEN x ELSE command.position
  BY <1>2, <1>9 DEF Waiting
<1>13. SUFFICES
         /\ memory'.position # NoValue =>
              /\ Bounded(memory'.position)
              /\ memory'.position = IF Given(Waiting') THEN Waiting' ELSE actual.position
         /\ "position" \in fresh' /\ Given(command.position) => Bounded(command.position)
         /\ checked.enforced /\ Given(x) => Bounded(x)
  BY <1>2, <1>9, <1>11 DEF StepsChecked, IsRemembered
<1> HIDE DEF Bounded
<1>14. CASE collected.position = NoValue
  <2>1. x = NoValue /\ memory'.position = memory.position
    BY <1>1, <1>3, <1>8, <1>14 DEF IsNear
  <2> QED BY <1>5, <1>6, <1>7, <1>9, <1>12, <1>14, <2>1, NoNumberAssumption DEF Bounded, Given
<1>15. CASE collected.position = NaN
  <2>1. x = NaN /\ command.position = NaN
    BY <1>3, <1>5, <1>8, <1>15, NoNumberAssumption DEF IsNear
  <2>2. memory'.position \in {NoValue, actual.position}
    BY <1>1, <1>3, <1>6, <1>15, <2>1 DEF IsNear, RemembersNothing, Given
  <2> QED BY <1>10, <1>12, <2>1, <2>2, NoNumberAssumption DEF Bounded, Given
<1>16. CASE Given(collected.position)
  <2>1. collected.position = command.position /\ Given(command.position)
    BY <1>5, <1>16 DEF Given
  <2>2. x \in Int /\ memory'.position = x /\ StepIsBounded(Reference, x)
        /\ (Inside(Reference) /\ collected.position = Reference => x = Reference)
    BY <1>1, <1>3, <1>8, <1>16 DEF IsNear
  <2>3. Bounded(x)
    <3>1. CASE memory.position = NoValue
      BY <2>2, <3>1 DEF Reference, Bounded
    <3>2. CASE memory.position # NoValue
      <4>1. Reference = command.position /\ Bounded(command.position)
        BY <1>6, <2>1, <3>2 DEF Reference, Bounded
      <4>2. Inside(command.position)
        BY <2>1 DEF PositionsChecked, MayBe
      <4> QED BY <2>1, <2>2, <4>1, <4>2
    <3> QED BY <3>1, <3>2
  <2>4. ~checked.enforced => x = command.position
    BY <1>4, <1>8, <2>1
  <2>5. Given(x) /\ x # NoValue
    BY <2>2, NoNumberAssumption DEF Given
  <2>6. Waiting' = x
    BY <1>12, <2>4, <2>5
  <2>7. "position" \in fresh' => Bounded(command.position)
    BY <1>7, <1>9, <2>1, <2>3, <2>4 DEF Bounded
  <2> QED BY <2>2, <2>3, <2>5, <2>6, <2>7
<1> QED BY <1>14, <1>15, <1>16 DEF Given

\* Every step keeps checked steps bounded.
LEMMA StepsStep ==
    ASSUME NumbersOK, PositionsChecked, SwitchesInOrder, CheckInOrder, StepsChecked,
           \A s \in Setups : s.soft = NoValue, CommandPathNext
    PROVE  StepsChecked'
<1>a. setup.soft = NoValue
  BY DEF NumbersOK
<1> SUFFICES ASSUME mode' = "position", pc' # "terminated" PROVE StepsChecked'
  BY DEF StepsChecked
<1>1. ASSUME NEW k \in Commanded, UpdateController(k) PROVE StepsChecked'
  BY <1>a, <1>1, UpdateIsNear DEF UpdateController
<1>2. ASSUME NEW k \in Commanded PROVE ~TriggerController(k) /\ ~AsyncStep(k)
  BY DEF SwitchesInOrder, TriggerController, AsyncStep, CheckAsync, SetAsync
<1>3. CASE Enforce
  BY <1>a, <1>3, EnforceIsNear DEF Enforce
<1> USE DEF StepIsBounded, Inside, PositionLimits
<1>4. CASE EndUpdates
  <2>1. /\ UNCHANGED <<setup, command, actual, mode, fresh>> /\ pc = "update"
        /\ pc' # "store" /\ pc' # "update"
    BY <1>4 DEF EndUpdates
  <2>2. memory'.position = NoValue \/ (memory' = memory /\ "position" \notin failed)
    BY <1>4 DEF EndUpdates, SwitchesInOrder, NoData, Kinds
  <2> QED BY <2>1, <2>2 DEF StepsChecked, IsRemembered, Waiting
<1>5. CASE Collect
  BY <1>5 DEF Collect, StepsChecked, IsRemembered, Waiting
<1>6. CASE Store
  <2>1. UNCHANGED <<setup, actual, mode, memory>> /\ pc = "store" /\ pc' \in {"store", "switch"}
    BY <1>6 DEF Store
  <2>2. command'.position = IF at = "position" /\ collected.position # NoValue
                            THEN collected.position ELSE command.position
    BY <1>6 DEF Store, NumbersOK, Commanded
  <2>3. /\ collected'.position = IF at = "position" THEN NoValue ELSE collected.position
        /\ at = "velocity" => collected.position = NoValue
    BY <1>6, <2>1 DEF Store, NumbersOK, Motions, Kinds, Commanded, CheckInOrder
  <2>4. at \in Commanded
    BY DEF NumbersOK
  <2>5. Waiting' = Waiting
    BY <2>1, <2>2, <2>3, <2>4 DEF Waiting, Commanded
  <2>6. "position" \in fresh' /\ at = "position" /\ collected.position # NoValue
        => Given(collected.position)
    BY <1>6 DEF Store, NotNumbers, Commanded
  <2>7. "position" \in fresh' /\ ~(at = "position" /\ collected.position # NoValue)
        => "position" \in fresh
    BY <1>6, <2>4 DEF Store, Commanded
  <2> QED BY <2>1, <2>2, <2>3, <2>4, <2>5, <2>6, <2>7 DEF StepsChecked, IsRemembered, Given, Commanded
<1>7. CASE EndCycle
  BY <1>7 DEF EndCycle, StepsChecked, IsRemembered, Waiting
<1>8. CASE Read
  <2>1. /\ UNCHANGED <<setup, command, mode, memory, failed, collected>> /\ pc = "read"
        /\ fresh' = {} /\ pc' = "update" /\ actual' = Moved
    BY <1>8 DEF Read
  <2>2. actual'.position = IF command.position = NaN THEN actual.position ELSE command.position
    BY <2>1 DEF Moved, NumbersOK, Motions, Kinds
  <2>3. command.position \in Int \cup {NaN} /\ actual.position \in Int
    BY DEF NumbersOK, IsPlaced, Commanded
  <2>4. Given(command.position) <=> command.position # NaN
    BY <2>3, NoNumberAssumption DEF Given
  <2>5. memory.position # NoValue => memory.position = actual'.position
    BY <2>1, <2>2, <2>4 DEF StepsChecked, IsRemembered, Waiting
  <2>6. StepIsBounded(actual.position, actual.position)'
    <3>1. actual'.position \in Int
      BY <2>2, <2>3
    <3>2. StepIsBounded(actual'.position, actual'.position)
      BY <3>1, StayIsBounded DEF NumbersOK
    <3> QED BY <2>1, <3>2
  <2>7. Waiting' = command.position
    BY <2>1 DEF Waiting
  <2>8. memory.position # NoValue =>
          actual'.position = IF Given(command.position) THEN command.position ELSE actual'.position
    BY <2>2, <2>4
  <2> QED BY <2>1, <2>5, <2>6, <2>7, <2>8 DEF StepsChecked, IsRemembered
<1>9. CASE \E start, stop \in SUBSET Commanded : RequestSwitch(start, stop)
  BY <1>9 DEF RequestSwitch, StepsChecked, IsRemembered, Waiting
<1>10. CASE PerformModeSwitch
  <2>1. UNCHANGED <<setup, command, actual, pc, at, collected>> /\ fresh' = {}
        /\ memory'.position = NoValue
    BY <1>10 DEF PerformModeSwitch, reset_internals, NoData, Kinds
  <2>2. mode' = IF request.start = {} THEN mode ELSE CHOOSE k \in request.start : TRUE
    BY <1>10 DEF PerformModeSwitch
  <2>3. mode = "position" \/ "position" \in request.start
    BY <2>2
  <2>4. pc = "store" => UnderWay
    BY <1>10 DEF PerformModeSwitch, UnderWay
  <2>5. pc = "store" /\ "position" \in request.start => collected.position = NoValue
    BY <2>4 DEF CheckInOrder, PositionIsRead
  <2> QED BY <2>1, <2>3, <2>5 DEF StepsChecked, Given
<1>11. CASE SwitchControllers
  <2>1. /\ UNCHANGED <<setup, command, actual, mode, memory, failed, collected, fresh>>
        /\ due' \subseteq due
        /\ pc' = pc \/ (pc = "switch" /\ pc' = "read")
    BY <1>11 DEF SwitchControllers, SwitchesInOrder, UnderWay
  <2> QED BY <2>1 DEF StepsChecked, IsRemembered, Waiting
<1> QED BY <1>1, <1>2, <1>3, <1>4, <1>5, <1>6, <1>7, <1>8, <1>9, <1>10, <1>11
        DEF CommandPathNext, LoopStep, ServiceStep

\* What holds as long as every controller is updated in the loop.
StepIInv ==
    /\ PathIInv
    /\ setup.async = {} => SwitchesInOrder /\ CheckInOrder /\ StepsChecked

\* Nothing is remembered and nothing under way at first.
LEMMA StepsInitially == CommandPathInit => StepIInv
<1> SUFFICES ASSUME CommandPathInit, setup.async = {}
             PROVE  SwitchesInOrder /\ CheckInOrder /\ StepsChecked
  BY PathInitially DEF StepIInv
<1>1. SwitchesInOrder
  BY DEF CommandPathInit, SwitchesInOrder, UnderWay, NoRequest, NoTask, Commanded
<1>2. CheckInOrder
  BY DEF CommandPathInit, CheckInOrder, PositionIsRead, UnderWay, NoRequest
<1>3. StepsChecked
  BY DEF CommandPathInit, StepsChecked, NoData, Kinds
<1> QED BY <1>1, <1>2, <1>3

\* The invariant is inductive, for joints without soft limits.
LEMMA StepsInductive ==
    ASSUME \A s \in Setups : s.soft = NoValue, StepIInv, [CommandPathNext]_vars
    PROVE  StepIInv'
<1>1. PathIInv'
  BY PathStep DEF StepIInv
<1>2. CASE CommandPathNext
  <2>1. setup' = setup
    BY <1>2 DEF CommandPathNext, LoopStep, AsyncStep, ServiceStep, UpdateController,
                TriggerController, CheckAsync, SetAsync, EndUpdates, Collect, Enforce, Store,
                EndCycle, Read, RequestSwitch, PerformModeSwitch, SwitchControllers
  <2>2. NumbersOK /\ PositionsChecked
    BY DEF StepIInv, PathIInv
  <2> QED BY <1>1, <1>2, <2>1, <2>2, SwitchesStep, CheckStep, StepsStep DEF StepIInv
<1>3. CASE UNCHANGED vars
  <2> USE <1>3 DEF vars
  <2>1. SwitchesInOrder => SwitchesInOrder'
    BY DEF SwitchesInOrder, UnderWay
  <2>2. CheckInOrder => CheckInOrder'
    BY DEF CheckInOrder, PositionIsRead, UnderWay
  <2>3. StepsChecked => StepsChecked'
    BY DEF StepsChecked, IsRemembered, Waiting, StepIsBounded, Inside, PositionLimits
  <2> QED BY <1>1, <2>1, <2>2, <2>3 DEF StepIInv
<1> QED BY <1>2, <1>3

(* If no joint has soft limits, a checked position moves the joint by no   *)
(* more than its largest velocity, or puts it back to its limits: whoever  *)
(* was started and stopped, and whatever was commanded and left before.    *)

THEOREM CheckedStepsAreBounded ==
    ASSUME \A s \in Setups : s.soft = NoValue
    PROVE  CommandPathSpec => CheckedStepIsBounded
<1> DEFINE Bounded == /\ setup.async = {}
                      /\ pc = "read" /\ mode = "position" /\ "position" \in fresh
                      => StepIsBounded(actual.position, actual'.position)
<1>1. ASSUME StepIInv, CommandPathNext PROVE Bounded
  <2> SUFFICES ASSUME setup.async = {}, pc = "read", mode = "position", "position" \in fresh
               PROVE  StepIsBounded(actual.position, actual'.position)
    OBVIOUS
  <2>1. NumbersOK /\ StepsChecked
    BY <1>1 DEF StepIInv, PathIInv
  <2>2. actual.position \in Int /\ StepIsBounded(actual.position, actual.position)
    BY <2>1, StayIsBounded DEF NumbersOK, IsPlaced
  <2>3. CASE UNCHANGED actual
    BY <2>2, <2>3
  <2>4. CASE Read
    <3>1. actual'.position = IF command.position = NaN THEN actual.position ELSE command.position
      BY <2>1, <2>4 DEF Read, Moved, NumbersOK, Motions, Kinds
    <3>2. command.position \in Int \cup {NaN}
      BY <2>1 DEF NumbersOK, Commanded
    <3>3. command.position # NaN => StepIsBounded(actual.position, command.position)
      BY <2>1, <3>2, NoNumberAssumption DEF StepsChecked, Given
    <3> QED BY <2>2, <3>1, <3>3
  <2>5. Read \/ UNCHANGED actual
    BY <1>1 DEF CommandPathNext, LoopStep, AsyncStep, ServiceStep, UpdateController,
                TriggerController, CheckAsync, SetAsync, EndUpdates, Collect, Enforce, Store,
                EndCycle, RequestSwitch, PerformModeSwitch, SwitchControllers
  <2> QED BY <2>3, <2>4, <2>5
<1>2. CheckedStepIsBounded <=> [][Bounded]_vars
  BY DEF CheckedStepIsBounded
<1> QED BY <1>1, <1>2, StepsInitially, StepsInductive, PTL DEF CommandPathSpec
=============================================================================
