--------------------------- MODULE AlgorithmProofs ---------------------------
(***************************************************************************)
(* Two of the parts of MCAlgorithms.                                       *)
(*                                                                         *)
(* UpdateRate, for every rate of the manager, every rate wanted, every     *)
(* length of a cycle and every jitter: the rates in use are possible, and  *)
(* the period given to an update stays near the nominal one.               *)
(*                                                                         *)
(* LimitParameters, for any limits and numbers: the limits that enforce    *)
(* uses are those of the parameters.                                       *)
(***************************************************************************)
EXTENDS UpdateRate, LimitParameters, TLAPS

RateSpec == RateInit /\ [][RateNext]_rate_vars

-----------------------------------------------------------------------------
(* Arithmetic.                                                             *)

\* Multiplication keeps the order.
LEMMA TimesOrder ==
    ASSUME NEW a \in Int, NEW b \in Int, NEW r \in Nat, a <= b
    PROVE  a * r <= b * r
  OBVIOUS

\* A rounded quotient of two positive numbers, of which the first is not smaller, is
\* between 1 and the first.
LEMMA RoundedRange ==
    ASSUME NEW a \in Nat \ {0}, NEW b \in Nat \ {0}, b <= a
    PROVE  Rounded(a, b) \in 1..a
  BY DEF Rounded

LEMMA QuotientRange ==
    ASSUME NEW a \in Nat \ {0}, NEW b \in 1..a
    PROVE  a \div b \in 1..a
  OBVIOUS

\* An update goes when the time left is at most half a cycle.
LEMMA GoesMeans ==
    ASSUME NEW m \in Nat \ {0}, NEW r \in Nat \ {0}, NEW e \in Int
    PROVE  Goes(m, r, e) <=> 2 * (e * r) + Period * r >= 2 * (m * Period)
  <1>1. /\ Period * r \in Nat \ {0}
        /\ (e + Period) * r = e * r + Period * r
        /\ e * r \in Int /\ m * Period \in Int
    BY UpdateRateAssumption
  <1>2. \A x \in Int, n \in Int, p \in Nat \ {0} :
            Distance(x - n) <= Distance(x + p - n) <=> 2 * x + p >= 2 * n
    BY DEF Distance
  <1>3. Distance(e * r - m * Period) <= Distance(e * r + Period * r - m * Period)
            <=> 2 * (e * r) + Period * r >= 2 * (m * Period)
    BY <1>1, <1>2
  <1>4. Distance((e + Period) * r - m * Period) = Distance(e * r + Period * r - m * Period)
    BY <1>1
  <1> HIDE DEF Distance
  <1> QED BY <1>3, <1>4 DEF Goes

-----------------------------------------------------------------------------
(* The inductive invariant.  Time that has passed since the last update is *)
(* that of a controller which did not go in the latest cycle.              *)

Waits ==
    since # 0 => ~first /\ ~AtManagerRate /\ ~Goes(manager, rate, since)

RateIInv ==
    /\ manager \in ManagerRates /\ rate \in 1..manager
    /\ first \in BOOLEAN
    /\ offset \in -Jitter..Jitter /\ since \in Int /\ given \in Int
    /\ first => given = Unknown
    /\ Waits
    /\ GivenIsNominal

\* A controller keeps a possible rate when it is configured.
LEMMA ConfiguredIsPossible ==
    ASSUME NEW m \in ManagerRates, NEW wanted \in Nat, NEW now \in 1..m
    PROVE  Configured(m, wanted, now) \in 1..m
  <1>1. m \in Nat \ {0} BY UpdateRateAssumption
  <1>2. CASE wanted = 0 \/ wanted > now
    BY <1>1, <1>2 DEF Configured
  <1>3. CASE wanted # 0 /\ ~(wanted > now)
    <2>1. wanted \in Nat \ {0} /\ wanted <= m /\ wanted \in 1..m
      BY <1>1, <1>3
    <2>2. Rounded(m, wanted) \in 1..m
      BY <1>1, <2>1, RoundedRange
    <2>3. m \div Rounded(m, wanted) \in 1..m
      BY <1>1, <2>2, QuotientRange
    <2> QED BY <1>3, <2>1, <2>3 DEF Configured
  <1> QED BY <1>2, <1>3

\* The period given by an update that goes.
LEMMA GoodPeriod ==
    ASSUME RateIInv, ~first, NEW e \in Int,
           e <= since + Period + 2 * Jitter, e >= since + Period - 2 * Jitter,
           AtManagerRate \/ Goes(manager, rate, e)
    PROVE  2 * Distance(e * rate - manager * Period) <= (Period + 4 * Jitter) * rate
  <1> DEFINE N == manager * Period
             p == Period * rate
             q == Jitter * rate
             x == e * rate
  <1>0. /\ manager \in Nat \ {0} /\ rate \in Nat \ {0} /\ rate <= manager
        /\ Period \in Nat \ {0} /\ Jitter \in Nat /\ since \in Int
    BY UpdateRateAssumption DEF RateIInv
  <1>1. N \in Nat /\ p \in Nat /\ q \in Nat /\ x \in Int
    BY <1>0
  <1>2. (Period + 4 * Jitter) * rate = p + 4 * q
    BY <1>0
  <1>3. p <= N
    BY <1>0, TimesOrder
  <1>4. x <= (since + Period + 2 * Jitter) * rate
    BY <1>0, TimesOrder
  <1>5. x <= since * rate + p + 2 * q
    BY <1>0, <1>4
  <1>6. 2 * x <= 2 * N + p + 4 * q
    <2>1. CASE since = 0
      <3>1. since * rate = 0 BY <2>1, <1>0
      <3> HIDE DEF N, p, q, x
      <3> QED BY <1>1, <1>3, <1>5, <3>1
    <2>2. CASE since # 0
      <3>1. ~Goes(manager, rate, since)
        BY <2>2 DEF RateIInv, Waits
      <3>2. 2 * (since * rate) + p < 2 * N
        BY <3>1, <1>0, <1>1, GoesMeans
      <3>3. since * rate \in Int BY <1>0
      <3> HIDE DEF N, p, q, x
      <3> QED BY <1>1, <1>5, <3>2, <3>3
    <2> QED BY <2>1, <2>2
  <1>7. 2 * x >= 2 * N - p - 4 * q
    <2>1. CASE Goes(manager, rate, e)
      <3>1. 2 * x + p >= 2 * N
        BY <2>1, <1>0, GoesMeans
      <3> HIDE DEF N, p, q, x
      <3> QED BY <1>1, <3>1
    <2>2. CASE AtManagerRate
      <3>1. since = 0
        BY <2>2 DEF RateIInv, Waits
      <3>2. p = N
        BY <2>2, <1>0 DEF AtManagerRate
      <3>3. (Period - 2 * Jitter) * rate <= x
        BY <1>0, <3>1, TimesOrder
      <3>4. p - 2 * q <= x
        BY <1>0, <3>3
      <3> HIDE DEF N, p, q, x
      <3> QED BY <1>1, <3>2, <3>4
    <2> QED BY <2>1, <2>2
  <1>8. 2 * Distance(x - N) <= p + 4 * q
    <2> HIDE DEF N, p, q, x
    <2> QED BY <1>1, <1>6, <1>7 DEF Distance
  <1> QED BY <1>2, <1>8

-----------------------------------------------------------------------------
LEMMA RateInductive == RateIInv /\ [RateNext]_rate_vars => RateIInv'
  <1> SUFFICES ASSUME RateIInv, [RateNext]_rate_vars PROVE RateIInv'
    OBVIOUS
  <1>0. UpdateRateAssumption BY UpdateRateAssumption
  <1>1. ASSUME NEW late \in -Jitter..Jitter, RateCycle(late) PROVE RateIInv'
    <2> DEFINE e == since + Period + late - offset
               goes == first \/ AtManagerRate \/ Goes(manager, rate, e)
    <2>1. /\ e \in Int
          /\ e <= since + Period + 2 * Jitter /\ e >= since + Period - 2 * Jitter
      BY <1>1, UpdateRateAssumption DEF RateIInv
    <2>2. /\ first' = (first /\ ~goes)
          /\ since' = IF goes THEN 0 ELSE e
          /\ given' = IF first THEN Unknown ELSE IF goes THEN e ELSE given
          /\ offset' = late
          /\ UNCHANGED <<manager, subject, rate>>
      BY <1>1 DEF RateCycle
    <2>3. /\ manager' \in ManagerRates /\ rate' \in 1..manager'
          /\ first' = FALSE
          /\ offset' \in -Jitter..Jitter /\ since' \in Int /\ given' \in Int
      <3>1. first' = FALSE
        BY <2>2
      <3>2. since' \in {0, e} /\ given' \in {0, e, given}
        BY <2>2 DEF Unknown
      <3> HIDE DEF e
      <3> QED BY <1>1, <2>1, <2>2, <3>1, <3>2 DEF RateIInv
    <2>4. Waits'
      BY <2>2 DEF Waits, AtManagerRate
    <2>5. GivenIsNominal'
      <3>1. CASE first
        BY <3>1, <2>2 DEF GivenIsNominal, Unknown
      <3>2. CASE ~first /\ ~goes
        BY <3>2, <2>2 DEF RateIInv, GivenIsNominal
      <3>3. CASE ~first /\ goes
        <4>1. 2 * Distance(e * rate - manager * Period) <= (Period + 4 * Jitter) * rate
          BY <3>3, <2>1, GoodPeriod
        <4>2. given' = e
          BY <3>3, <2>2
        <4> QED BY <4>1, <4>2, <2>2 DEF GivenIsNominal
      <3> QED BY <3>1, <3>2, <3>3
    <2> QED BY <2>3, <2>4, <2>5 DEF RateIInv
  <1>2. CASE Reactivate
    BY <1>2 DEF Reactivate, RateIInv, Waits, GivenIsNominal, Unknown
  <1>3. ASSUME NEW wanted \in 0..MaxRate, Reconfigure(wanted) PROVE RateIInv'
    <2>1. rate' \in 1..manager /\ wanted \in Nat
      BY <1>3, ConfiguredIsPossible, UpdateRateAssumption DEF Reconfigure, RateIInv
    <2>2. first /\ since = 0 /\ given = Unknown
      BY <1>3 DEF Reconfigure, RateIInv, Waits
    <2> QED BY <1>3, <2>1, <2>2 DEF Reconfigure, RateIInv, Waits, GivenIsNominal
  <1>4. CASE UNCHANGED rate_vars
    BY <1>4 DEF rate_vars, RateIInv, Waits, AtManagerRate, GivenIsNominal
  <1> QED BY <1>1, <1>2, <1>3, <1>4 DEF RateNext

\* The rates of controllers and components are those they can have, and the period an
\* update is given is off the nominal one by at most half a cycle and the jitter of two.
THEOREM UpdatesAreNominal == RateSpec => [](RateIsPossible /\ GivenIsNominal)
  <1>1. RateInit => RateIInv
    <2> SUFFICES ASSUME RateInit PROVE RateIInv
      OBVIOUS
    <2>1. rate \in 1..manager
      <3>1. PICK wanted \in 0..MaxRate :
              rate = IF subject = "controller" THEN Configured(manager, wanted, manager)
                     ELSE rw_rate(manager, wanted)
        BY DEF RateInit
      <3>2. manager \in ManagerRates /\ manager \in Nat \ {0} /\ wanted \in Nat
        BY UpdateRateAssumption DEF RateInit
      <3>3. Configured(manager, wanted, manager) \in 1..manager
        BY <3>2, ConfiguredIsPossible
      <3>4. rw_rate(manager, wanted) \in 1..manager
        BY <3>2 DEF rw_rate
      <3> QED BY <3>1, <3>3, <3>4
    <2> QED BY <2>1, UpdateRateAssumption DEF RateInit, RateIInv, Waits, GivenIsNominal, Unknown
  <1>2. RateIInv => RateIsPossible /\ GivenIsNominal
    BY DEF RateIInv, RateIsPossible
  <1> QED BY <1>1, <1>2, RateInductive, PTL DEF RateSpec

-----------------------------------------------------------------------------
(* Limits changed by parameters.                                           *)

ParametersSpec == ParametersInit /\ [][ParametersNext]_parameter_vars

\* A list of one change is checked by its number, if it is one, and then by its flag.
LEMMA OneChangeIsChecked ==
    ASSUME NEW c, NEW limits
    PROVE  check_for_limits_update(<<c>>, limits)
             = TakeFlag(TakeNumber([limits |-> limits, changed |-> FALSE], c), c)
<1> DEFINE start == [limits |-> limits, changed |-> FALSE]
           one == <<c>>
           numbersDef == CHOOSE f : f = [k \in 0 .. Len(one) |->
                             IF k = 0 THEN start ELSE TakeNumber(f[k - 1], one[k])]
           flagsDef == CHOOSE f : f = [k \in 0 .. Len(one) |->
                             IF k = 0 THEN numbersDef[Len(one)] ELSE TakeFlag(f[k - 1], one[k])]
<1>0. Len(one) = 1 /\ one[1] = c
  OBVIOUS
<1>1. numbersDef[Len(one)] = TakeNumber(start, c)
  <2> HIDE DEF start, one
  <2> DEFINE P(f) == f = [k \in 0 .. Len(one) |-> IF k = 0 THEN start ELSE TakeNumber(f[k - 1], one[k])]
             g == [k \in 0 .. 1 |-> IF k = 0 THEN start ELSE TakeNumber(start, c)]
  <2>1. P(g)
    BY <1>0
  <2>2. P(numbersDef)
    <3> HIDE DEF g
    <3> QED BY <2>1
  <2> HIDE DEF numbersDef
  <2>3. numbersDef[0] = start
    BY <2>2, <1>0
  <2> QED BY <2>2, <2>3, <1>0
<1>2. flagsDef[Len(one)] = TakeFlag(TakeNumber(start, c), c)
  <2> HIDE DEF numbersDef, start, one
  <2> DEFINE P(f) == f = [k \in 0 .. Len(one) |-> IF k = 0 THEN numbersDef[Len(one)] ELSE TakeFlag(f[k - 1], one[k])]
             g == [k \in 0 .. 1 |-> IF k = 0 THEN numbersDef[Len(one)] ELSE TakeFlag(numbersDef[Len(one)], c)]
  <2>1. P(g)
    BY <1>0
  <2>2. P(flagsDef)
    <3> HIDE DEF g
    <3> QED BY <2>1
  <2> HIDE DEF flagsDef
  <2>3. flagsDef[0] = numbersDef[Len(one)]
    BY <2>2, <1>0
  <2> QED BY <2>2, <2>3, <1>0, <1>1
<1>3. check_for_limits_update(one, limits) = flagsDef[Len(one)]
  <2> HIDE DEF one
  <2> QED BY DEF check_for_limits_update
<1> QED BY <1>2, <1>3

\* ... and set in the node's parameters.
LEMMA OneChangeIsSet == ASSUME NEW p, NEW c PROVE Set(p, <<c>>) = SetOne(p, c)
<1> DEFINE one == <<c>>
           afterDef == CHOOSE f : f = [k \in 0 .. Len(one) |-> IF k = 0 THEN p ELSE SetOne(f[k - 1], one[k])]
<1>0. Len(one) = 1 /\ one[1] = c
  OBVIOUS
<1>1. afterDef[Len(one)] = SetOne(p, c)
  <2> HIDE DEF one
  <2> DEFINE P(f) == f = [k \in 0 .. Len(one) |-> IF k = 0 THEN p ELSE SetOne(f[k - 1], one[k])]
             g == [k \in 0 .. 1 |-> IF k = 0 THEN p ELSE SetOne(p, c)]
  <2>1. P(g)
    BY <1>0
  <2>2. P(afterDef)
    <3> HIDE DEF g
    <3> QED BY <2>1
  <2> HIDE DEF afterDef
  <2>3. afterDef[0] = p
    BY <2>2, <1>0
  <2> QED BY <2>2, <2>3, <1>0
<1>2. Set(p, one) = afterDef[Len(one)]
  <2> HIDE DEF one
  <2> QED BY DEF Set
<1> QED BY <1>1, <1>2

\* The limits that enforce uses, or will take over, as long as each change was of one
\* parameter and awaited the one before: a number is that of the parameters, or not yet
\* known, and those of limits that are enforced are known.
FollowParameters(limits) ==
    /\ \A n \in NumberNames : limits.number[n] \in {NoNumber, parameters.number[n]}
    /\ \A kind \in limits.has : \A n \in NumbersOf(kind) : limits.number[n] = parameters.number[n]
    /\ limits.has \subseteq parameters.has \cup {"position"}

ParametersIInv ==
    /\ patient \in BOOLEAN
    /\ patient => /\ parameters \in Limits
                  /\ updated_limits \in Limits
                  /\ FollowParameters(updated_limits)

\* What a callback with one change does to limits of the parameters.
LEMMA OneChangeIsDone ==
    ASSUME patient, ParametersIInv, joint_limits = updated_limits, NEW c, SetParameters(<<c>>),
           NEW result, result = TakeFlag(TakeNumber([limits |-> joint_limits, changed |-> FALSE], c), c)
    PROVE  /\ parameters' = SetOne(parameters, c)
           /\ updated_limits' = IF result.changed THEN result.limits ELSE joint_limits
           /\ patient' = TRUE
           /\ joint_limits \in Limits /\ parameters \in Limits
           /\ FollowParameters(joint_limits)
<1> DEFINE one == <<c>>
<1>1. Len(one) = 1 /\ Set(parameters, one) = SetOne(parameters, c)
      /\ check_for_limits_update(one, joint_limits) = result
  BY OneChangeIsSet, OneChangeIsChecked
<1> HIDE DEF one
<1>2. SetParameters(one)
  BY DEF one
<1> QED BY <1>1, <1>2 DEF SetParameters, Callback, ParametersIInv

\* Limits with another number, and with other flags.
IsWithNumber(y, x, n, v) == y = [x EXCEPT !.number[n] = v]

LEMMA WithNumber ==
    ASSUME NEW x \in Limits, NEW n \in NumberNames, NEW v \in Values, NEW y, IsWithNumber(y, x, n, v)
    PROVE  /\ y \in Limits /\ y.has = x.has
           /\ \A m \in NumberNames : y.number[m] = IF m = n THEN v ELSE x.number[m]
<1>1. x.number \in [NumberNames -> Values \cup {NoNumber}] /\ x.has \in SUBSET Flags
      /\ x = [number |-> x.number, has |-> x.has]
  BY DEF Limits
<1>2. y = [number |-> [x.number EXCEPT ![n] = v], has |-> x.has]
  BY <1>1 DEF IsWithNumber
<1> QED BY <1>1, <1>2 DEF Limits

LEMMA WithFlags ==
    ASSUME NEW x \in Limits, NEW has \in SUBSET Flags, NEW y, y = [x EXCEPT !.has = has]
    PROVE  y \in Limits /\ y.has = has /\ y.number = x.number
  BY DEF Limits

\* A change of one number.
LEMMA NumberIsTaken ==
    ASSUME patient, ParametersIInv, joint_limits = updated_limits,
           NEW n \in NumberNames, NEW v \in Values,
           SetParameters(<<[isFlag |-> FALSE, name |-> n, value |-> v]>>)
    PROVE  ParametersIInv'
<1> DEFINE c == [isFlag |-> FALSE, name |-> n, value |-> v]
           result == TakeFlag(TakeNumber([limits |-> joint_limits, changed |-> FALSE], c), c)
<1>1. /\ parameters' = SetOne(parameters, c)
      /\ updated_limits' = IF result.changed THEN result.limits ELSE joint_limits
      /\ patient' = TRUE
      /\ joint_limits \in Limits /\ parameters \in Limits
      /\ FollowParameters(joint_limits)
  BY OneChangeIsDone
<1>2. /\ result.limits = [joint_limits EXCEPT !.number[n] = v]
      /\ ~result.changed => joint_limits.number[n] = v
  BY DEF TakeNumber, TakeFlag
<1>3. parameters' = [parameters EXCEPT !.number[n] = v]
  BY <1>1 DEF SetOne
<1> HIDE DEF result
<1>4. updated_limits' = [joint_limits EXCEPT !.number[n] = v]
  <2>1. ~result.changed => joint_limits = [joint_limits EXCEPT !.number[n] = v]
    BY <1>1, <1>2 DEF Limits
  <2> QED BY <1>1, <1>2, <2>1
<1>5. /\ updated_limits'.has = joint_limits.has /\ parameters'.has = parameters.has
      /\ \A m \in NumberNames : /\ updated_limits'.number[m] = IF m = n THEN v ELSE joint_limits.number[m]
                                /\ parameters'.number[m] = IF m = n THEN v ELSE parameters.number[m]
      /\ updated_limits' \in Limits /\ parameters' \in Limits
  <2>1. /\ updated_limits' \in Limits /\ updated_limits'.has = joint_limits.has
        /\ \A m \in NumberNames : updated_limits'.number[m] = IF m = n THEN v ELSE joint_limits.number[m]
    <3>1. IsWithNumber(updated_limits', joint_limits, n, v) /\ joint_limits \in Limits
      BY <1>1, <1>4 DEF IsWithNumber
    <3> QED BY <3>1, WithNumber
  <2>2. /\ parameters' \in Limits /\ parameters'.has = parameters.has
        /\ \A m \in NumberNames : parameters'.number[m] = IF m = n THEN v ELSE parameters.number[m]
    <3>1. IsWithNumber(parameters', parameters, n, v) /\ parameters \in Limits
      BY <1>1, <1>3 DEF IsWithNumber
    <3> QED BY <3>1, WithNumber
  <2> QED BY <2>1, <2>2
<1>6. \A kind \in joint_limits.has : NumbersOf(kind) \subseteq NumberNames
  BY <1>1 DEF Limits, NumberNames
<1>7. FollowParameters(updated_limits)'
  BY <1>1, <1>5, <1>6 DEF FollowParameters
<1> QED BY <1>1, <1>5, <1>7 DEF ParametersIInv

\* A change of one flag.
LEMMA FlagIsTaken ==
    ASSUME patient, ParametersIInv, joint_limits = updated_limits,
           NEW f \in Flags, NEW b \in BOOLEAN,
           SetParameters(<<[isFlag |-> TRUE, name |-> f, value |-> b]>>)
    PROVE  ParametersIInv'
<1> DEFINE c == [isFlag |-> TRUE, name |-> f, value |-> b]
           state == [limits |-> joint_limits, changed |-> FALSE]
           unusable == b /\ IsUnusable(joint_limits, f)
           silent == IF b THEN unusable ELSE f = "position"
           without == joint_limits.has \ {f}
           has == IF b /\ ~unusable THEN without \cup {f} ELSE without
           result == TakeFlag(TakeNumber(state, c), c)
<1>1. /\ parameters' = SetOne(parameters, c)
      /\ updated_limits' = IF result.changed THEN result.limits ELSE joint_limits
      /\ patient' = TRUE
      /\ joint_limits \in Limits /\ parameters \in Limits
      /\ FollowParameters(joint_limits)
  BY OneChangeIsDone
<1>2. /\ result.limits = [joint_limits EXCEPT !.has = has]
      /\ result.changed <=> ~silent
  BY DEF TakeNumber, TakeFlag
<1>3. parameters' = [parameters EXCEPT !.has = IF b THEN @ \cup {f} ELSE @ \ {f}]
  BY <1>1 DEF SetOne
<1> HIDE DEF result
<1>4. /\ parameters'.has = IF b THEN parameters.has \cup {f} ELSE parameters.has \ {f}
      /\ parameters'.number = parameters.number
      /\ parameters' \in Limits
  <2> DEFINE after == IF b THEN parameters.has \cup {f} ELSE parameters.has \ {f}
  <2>1. parameters' = [parameters EXCEPT !.has = after] /\ after \in SUBSET Flags
    BY <1>1, <1>3 DEF Limits
  <2> HIDE DEF after
  <2>2. parameters' \in Limits /\ parameters'.has = after /\ parameters'.number = parameters.number
    BY <1>1, <2>1, WithFlags
  <2> QED BY <2>2 DEF after
<1>5. CASE silent
  <2>1. updated_limits' = joint_limits
    BY <1>1, <1>2, <1>5
  <2>2. joint_limits.has \subseteq parameters'.has \cup {"position"}
    BY <1>1, <1>4, <1>5 DEF FollowParameters
  <2> QED BY <1>1, <1>4, <2>1, <2>2 DEF ParametersIInv, FollowParameters
<1>6. CASE ~silent
  <2>1. updated_limits' = [joint_limits EXCEPT !.has = has]
    BY <1>1, <1>2, <1>6
  <2>2. updated_limits'.has = has /\ updated_limits'.number = joint_limits.number /\ updated_limits' \in Limits
    BY <1>1, <2>1 DEF Limits
  <2>3. ASSUME b PROVE \A n \in NumbersOf(f) : joint_limits.number[n] = parameters.number[n]
    <3>1. \A n \in NumbersOf(f) : joint_limits.number[n] # NoNumber
      BY <1>6, <2>3 DEF IsUnusable
    <3>2. NumbersOf(f) \subseteq NumberNames
      BY DEF NumberNames
    <3> QED BY <1>1, <3>1, <3>2 DEF FollowParameters
  <2>4. FollowParameters(updated_limits)'
    BY <1>1, <1>4, <2>2, <2>3 DEF FollowParameters
  <2> QED BY <1>1, <1>4, <2>2, <2>4 DEF ParametersIInv
<1> QED BY <1>5, <1>6

LEMMA ParametersInductive == ParametersIInv /\ [ParametersNext]_parameter_vars => ParametersIInv'
<1> SUFFICES ASSUME ParametersIInv, [ParametersNext]_parameter_vars PROVE ParametersIInv'
  OBVIOUS
<1>1. ASSUME NEW c \in Changes, SetParameters(<<c>>) PROVE ParametersIInv'
  <2>1. CASE patient /\ joint_limits = updated_limits
    <3>1. CASE \E n \in NumberNames, v \in Values : c = [isFlag |-> FALSE, name |-> n, value |-> v]
      BY <1>1, <2>1, <3>1, NumberIsTaken
    <3>2. CASE \E f \in Flags, b \in BOOLEAN : c = [isFlag |-> TRUE, name |-> f, value |-> b]
      BY <1>1, <2>1, <3>2, FlagIsTaken
    <3> QED BY <3>1, <3>2 DEF Changes
  <2>2. CASE ~(patient /\ joint_limits = updated_limits)
    BY <1>1, <2>2 DEF SetParameters, Callback, ParametersIInv
  <2> QED BY <2>1, <2>2
<1>2. ASSUME NEW c \in Changes, NEW d \in Changes, SetParameters(<<c, d>>) PROVE ParametersIInv'
  <2> DEFINE two == <<c, d>>
  <2>1. Len(two) # 1 /\ SetParameters(two)
    BY <1>2
  <2> HIDE DEF two
  <2>2. patient' = FALSE
    BY <2>1 DEF SetParameters, Callback, ParametersIInv
  <2> QED BY <2>2 DEF ParametersIInv
<1>3. ASSUME NEW c \in Changes, SetWhileEnforced(<<c>>) PROVE ParametersIInv'
  BY <1>3 DEF SetWhileEnforced, Callback, ParametersIInv
<1>4. CASE enforce
  BY <1>4 DEF enforce, ParametersIInv, FollowParameters
<1>5. CASE UNCHANGED parameter_vars
  BY <1>5 DEF parameter_vars, ParametersIInv, FollowParameters
<1> QED BY <1>1, <1>2, <1>3, <1>4, <1>5 DEF ParametersNext

\* Whoever changes one parameter at a time, and the next when enforce has taken over the
\* last, has enforce use the numbers of the parameters and no other limits, for any kinds
\* of limits and any numbers.
THEOREM ParametersAreTakenOver == ParametersSpec => []LimitsAreTakenOver
<1>1. ParametersInit => ParametersIInv
  <2> SUFFICES ASSUME ParametersInit PROVE ParametersIInv
    OBVIOUS
  <2>1. updated_limits = get_joint_limits(parameters) /\ parameters \in Limits /\ patient = TRUE
    BY DEF ParametersInit
  <2>2. updated_limits \in Limits
    BY <2>1 DEF get_joint_limits, Limits
  <2>3. FollowParameters(updated_limits)
    <3>1. \A n \in NumberNames : updated_limits.number[n] =
              IF \E kind \in parameters.has : n \in NumbersOf(kind) THEN parameters.number[n] ELSE NoNumber
      BY <2>1 DEF get_joint_limits
    <3>2. updated_limits.has \subseteq parameters.has /\ parameters.has \subseteq Flags
      BY <2>1 DEF get_joint_limits, Limits
    <3>3. \A kind \in Flags : NumbersOf(kind) \subseteq NumberNames
      BY DEF NumberNames
    <3> QED BY <3>1, <3>2, <3>3 DEF FollowParameters
  <2> QED BY <2>1, <2>2, <2>3 DEF ParametersIInv
<1>2. ParametersIInv => LimitsAreTakenOver
  BY DEF ParametersIInv, FollowParameters, LimitsAreTakenOver
<1> QED BY <1>1, <1>2, ParametersInductive, PTL DEF ParametersSpec
=============================================================================
