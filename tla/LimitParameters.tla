--------------------------- MODULE LimitParameters ---------------------------
(***************************************************************************)
(* The limits of one joint as a limiter takes them from the parameters of  *)
(* its node: read once by JointLimiterInterface::init, checked by the      *)
(* callback it registers whenever parameters are set, and taken over by    *)
(* the next call of enforce, which runs in another thread.                 *)
(*                                                                         *)
(* The number of a kind other than the position bears the name of the      *)
(* kind: "velocity" is max_velocity.  Changes of parameters are records    *)
(* [isFlag, name, value].                                                  *)
(***************************************************************************)
EXTENDS Integers, Sequences

CONSTANTS OtherKinds,     \* of "velocity", "acceleration", "deceleration", "jerk", "effort"
          Values,         \* the numbers a parameter is set to
          NoNumber        \* not a number

VARIABLES parameters,     \* of the node
          updated_limits, \* what enforce will take over
          joint_limits,   \* what enforce uses
          patient         \* each change was of one parameter, and awaited the one before

parameter_vars == <<parameters, updated_limits, joint_limits, patient>>

NumbersOf(kind) == IF kind = "position" THEN {"min_position", "max_position"} ELSE {kind} \ {"angle"}
Flags == {"position", "angle"} \cup OtherKinds
NumberNames == UNION { NumbersOf(kind) : kind \in Flags }
Limits == [number : [NumberNames -> Values \cup {NoNumber}], has : SUBSET Flags]

\* declare_parameters gives each parameter a value, so all of them exist.
get_joint_limits(p) ==
    [number |-> [n \in NumberNames |-> IF \E kind \in p.has : n \in NumbersOf(kind)
                                       THEN p.number[n] ELSE NoNumber],
     has |-> p.has \ (IF "position" \in p.has THEN {"angle"} ELSE {})]

-----------------------------------------------------------------------------
(* check_for_limits_update: the numbers first, then the flags.             *)

IsUnusable(limits, flag) ==
    \/ \E n \in NumbersOf(flag) : limits.number[n] = NoNumber
    \/ flag = "position" /\ limits.number["min_position"] >= limits.number["max_position"]
    \/ flag = "angle" /\ "position" \in limits.has

\* Mutant: the number is compared when it has been stored.
StoreNumber(state, change) ==
    IF change.isFlag THEN state
    ELSE [limits |-> [state.limits EXCEPT !.number[change.name] = change.value], changed |-> FALSE]

\* The latest number decides whether something has changed.
TakeNumber(state, change) ==
    IF change.isFlag THEN state
    ELSE [limits |-> [state.limits EXCEPT !.number[change.name] = change.value],
          changed |-> \/ change.value = NoNumber
                      \/ state.limits.number[change.name] # change.value]

TakeFlag(state, change) ==
    LET without == state.limits.has \ {change.name}
        unusable == change.value /\ IsUnusable(state.limits, change.name)
        silent == IF change.value THEN unusable ELSE change.name = "position"
        has == IF change.value /\ ~unusable THEN without \cup {change.name} ELSE without
    IN  IF ~change.isFlag THEN state
        ELSE [limits |-> [state.limits EXCEPT !.has = has], changed |-> state.changed \/ ~silent]

check_for_limits_update(changes, limits) ==
    LET numbers[k \in 0 .. Len(changes)] ==
          IF k = 0 THEN [limits |-> limits, changed |-> FALSE] ELSE TakeNumber(numbers[k - 1], changes[k])
        flags[k \in 0 .. Len(changes)] ==
          IF k = 0 THEN numbers[Len(changes)] ELSE TakeFlag(flags[k - 1], changes[k])
    IN  flags[Len(changes)]

-----------------------------------------------------------------------------
ParametersInit ==
    /\ parameters \in Limits
    /\ joint_limits = get_joint_limits(parameters)
    /\ updated_limits = joint_limits
    /\ patient = TRUE

\* The node accepts every change: the callback always reports success.
SetOne(p, c) ==
    IF ~c.isFlag THEN [p EXCEPT !.number[c.name] = c.value]
    ELSE [p EXCEPT !.has = IF c.value THEN @ \cup {c.name} ELSE @ \ {c.name}]

Set(p, changes) ==
    LET after[k \in 0 .. Len(changes)] == IF k = 0 THEN p ELSE SetOne(after[k - 1], changes[k])
    IN  after[Len(changes)]

Callback(changes, base) ==
    LET result == check_for_limits_update(changes, base)
    IN  /\ parameters' = Set(parameters, changes)
        /\ updated_limits' = IF result.changed THEN result.limits ELSE updated_limits
        /\ patient' = (patient /\ Len(changes) = 1 /\ joint_limits = updated_limits)

SetParameters(changes) == Callback(changes, joint_limits) /\ UNCHANGED joint_limits

enforce ==
    /\ joint_limits' = updated_limits
    /\ UNCHANGED <<parameters, updated_limits, patient>>

\* The callback copies the limits without a lock while enforce stores them: of those
\* that differ it finds "stored" as they are afterwards, the others as before.
SetWhileEnforced(changes) ==
    LET numbers == { n \in NumberNames : joint_limits.number[n] # updated_limits.number[n] }
        flags == { f \in Flags : (f \in joint_limits.has) # (f \in updated_limits.has) }
    IN  /\ joint_limits # updated_limits
        /\ joint_limits' = updated_limits
        /\ \E stored \in SUBSET numbers, has \in SUBSET flags :
              Callback(changes,
                       [number |-> [n \in NumberNames |-> IF n \in stored THEN updated_limits.number[n]
                                                         ELSE joint_limits.number[n]],
                        has |-> (joint_limits.has \ flags) \cup has])

Changes ==
    { [isFlag |-> FALSE, name |-> n, value |-> v] : n \in NumberNames, v \in Values }
        \cup { [isFlag |-> TRUE, name |-> f, value |-> b] : f \in Flags, b \in BOOLEAN }

ParametersNext ==
    \/ \E c \in Changes : SetParameters(<<c>>)
    \/ \E c, d \in Changes : SetParameters(<<c, d>>)
    \/ \E c \in Changes : SetWhileEnforced(<<c>>)
    \/ enforce

-----------------------------------------------------------------------------
(* Whoever changes one parameter at a time, and the next one when the last *)
(* has been taken over, has the limiter use the numbers of the parameters  *)
(* for each limit it enforces, and no limit the parameters do not have.    *)
(* The position is left out of the latter: has_position_limits = false is  *)
(* not reported as a change.                                               *)

LimitsAreTakenOver ==
    patient /\ joint_limits = updated_limits =>
        /\ joint_limits.has \subseteq parameters.has \cup {"position"}
        /\ \A kind \in joint_limits.has : \A n \in NumbersOf(kind) :
              joint_limits.number[n] = parameters.number[n]
=============================================================================
