----------------------------- MODULE CommandPath -----------------------------
(***************************************************************************)
(* The way of a command of one joint: a controller sets it through the     *)
(* limiter of the joint (LoanedCommandInterface, CommandInterface), the    *)
(* loop checks what is claimed once more (enforce_command_limits), and the *)
(* hardware, here the mock system with calculate_dynamics, moves the joint *)
(* by the command its mode selects.  Requests start and stop controllers   *)
(* and with them the mode.                                                 *)
(*                                                                         *)
(* A controller commands one interface, and is named after it.             *)
(***************************************************************************)
EXTENDS JointLimits, FiniteSets

CONSTANTS Setups,        \* limits, what controllers command, which are asynchronous, activate_asap
          MaxTries,      \* tries of LoanedCommandInterface::set_value
          JointEnd       \* bound: where the joint stops for good

\* A joint has the limits of a revolute joint of the URDF and may have soft limits within
\* them; it can move further than its limits, but not without end.
IsSetup(s) ==
    /\ {"position", "velocity"} \subseteq s.limits.has
    /\ {s.limits.min_position, s.limits.max_position} \subseteq -JointEnd..JointEnd
    /\ s.limits.min_position <= s.limits.max_position
    /\ {s.limits.max_velocity, s.limits.max_acceleration} \subseteq Nat
    /\ s.soft # NoValue =>
         /\ {s.soft.min_position, s.soft.max_position} \subseteq
                s.limits.min_position..s.limits.max_position
         /\ s.soft.min_position < s.soft.max_position
         /\ s.soft.k_position \in Int
    /\ \A k \in {"position", "velocity"} : s.targets[k] \subseteq Int

ASSUME CommandPathAssumption ==
    /\ MaxTries \in Nat \ {0}
    /\ JointEnd \in Nat /\ JointEnd < Infinity
    /\ \A s \in Setups : IsSetup(s)

VARIABLES setup,         \* one of Setups
          command,       \* the values of the command handles
          actual,        \* the values of the state handles
          mode,          \* joint_control_mode_ of the mock system
          memory,        \* prev_command_ of the limiter
          claimed,       \* the interfaces that active controllers hold
          due,           \* controllers still to be updated in this cycle
          failed,        \* controllers whose update threw
          pc, at,        \* what the loop does, and with which handle
          collected,     \* the commands enforce_command_limits has read or is to store
          task,          \* the set_value of each asynchronous controller
          request,       \* the switch under way
          fresh          \* history: commands checked since the joint last moved or changed mode

vars == <<setup, command, actual, mode, memory, claimed, due, failed, pc, at,
          collected, task, request, fresh>>

Commanded == {"position", "velocity"}
LoopSteps == {"read", "update", "collect", "enforce", "store", "switch", "terminated"}
NoRequest == [stage |-> "none", start |-> {}, stop |-> {}]
NoTask == [stage |-> "idle", wish |-> NoValue, value |-> NoValue, tries |-> 0, fresh |-> FALSE]
Switched == request.start \cup request.stop
Outdated == [k \in Commanded |-> [task[k] EXCEPT !.fresh = FALSE]]

CommandPathTypeOK ==
    /\ setup \in Setups
    /\ mode \in Commanded
    /\ claimed \subseteq Commanded /\ due \subseteq claimed /\ failed \subseteq Commanded
    /\ pc \in LoopSteps /\ at \in Commanded
    /\ actual.position \in -JointEnd..JointEnd
    /\ \A k \in Commanded : task[k].tries \in 0..(MaxTries - 1)
    /\ request.stage \in {"none", "asked", "ready", "mode"}
    /\ fresh \subseteq Commanded

-----------------------------------------------------------------------------
(* The mock system is configured: its states are 0, its commands unset.    *)

CommandPathInit ==
    /\ setup \in Setups
    /\ command = [k \in Commanded |-> NaN]
    /\ actual = [NoData EXCEPT !.position = 0, !.velocity = 0]
    /\ mode = "position"
    /\ memory = NoData
    /\ claimed = {} /\ due = {} /\ failed = {}
    /\ pc = "read" /\ at = "position"
    /\ collected = NoData
    /\ task = [k \in Commanded |-> NoTask]
    /\ request = NoRequest
    /\ fresh = {}

-----------------------------------------------------------------------------
(* import_joint_limiters: a joint with soft limits has a soft limiter.     *)

Limiter(desired) ==
    IF setup.soft = NoValue THEN RangeLimiter(setup.limits, actual, desired, memory)
    ELSE SoftLimiter(setup.limits, setup.soft, actual, desired, memory)

\* Mutant: the function is not bound to the interface.
SetUnlimited(k, value) == [Limiter([NoData EXCEPT ![k] = value]) EXCEPT !.command[k] = value]

\* bind_command_limiter_to_interface: the limiter sees the interface that is set.
SetLimited(k, value) == Limiter([NoData EXCEPT ![k] = value])

LoopHolds(k) == pc \in {"collect", "store"} /\ at = k

-----------------------------------------------------------------------------
(* The controllers                                                         *)

\* An exception of the limiter is one of the update that called set_value.
UpdateController(k) ==
    /\ pc = "update" /\ k \in due \ setup.async
    /\ due' = due \ {k}
    /\ \E checked \in { SetLimited(k, value) : value \in setup.targets[k] } :
       /\ memory' = checked.memory
       /\ IF checked.throws
          THEN failed' = failed \cup {k} /\ UNCHANGED <<command, fresh>>
          ELSE /\ command' = [command EXCEPT ![k] = checked.command[k]]
               /\ fresh' = fresh \cup {k}
               /\ UNCHANGED failed
    /\ UNCHANGED <<setup, actual, mode, claimed, pc, at, collected,
                   task, request>>

\* A run still under way is not triggered again.
TriggerController(k) ==
    /\ pc = "update" /\ k \in due \cap setup.async
    /\ due' = due \ {k}
    /\ IF task[k].stage # "idle" THEN UNCHANGED task
       ELSE \E value \in setup.targets[k] : task' = [task EXCEPT ![k].stage = "check", ![k].wish = value]
    /\ UNCHANGED <<setup, command, actual, mode, memory, claimed, failed, pc, at,
                   collected, request, fresh>>

\* set_limited_value: first the limiter ...
CheckAsync(k) ==
    /\ task[k].stage = "check"
    /\ \E checked \in { SetLimited(k, task[k].wish) } :
       /\ memory' = checked.memory
       /\ IF checked.throws
          THEN task' = [task EXCEPT ![k] = NoTask] /\ failed' = failed \cup {k}
          ELSE /\ task' = [task EXCEPT ![k].stage = "set", ![k].value = checked.command[k],
                                       ![k].fresh = TRUE]
               /\ UNCHANGED failed
    /\ UNCHANGED <<setup, command, actual, mode, claimed, due, pc, at, collected, request, fresh>>

GivesUp(tries) == tries = MaxTries

\* ... then the handle, if nobody holds it; if somebody does, all over again.
SetAsync(k) ==
    /\ task[k].stage = "set"
    /\ LET again == task[k].tries + 1 IN
       IF LoopHolds(k)
       THEN /\ task' = [task EXCEPT ![k] =
                         IF GivesUp(again) THEN NoTask
                         ELSE [NoTask EXCEPT !.stage = "check", !.wish = task[k].wish, !.tries = again]]
            /\ UNCHANGED <<command, fresh>>
       ELSE /\ command' = [command EXCEPT ![k] = task[k].value]
            /\ fresh' = IF task[k].fresh THEN fresh \cup {k} ELSE fresh \ {k}
            /\ task' = [task EXCEPT ![k] = NoTask]
    /\ UNCHANGED <<setup, actual, mode, memory, claimed, due, failed, pc, at,
                   collected, request>>

-----------------------------------------------------------------------------
(* The loop: ControllerManager::update                                     *)

\* Failed controllers are stopped; a stop is a mode switch, that resets the limiter.
\* The check is left out while set_component_state holds joint_limiters_lock_.
EndUpdates ==
    /\ pc = "update" /\ due = {}
    /\ LET stopped == failed \cap claimed IN
       /\ claimed' = claimed \ stopped
       /\ memory' = IF stopped = {} THEN memory ELSE NoData
    /\ failed' = {}
    /\ pc' \in {"collect", "switch"}
    /\ at' = "position"
    /\ collected' = NoData
    /\ UNCHANGED <<setup, command, actual, mode, due, task, request, fresh>>

\* update_joint_limiters_data: interfaces that are not claimed are left out.
Collect ==
    /\ pc = "collect"
    /\ collected' = [collected EXCEPT ![at] = IF at \in claimed THEN command[at] ELSE NoValue]
    /\ pc' = IF at = "position" THEN "collect" ELSE "enforce"
    /\ at' = IF at = "position" THEN "velocity" ELSE "position"
    /\ UNCHANGED <<setup, command, actual, mode, memory, claimed, due, failed, task, request, fresh>>

NotNumbers(data) == { k \in Commanded : ~Given(data[k]) }

\* Nothing catches what the limiter throws here.
Enforce ==
    /\ pc = "enforce"
    /\ \E checked \in { Limiter(collected) } :
       /\ memory' = checked.memory
       /\ collected' = IF checked.enforced THEN checked.command ELSE NoData
       /\ pc' = IF checked.throws THEN "terminated"
                ELSE IF checked.enforced THEN "store" ELSE "switch"
       /\ fresh' = IF checked.throws \/ checked.enforced THEN fresh
                   ELSE fresh \cup { k \in claimed : Given(command[k]) /\ command[k] = collected[k] }
    /\ UNCHANGED <<setup, command, actual, mode, claimed, due, failed, at, task, request>>

\* update_joint_limiters_commands
Store ==
    /\ pc = "store"
    /\ IF collected[at] = NoValue THEN UNCHANGED <<command, fresh>>
       ELSE /\ command' = [command EXCEPT ![at] = collected[at]]
            /\ fresh' = (fresh \ {at}) \cup ({at} \ NotNumbers(collected))
    /\ pc' = IF at = "position" THEN "store" ELSE "switch"
    /\ collected' = [collected EXCEPT ![at] = NoValue]
    /\ at' = IF at = "position" THEN "velocity" ELSE "position"
    /\ UNCHANGED <<setup, actual, mode, memory, claimed, due, failed, task, request>>

\* The end of update: a switch that must not wait is made by the loop, for
\* another the service is given the word; then the mock's write does nothing.
EndCycle ==
    /\ pc = "switch"
    /\ setup.asap => request.stage = "none"
    /\ pc' = "read"
    /\ request' = IF request.stage = "asked" THEN [request EXCEPT !.stage = "ready"] ELSE request
    /\ UNCHANGED <<setup, command, actual, mode, memory, claimed, due, failed, at,
                   collected, task, fresh>>

-----------------------------------------------------------------------------
(* GenericSystem::read: the joint moves as the command of its mode says.   *)

Placed(position) == Clamp(position, Symmetric(JointEnd))

Moved ==
    IF mode = "velocity"
    THEN LET v == IF command.velocity = NaN THEN actual.velocity ELSE command.velocity
         IN  [actual EXCEPT !.position = Placed(actual.position + v), !.velocity = v]
    ELSE IF command.position = NaN THEN actual
    ELSE [actual EXCEPT !.position = command.position,
                        !.velocity = command.position - actual.position]

\* Controllers of a switch under way are not updated, nor those whose cycle it is not.
Read ==
    /\ pc = "read"
    /\ actual' = Moved
    /\ fresh' = {}
    /\ task' = Outdated
    /\ due' \in SUBSET (claimed \ (IF ~setup.asap THEN Switched
                                   ELSE setup.async \cap request.stop))
    /\ pc' = "update"
    /\ UNCHANGED <<setup, command, mode, memory, claimed, failed, at, collected, request>>

-----------------------------------------------------------------------------
(* The services                                                            *)

\* Bound: the joint is commanded through one interface at a time; two at once
\* GenericSystem::prepare_command_mode_switch refuses.
RequestSwitch(start, stop) ==
    /\ request.stage = "none" /\ pc # "terminated"
    /\ start \cup stop # {}
    /\ start \cap claimed = {} /\ stop \subseteq claimed
    /\ Cardinality((claimed \ stop) \cup start) <= 1
    /\ request' = [stage |-> "asked", start |-> start, stop |-> stop]
    /\ UNCHANGED <<setup, command, actual, mode, memory, claimed, due, failed, pc, at,
                   collected, task, fresh>>

\* Mutant: the limiters keep what they remember.
KeepInternals == memory
reset_internals == NoData

\* perform_command_mode_switch; the asynchronous updates of those to stop are over.
PerformModeSwitch ==
    /\ \/ request.stage = "asked" /\ setup.asap /\ pc = "switch"
       \/ request.stage = "ready"
    /\ \A k \in request.stop : task[k].stage = "idle"
    /\ mode' = IF request.start = {} THEN mode ELSE CHOOSE k \in request.start : TRUE
    /\ memory' = reset_internals
    /\ request' = [request EXCEPT !.stage = "mode"]
    /\ fresh' = {}
    /\ task' = Outdated
    /\ UNCHANGED <<setup, command, actual, claimed, due, failed, pc, at, collected>>

\* The command stays as it was left.
SwitchControllers ==
    /\ request.stage = "mode"
    /\ claimed' = (claimed \ request.stop) \cup request.start
    /\ due' = due \ request.stop
    /\ request' = NoRequest
    /\ pc' = IF setup.asap THEN "read" ELSE pc
    /\ UNCHANGED <<setup, command, actual, mode, memory, failed, at, collected, task, fresh>>

-----------------------------------------------------------------------------
LoopStep ==
    \/ \E k \in Commanded : UpdateController(k) \/ TriggerController(k)
    \/ EndUpdates \/ Collect \/ Enforce \/ Store \/ EndCycle \/ Read

AsyncStep(k) == CheckAsync(k) \/ SetAsync(k)

ServiceStep ==
    \/ \E start, stop \in SUBSET Commanded : RequestSwitch(start, stop)
    \/ PerformModeSwitch
    \/ SwitchControllers

CommandPathNext == LoopStep \/ (\E k \in Commanded : AsyncStep(k)) \/ ServiceStep

CommandPathSpec == CommandPathInit /\ [][CommandPathNext]_vars

-----------------------------------------------------------------------------
(* Whoever sets it and whenever the loop checks it, a position command is  *)
(* within the limits of the joint.                                         *)

PositionIsInLimits ==
    Given(command.position) =>
        /\ setup.limits.min_position <= command.position
        /\ command.position <= setup.limits.max_position

(* A velocity command checked since the joint last moved does not take the *)
(* joint out of its position limits, if the limiter need not brake: with a *)
(* limited acceleration check_and_swap_limits lets it through.             *)

Inside(position) == setup.limits.min_position <= position /\ position <= setup.limits.max_position

CheckedVelocityStaysInside ==
    [][ /\ "acceleration" \notin setup.limits.has
        /\ pc = "read" /\ mode = "velocity" /\ "velocity" \in fresh
        /\ Inside(actual.position)
        => Inside(actual'.position) ]_vars

(* A checked position command moves the joint by no more than its largest  *)
(* velocity, whatever was switched before, or puts a joint that is out of  *)
(* its limits back to the nearest one.  (Asynchronous controllers: see the *)
(* README.)                                                                *)

PositionLimits == <<setup.limits.min_position, setup.limits.max_position>>

StepIsBounded(from, to) ==
    \/ AbsoluteOf(to - from) <= setup.limits.max_velocity
    \/ ~Inside(from) /\ to = Clamp(from, PositionLimits)

CheckedStepIsBounded ==
    [][ /\ setup.async = {}
        /\ pc = "read" /\ mode = "position" /\ "position" \in fresh
        => StepIsBounded(actual.position, actual'.position) ]_vars

(* A controller that commands one position and is updated again and again  *)
(* brings the joint there, or to the limit, or soft limit, that is nearest.*)

Reachable(position) ==
    LET bounds == IF setup.soft = NoValue THEN setup.limits ELSE setup.soft
    IN  Clamp(position, <<bounds.min_position, bounds.max_position>>)

Drives(k) == claimed = {k} /\ mode = k /\ request = NoRequest /\ Cardinality(setup.targets[k]) = 1

Arrived == \A value \in setup.targets.position : actual.position = Reachable(value)

UpdatedAgain(k) == []<>(k \in due) /\ []<>(k \notin due)

TargetIsReached == <>[]Drives("position") /\ UpdatedAgain("position") => <>[]Arrived
=============================================================================
