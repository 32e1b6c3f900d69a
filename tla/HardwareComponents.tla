-------------------------- MODULE HardwareComponents --------------------------
(***************************************************************************)
(* The hardware side of the resource manager: the lifecycle of the         *)
(* hardware components (HardwareComponent), the lists of available         *)
(* interfaces, the error state of the hardware groups, the requests to     *)
(* change the state of a component, and the read and write cycles of the   *)
(* control loop with what they do to a component that fails.               *)
(*                                                                         *)
(* The callbacks of a component (on_configure, ..., on_error, read, write) *)
(* are the vendor's: every value they may return, and an exception, is a   *)
(* possible outcome.  All interfaces of a component enter and leave the    *)
(* available lists together, so a list is the set of components whose      *)
(* interfaces are in it.                                                   *)
(***************************************************************************)
EXTENDS Integers, Sequences

CONSTANTS
    Hardware,           \* the hardware components of the robot description
    Sensors,            \* those of type "sensor", which are never written
    Groups,             \* the hardware groups
    GroupOf,            \* the group of a component, or NoGroup
    NoGroup,
    Order,              \* actuators, then sensors, then systems
    ReportDeactivated   \* return_failed_hardware_names_on_return_deactivate_write_cycle_

ASSUME HardwareAssumption ==
    /\ Sensors \subseteq Hardware
    /\ NoGroup \notin Groups
    /\ GroupOf \in [Hardware -> Groups \cup {NoGroup}]
    /\ Order \in Seq(Hardware)
    /\ ReportDeactivated \in BOOLEAN

VARIABLES
    hw_state,           \* the lifecycle state of each component
    available,          \* the components whose interfaces are available
    group_state,        \* hw_group_state_
    cycle,              \* the cycle in progress and the place it has reached
    rw_result,          \* read_write_status.result
    rw_failed           \* read_write_status.failed_hardware_names

hw_vars == <<hw_state, available, group_state>>
rw_vars == <<cycle, rw_result, rw_failed>>
vars == <<hw_state, available, group_state, cycle, rw_result, rw_failed>>

States == {"unconfigured", "inactive", "active", "finalized"}
Operable == {"inactive", "active"}      \* the states read() is called in
ReturnTypes == {"OK", "ERROR", "DEACTIVATE"}
NoCycle == [op |-> "none", at |-> 1]

TypeOK ==
    /\ hw_state \in [Hardware -> States]
    /\ available \in SUBSET Hardware
    /\ group_state \in [Groups -> ReturnTypes]
    /\ cycle \in [op : {"none", "read", "write"}, at : 1 .. Len(Order) + 1]
    /\ rw_result \in ReturnTypes
    /\ rw_failed \in SUBSET Hardware

-----------------------------------------------------------------------------
(* HardwareComponent: the states a transition may end in.  A callback that  *)
(* throws leaves the state as it is.                                        *)

\* error(): on_error is called in every state but "unconfigured".
error(s) == IF s = "unconfigured" THEN {s} ELSE {"unconfigured", "finalized"}

configure(s) ==
    IF s = "unconfigured" THEN {"inactive", "unconfigured"} \cup error(s) ELSE {s}

cleanup(s) ==
    IF s = "inactive" THEN {"unconfigured", s} \cup error(s) ELSE {s}

shutdown(s) ==
    IF s /= "finalized" THEN {"finalized", s} \cup error(s) ELSE {s}

activate(s) ==
    IF s = "inactive" THEN {"active", "inactive"} \cup error(s) ELSE {s}

deactivate(s) ==
    IF s = "active" THEN {"inactive", "active"} \cup error(s) ELSE {s}

-----------------------------------------------------------------------------
(* ResourceStorage: the transitions with their effects on a component c,    *)
(* [state, avail, reset]: its state, whether its interfaces are available   *)
(* and whether the state of its group is reset.                             *)

component(h, s) == [state |-> s, avail |-> h \in available, reset |-> FALSE]

\* Mutant: the interfaces are not added to the available lists.
configure_without_adding(c) ==
    { [state |-> s, avail |-> c.avail, reset |-> TRUE] : s \in configure(c.state) }

configure_hardware(c) ==
    { [state |-> s, avail |-> c.avail \/ s = "inactive", reset |-> TRUE] :
        s \in configure(c.state) }

cleanup_hardware(c) ==
    { [state |-> s, avail |-> c.avail /\ s /= "unconfigured", reset |-> TRUE] :
        s \in cleanup(c.state) }

shutdown_hardware(c) ==
    { [state |-> s, avail |-> c.avail /\ s /= "finalized", reset |-> s = "finalized"] :
        s \in shutdown(c.state) }

activate_hardware(c) == { [c EXCEPT !.state = s] : s \in activate(c.state) }

deactivate_hardware(c) == { [c EXCEPT !.state = s] : s \in deactivate(c.state) }

\* The second transition of two is tried when the first has reached its goal.
Then(first, goal, second(_)) ==
    UNION { IF c.state = goal THEN second(c) ELSE {c} : c \in first }

to_unconfigured(c) ==
    CASE c.state = "inactive" -> cleanup_hardware(c)
      [] c.state = "active" -> Then(deactivate_hardware(c), "inactive", cleanup_hardware)
      [] OTHER -> {c}

to_inactive(c) ==
    CASE c.state = "unconfigured" -> configure_hardware(c)
      [] c.state = "active" -> deactivate_hardware(c)
      [] OTHER -> {c}

to_active(c) ==
    CASE c.state = "unconfigured" -> Then(configure_hardware(c), "inactive", activate_hardware)
      [] c.state = "inactive" -> activate_hardware(c)
      [] OTHER -> {c}

to_finalized(c) ==
    CASE c.state = "active" -> Then(deactivate_hardware(c), "inactive", shutdown_hardware)
      [] c.state = "finalized" -> {c}
      [] OTHER -> shutdown_hardware(c)

\* ResourceStorage::set_component_state.
set_component_state(c, target) ==
    CASE target = "unconfigured" -> to_unconfigured(c)
      [] target = "inactive" -> to_inactive(c)
      [] target = "active" -> to_active(c)
      [] target = "finalized" -> to_finalized(c)

\* Component h becomes c.
Becomes(h, c, groups) ==
    /\ hw_state' = [hw_state EXCEPT ![h] = c.state]
    /\ available' = IF c.avail THEN available \cup {h} ELSE available \ {h}
    /\ group_state' = IF c.reset /\ GroupOf[h] /= NoGroup
                      THEN [groups EXCEPT ![GroupOf[h]] = "OK"] ELSE groups

-----------------------------------------------------------------------------
(* Requests: set_component_state of the service, of the start-up and of     *)
(* shutdown_components.  It holds resources_lock_, which a cycle holds too. *)

SetComponentState(h, target) ==
    /\ cycle.op = "none"
    /\ \E c \in set_component_state(component(h, hw_state[h]), target) : Becomes(h, c, group_state)
    /\ UNCHANGED rw_vars

-----------------------------------------------------------------------------
(* The cycles.                                                              *)

\* update_hardware_component_group_state: a value other than OK stays.
update_group_state(groups, h, value) ==
    IF GroupOf[h] = NoGroup \/ value = "OK" THEN groups
    ELSE [groups EXCEPT ![GroupOf[h]] = value]

\* Mutant: a member does not see what its group returns.
own_result(groups, h, value) == value

group_result(groups, h, value) == IF GroupOf[h] = NoGroup THEN value ELSE groups[GroupOf[h]]

\* The states HardwareComponent::read and write call the driver in.
read_called(s) == s \in Operable
write_called(s) == s = "active"

\* HardwareComponent::read and write as the resource manager sees them: the value
\* for the component, its state and its group's afterwards.  A component whose rate
\* makes it skip the cycle counts as OK.  An exception does not reach the group.
Call(h, called) ==
    LET Returns(r) == { [value |-> group_result(update_group_state(group_state, h, r), h, r),
                         state |-> s,
                         groups |-> update_group_state(group_state, h, r)] :
                          s \in IF r = "ERROR" THEN error(hw_state[h]) ELSE {hw_state[h]} }
        Throws == [value |-> "ERROR", state |-> hw_state[h], groups |-> group_state]
    IN  Returns("OK") \cup
        IF called THEN Returns("ERROR") \cup Returns("DEACTIVATE") \cup {Throws} ELSE {}

\* read() or write() takes resources_lock_ and resets its status.
BeginCycle(op) ==
    /\ cycle.op = "none"
    /\ cycle' = [op |-> op, at |-> 1]
    /\ rw_result' = "OK"
    /\ rw_failed' = {}
    /\ UNCHANGED hw_vars

\* resources_lock_ is taken: the cycle does nothing and reports OK.
SkipCycle ==
    /\ cycle.op = "none"
    /\ rw_result' = "OK"
    /\ rw_failed' = {}
    /\ UNCHANGED <<hw_vars, cycle>>

InCycle(op) == cycle.op = op /\ cycle.at \in 1 .. Len(Order)
Advance == cycle' = [cycle EXCEPT !.at = @ + 1]

\* Mutant: the interfaces of a failed component stay available.
ComponentFailsOffering(h, o) ==
    /\ \E s \in error(o.state) :
          Becomes(h, [state |-> s, avail |-> h \in available, reset |-> FALSE], o.groups)
    /\ rw_result' = "ERROR"
    /\ rw_failed' = rw_failed \cup {h}

\* component.error(), and its interfaces leave the available lists.
ComponentFails(h, o) ==
    /\ \E s \in error(o.state) : Becomes(h, [state |-> s, avail |-> FALSE, reset |-> FALSE], o.groups)
    /\ rw_result' = "ERROR"
    /\ rw_failed' = rw_failed \cup {h}

ComponentGoesOn(h, o) ==
    /\ Becomes(h, component(h, o.state), o.groups)
    /\ UNCHANGED <<rw_result, rw_failed>>

\* One component of read(): anything but OK is an error.
ReadComponent ==
    /\ InCycle("read")
    /\ LET h == Order[cycle.at] IN
       \E o \in Call(h, read_called(hw_state[h])) :
          \/ o.value /= "OK" /\ ComponentFails(h, o)
          \/ o.value = "OK" /\ ComponentGoesOn(h, o)
    /\ Advance

\* Mutant: a component that asks for its deactivation is activated.
ActivatesInstead(h, o) ==
    /\ \E c \in set_component_state(component(h, o.state), "active") :
          Becomes(h, c, o.groups)
    /\ rw_result' = "DEACTIVATE"
    /\ rw_failed' = IF ReportDeactivated THEN rw_failed \cup {h} ELSE rw_failed

\* The resource manager's set_component_state with target "inactive".
ComponentDeactivates(h, o) ==
    /\ \E c \in set_component_state(component(h, o.state), "inactive") :
          Becomes(h, c, o.groups)
    /\ rw_result' = "DEACTIVATE"
    /\ rw_failed' = IF ReportDeactivated THEN rw_failed \cup {h} ELSE rw_failed

\* One component of write().
WriteComponent ==
    /\ InCycle("write")
    /\ LET h == Order[cycle.at] IN
       IF h \in Sensors THEN UNCHANGED <<hw_vars, rw_result, rw_failed>>
       ELSE \E o \in Call(h, write_called(hw_state[h])) :
          \/ o.value = "ERROR" /\ ComponentFails(h, o)
          \/ o.value = "DEACTIVATE" /\ ComponentDeactivates(h, o)
          \/ o.value = "OK" /\ ComponentGoesOn(h, o)
    /\ Advance

EndCycle ==
    /\ cycle.op /= "none" /\ cycle.at > Len(Order)
    /\ cycle' = NoCycle
    /\ UNCHANGED <<hw_vars, rw_result, rw_failed>>

-----------------------------------------------------------------------------
\* Every component is loaded and initialized; nothing is configured.
Init ==
    /\ hw_state = [h \in Hardware |-> "unconfigured"]
    /\ available = {}
    /\ group_state = [g \in Groups |-> "OK"]
    /\ cycle = NoCycle
    /\ rw_result = "OK"
    /\ rw_failed = {}

Requests == \E h \in Hardware, target \in States : SetComponentState(h, target)

CycleSteps == ReadComponent \/ WriteComponent \/ EndCycle

Next ==
    \/ Requests
    \/ \E op \in {"read", "write"} : BeginCycle(op)
    \/ SkipCycle
    \/ CycleSteps

Spec == Init /\ [][Next]_vars

\* The control loop calls read and write again and again, and a cycle ends.
Fairness ==
    /\ WF_vars(CycleSteps)
    /\ SF_vars(BeginCycle("read"))
    /\ SF_vars(BeginCycle("write"))
FairSpec == Spec /\ Fairness

-----------------------------------------------------------------------------
(* Properties *)

\* The interfaces of a component that is configured can be claimed: whatever failed,
\* timed out or was reset before, a component never is in operation while the
\* available lists lack its interfaces.
ConfiguredIsOffered == \A h \in Hardware : hw_state[h] \in Operable => h \in available

\* A component that a read cycle reports as failed is out of operation and offers
\* nothing, when the controller manager looks for the controllers to stop.
FailedReadIsDown ==
    cycle.op = "read" => \A h \in rw_failed : hw_state[h] \notin Operable /\ h \notin available

\* A cycle never puts hardware into motion: only a request activates a component.
LoopNeverActivates ==
    [][ cycle.op /= "none" =>
          \A h \in Hardware : hw_state'[h] = "active" => hw_state[h] = "active" ]_vars

\* "deactivate hardware from read/write return value": a cycle takes components
\* down; one that is down comes back only by a request, unless it is in a group, whose
\* state decides for it.
LoopNeverRevives ==
    [][ cycle.op /= "none" =>
          \A h \in Hardware : GroupOf[h] = NoGroup /\ hw_state[h] \notin Operable =>
                                hw_state'[h] \notin Operable ]_vars

\* "hardware is in finalized state and can be only destroyed": no step takes a
\* component out of that state.
FinalizedIsFinal ==
    [][ \A h \in Hardware : hw_state[h] = "finalized" => hw_state'[h] = "finalized" ]_vars

\* "If the hardware during it's read or write method returns ERROR, the controller
\* manager will stop all controllers that are using the hardware's command and state
\* interfaces": it does so for the result ERROR only, so a cycle in which a component
\* failed and lost its interfaces reports ERROR.
ErrorIsReported ==
    cycle.op /= "none" /\ ~(rw_failed \subseteq available) => rw_result = "ERROR"

\* "If one actuator fails within the group, the error can propagate to the other
\* actuators": as long as nobody resets the group, all its members go down.
GroupErrorSpreads ==
    \A g \in Groups : \A h \in Hardware :
        GroupOf[h] = g /\ group_state[g] = "ERROR" /\ hw_state[h] \in Operable
            ~> hw_state[h] \notin Operable \/ group_state[g] /= "ERROR"
=============================================================================
