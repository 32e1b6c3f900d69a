---------------------------- MODULE Transmissions ----------------------------
(***************************************************************************)
(* The transmissions between the actuators and the joints of a hardware    *)
(* component (transmission_interface): how one is loaded from its          *)
(* description, configured with handles, and used to turn the values of    *)
(* actuators into those of joints and back.                                *)
(*                                                                         *)
(* A handle has a name, an interface and a cell with a value, or Null.     *)
(* Names are numbers, in the alphabetical order of the code's strings.     *)
(* Values, ratios and offsets are integers and quotients are exact; a zero *)
(* ratio has no meaning but the one the code gives it.                     *)
(***************************************************************************)
EXTENDS Integers, SequencesExt

CONSTANTS Null,             \* no value: a handle's nullptr
          NoTransmission    \* what a loader returns after an exception

\* In the order in which the two-joint transmissions transform them.
Interfaces == <<"position", "velocity", "effort", "torque", "force", "absolute_position">>
Flows == {"position", "velocity", "absolute_position"}
Positions == Flows \ {"velocity"}

TransmissionKinds == {"simple", "differential", "four_bar_linkage"}
Size(kind) == IF kind = "simple" THEN 1 ELSE 2
Supported(kind) ==
    IF kind = "four_bar_linkage" THEN {"position", "velocity", "effort"} ELSE ToSet(Interfaces)

\* x over y, for an x that y divides.
Over(x, y) == IF y > 0 THEN x \div y ELSE (-x) \div (-y)

-----------------------------------------------------------------------------
(* Loading.  A description has joints and actuators, with their ratios and *)
(* offsets, in the order of its tags.                                      *)

NoHandles == [i \in ToSet(Interfaces) |-> <<>>]

\* The constructors throw on a ratio of zero, and "at" on an entry that is not there.
Constructed(kind, ar, jr, offset) ==
    IF 0 \in ToSet(ar \o jr) THEN NoTransmission
    ELSE [kind |-> kind, ar |-> ar, jr |-> jr, offset |-> offset,
          joint |-> NoHandles, actuator |-> NoHandles]

\* The one ratio is that of the joint; what is said of the actuator is not looked at.
LoadSimple(info) ==
    IF info.joints = <<>> THEN NoTransmission
    ELSE Constructed("simple", <<1>>, <<info.joints[1].mechanical_reduction>>, <<info.joints[1].offset>>)

LoadPair(kind, info) ==
    IF Len(info.joints) < 2 \/ Len(info.actuators) < 2 THEN NoTransmission
    ELSE Constructed(kind,
            [k \in 1..2 |-> info.actuators[k].mechanical_reduction],
            [k \in 1..2 |-> info.joints[k].mechanical_reduction],
            [k \in 1..2 |-> info.joints[k].offset])

load(kind, info) == IF kind = "simple" THEN LoadSimple(info) ELSE LoadPair(kind, info)

-----------------------------------------------------------------------------
(* Configuring.  An exception leaves what has been assigned before it.     *)

Rejected(t) == [transmission |-> t, accepted |-> FALSE]
Accepted(t) == [transmission |-> t, accepted |-> TRUE]

IsValid(handle) == handle.value_ptr # Null
get_names(handles) == SetToSortSeq({ h.prefix_name : h \in ToSet(handles) }, <)

\* Mutant: the handles stay in the order in which they were passed.
handles_as_passed(handles, names, i) ==
    SelectSeq(handles, LAMBDA h : h.interface_name = i /\ IsValid(h))

\* The valid handles of one interface, in the order of the names.
get_ordered_handles(handles, names, i) ==
    FlattenSeq([n \in DOMAIN names |->
        SelectSeq(handles, LAMBDA h : h.prefix_name = names[n] /\ h.interface_name = i /\ IsValid(h))])

\* The first handle of the interface, if it is valid.
get_by_interface(handles, i) ==
    LET those == SelectSeq(handles, LAMBDA h : h.interface_name = i)
    IN  IF those # <<>> /\ IsValid(those[1]) THEN <<those[1]>> ELSE <<>>

Taken(t, handles) ==
    [i \in ToSet(Interfaces) |->
        CASE i \notin Supported(t.kind) -> <<>>
          [] t.kind = "simple" -> get_by_interface(handles, i)
          [] OTHER -> get_ordered_handles(handles, get_names(handles), i)]

TakeJoints(t, handles) == [t EXCEPT !.joint = Taken(t, handles)]
TakeActuators(t, handles) == [t EXCEPT !.actuator = Taken(t, handles)]

ConfigureSimple(t, joints, actuators) ==
    LET one == TakeJoints(t, joints)
        both == TakeActuators(one, actuators)
    IN  CASE Len(get_names(joints)) # 1 \/ Len(get_names(actuators)) # 1 -> Rejected(t)
          [] one.joint = NoHandles -> Rejected(one)
          [] both.actuator = NoHandles -> Rejected(both)
          [] OTHER -> Accepted(both)

\* Both pairs of names are there.
ArePairs(joints, actuators) == Len(get_names(joints)) = 2 /\ Len(get_names(actuators)) = 2

\* No interface has handles of one joint, or actuator, only.
AllFit(taken) == \A i \in DOMAIN taken : Len(taken[i]) \in {0, 2}

\* Joints and actuators agree on each interface that both have, and on one at least.
SomePairOfMatching(t) ==
    LET shared == { i \in DOMAIN t.joint : t.joint[i] # <<>> /\ t.actuator[i] # <<>> }
    IN  shared # {} /\ \A i \in shared : Len(t.joint[i]) = Len(t.actuator[i])

ConfigureDifferential(t, joints, actuators) ==
    LET one == TakeJoints(t, joints)
        both == TakeActuators(one, actuators)
    IN  CASE ~ArePairs(joints, actuators) -> Rejected(t)
          [] ~AllFit(one.joint) -> Rejected(one)
          [] ~AllFit(both.actuator) \/ ~SomePairOfMatching(both) -> Rejected(both)
          [] OTHER -> Accepted(both)

\* Here an interface that does not fit is only an error if all three do not.
ConfigureFourBarLinkage(t, joints, actuators) ==
    LET one == TakeJoints(t, joints)
        both == TakeActuators(one, actuators)
        interfaces == Supported("four_bar_linkage")
    IN  CASE ~ArePairs(joints, actuators) -> Rejected(t)
          [] \A i \in interfaces : Len(one.joint[i]) # 2 -> Rejected(one)
          [] \A i \in interfaces : Len(both.actuator[i]) # 2 -> Rejected(both)
          [] \A i \in interfaces : Len(both.joint[i]) # Len(both.actuator[i]) -> Rejected(both)
          [] OTHER -> Accepted(both)

configure(t, joints, actuators) ==
    CASE t.kind = "simple" -> ConfigureSimple(t, joints, actuators)
      [] t.kind = "differential" -> ConfigureDifferential(t, joints, actuators)
      [] t.kind = "four_bar_linkage" -> ConfigureFourBarLinkage(t, joints, actuators)

-----------------------------------------------------------------------------
(* From actuators to joints: x are the actuators' values of interface i.   *)

Shift(t, i) == IF i \in Positions THEN t.offset ELSE [k \in 1..Size(t.kind) |-> 0]

SimpleToJoint(t, i, x) ==
    IF i \in Flows THEN << Over(x[1], t.jr[1]) + Shift(t, i)[1] >> ELSE << x[1] * t.jr[1] >>

DifferentialToJoint(t, i, x) ==
    LET flow == <<Over(x[1], t.ar[1]), Over(x[2], t.ar[2])>>
        effort == <<x[1] * t.ar[1], x[2] * t.ar[2]>>
    IN  IF i \in Flows
        THEN << Over(flow[1] + flow[2], 2 * t.jr[1]) + Shift(t, i)[1],
                Over(flow[1] - flow[2], 2 * t.jr[2]) + Shift(t, i)[2] >>
        ELSE << t.jr[1] * (effort[1] + effort[2]), t.jr[2] * (effort[1] - effort[2]) >>

FourBarLinkageToJoint(t, i, x) ==
    LET first == Over(x[1], t.jr[1] * t.ar[1])
    IN  IF i \in Flows
        THEN << first + Shift(t, i)[1], Over(Over(x[2], t.ar[2]) - first, t.jr[2]) + Shift(t, i)[2] >>
        ELSE << t.jr[1] * x[1] * t.ar[1] + x[2] * t.ar[2], t.jr[2] * x[2] * t.ar[2] >>

ToJoint(t, i, x) ==
    CASE t.kind = "simple" -> SimpleToJoint(t, i, x)
      [] t.kind = "differential" -> DifferentialToJoint(t, i, x)
      [] t.kind = "four_bar_linkage" -> FourBarLinkageToJoint(t, i, x)

-----------------------------------------------------------------------------
(* From joints to actuators.                                               *)

SimpleToActuator(t, i, x) ==
    IF i \in Flows THEN << (x[1] - Shift(t, i)[1]) * t.jr[1] >> ELSE << Over(x[1], t.jr[1]) >>

DifferentialToActuator(t, i, x) ==
    LET flow == [k \in 1..2 |-> (x[k] - Shift(t, i)[k]) * t.jr[k]]
        effort == <<Over(x[1], t.jr[1]), Over(x[2], t.jr[2])>>
    IN  IF i \in Flows
        THEN << (flow[1] + flow[2]) * t.ar[1], (flow[1] - flow[2]) * t.ar[2] >>
        ELSE << Over(effort[1] + effort[2], 2 * t.ar[1]), Over(effort[1] - effort[2], 2 * t.ar[2]) >>

FourBarLinkageToActuator(t, i, x) ==
    LET placed == [k \in 1..2 |-> x[k] - Shift(t, i)[k]]
    IN  IF i \in Flows
        THEN << placed[1] * t.jr[1] * t.ar[1], (placed[1] + placed[2] * t.jr[2]) * t.ar[2] >>
        ELSE << Over(x[1] - Over(x[2], t.jr[2]), t.jr[1] * t.ar[1]), Over(x[2], t.ar[2] * t.jr[2]) >>

ToActuator(t, i, x) ==
    CASE t.kind = "simple" -> SimpleToActuator(t, i, x)
      [] t.kind = "differential" -> DifferentialToActuator(t, i, x)
      [] t.kind = "four_bar_linkage" -> FourBarLinkageToActuator(t, i, x)

-----------------------------------------------------------------------------
(* Reading and writing the cells of the handles.                           *)

get_value(cells, handles) == [k \in DOMAIN handles |-> cells[handles[k].value_ptr]]
set_value(cells, handles, x) ==
    FoldLeftDomain(LAMBDA v, k : [v EXCEPT ![handles[k].value_ptr] = x[k]], cells, handles)

\* Both sides of the interface have all of their handles.
IsComplete(t, i) == Len(t.joint[i]) = Size(t.kind) /\ Len(t.actuator[i]) = Size(t.kind)

actuator_to_joint(t, cells) ==
    FoldLeft(LAMBDA v, i :
                IF IsComplete(t, i)
                THEN set_value(v, t.joint[i], ToJoint(t, i, get_value(v, t.actuator[i]))) ELSE v,
             cells, Interfaces)

\* An absolute position is that of a sensor, and no command.
joint_to_actuator(t, cells) ==
    FoldLeft(LAMBDA v, i :
                IF IsComplete(t, i) /\ i # "absolute_position"
                THEN set_value(v, t.actuator[i], ToActuator(t, i, get_value(v, t.joint[i]))) ELSE v,
             cells, Interfaces)
=============================================================================
