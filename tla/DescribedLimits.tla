--------------------------- MODULE DescribedLimits ---------------------------
(***************************************************************************)
(* The limits of a joint as the robot description gives them: those of the *)
(* URDF (joint_limits_urdf.hpp), narrowed, or switched off, by the tags    *)
(* of the joint and of its command interfaces (component_parser.cpp).      *)
(*                                                                         *)
(* A tag is a record: the name of the interface, the texts of "min" and    *)
(* "max" and whether limits are enabled.  A text is a number, NoValue if   *)
(* there is none, or Unreadable.  "Infinity" stands for the largest double *)
(* as well.                                                                *)
(***************************************************************************)
EXTENDS JointLimits, SequencesExt

CONSTANT Unreadable     \* a text that is no number

NoLimits ==
    [has |-> {}, min_position |-> NaN, max_position |-> NaN, max_velocity |-> NaN,
     max_acceleration |-> NaN, max_deceleration |-> NaN, max_effort |-> NaN]

\* Jerk has no limiter and is left out.
disable_all_limits(limits) ==
    [has |-> {}, min_position |-> -Infinity, max_position |-> Infinity, max_velocity |-> Infinity,
     max_acceleration |-> Infinity, max_deceleration |-> Infinity, max_effort |-> Infinity]

\* A joint of the URDF without a <limit> is NoValue.
getJointLimits(urdf) ==
    IF urdf = NoValue THEN NoLimits
    ELSE LET placed == urdf.type \in {"revolute", "prismatic"}
         IN  [NoLimits EXCEPT !.has = {"velocity", "effort"} \cup (IF placed THEN {"position"} ELSE {}),
                              !.min_position = IF placed THEN urdf.lower ELSE @,
                              !.max_position = IF placed THEN urdf.upper ELSE @,
                              !.max_velocity = AbsoluteOf(urdf.velocity),
                              !.max_effort = AbsoluteOf(urdf.effort)]

-----------------------------------------------------------------------------
(* The tags                                                                *)

\* retrieve_min_max_interface_values returns true
Retrieved(tag) == Unreadable \notin {tag.min, tag.max} /\ {tag.min, tag.max} # {NoValue}
Or(text, default) == IF text = NoValue THEN default ELSE text
SwitchedTo(has, kind, on) == IF on THEN has \cup {kind} ELSE has \ {kind}

\* Mutant: a looser tag widens what the URDF says.
ReplacePosition(limits, tag) ==
    LET kept == "position" \in limits.has /\ tag.enabled
        narrows == tag.enabled /\ Retrieved(tag)
    IN  [limits EXCEPT !.has = SwitchedTo(@, "position", kept \/ narrows),
                       !.min_position = Or(IF narrows THEN tag.min ELSE NoValue,
                                           IF kept THEN @ ELSE -Infinity),
                       !.max_position = Or(IF narrows THEN tag.max ELSE NoValue,
                                           IF kept THEN @ ELSE Infinity)]

NarrowPosition(limits, tag) ==
    LET kept == "position" \in limits.has /\ tag.enabled
        min == IF kept THEN limits.min_position ELSE -Infinity
        max == IF kept THEN limits.max_position ELSE Infinity
        narrows == tag.enabled /\ Retrieved(tag)
    IN  [limits EXCEPT !.has = SwitchedTo(@, "position", kept \/ narrows),
                       !.min_position = IF narrows THEN Larger(Or(tag.min, min), min) ELSE min,
                       !.max_position = IF narrows THEN Smaller(Or(tag.max, max), max) ELSE max]

\* The bound of velocity and of effort is the smaller one of both directions.
Narrowed(bound, tag) ==
    IF tag.enabled /\ Retrieved(tag)
    THEN Smaller(Smaller(AbsoluteOf(Or(tag.min, -bound)), Or(tag.max, bound)), bound)
    ELSE bound

NarrowVelocity(limits, tag) ==
    LET known == "velocity" \in limits.has
    IN  [limits EXCEPT !.has = SwitchedTo(@, "velocity", tag.enabled /\ (known \/ Retrieved(tag))),
                       !.max_velocity = Narrowed(IF known THEN @ ELSE Infinity, tag)]

NarrowEffort(limits, tag) ==
    LET known == "effort" \in limits.has
    IN  [limits EXCEPT !.has = SwitchedTo(@, "effort", tag.enabled /\ (known \/ Retrieved(tag))),
                       !.max_effort = Narrowed(IF known THEN @ ELSE Infinity, tag)]

\* One number stands for both directions, but only its own limit is switched on.
set_custom_interface_values(limits, tag) ==
    LET braking == tag.min # NoValue
        driving == tag.max # NoValue
        braked == IF braking THEN SwitchedTo(limits.has, "deceleration", tag.enabled) ELSE limits.has
    IN  IF ~Retrieved(tag) THEN limits
        ELSE [limits EXCEPT
                !.has = IF driving THEN SwitchedTo(braked, "acceleration", tag.enabled) ELSE braked,
                !.max_deceleration = IF braking THEN AbsoluteOf(tag.min)
                                     ELSE IF IsFinite(@) THEN @ ELSE AbsoluteOf(tag.max),
                !.max_acceleration = IF driving THEN tag.max ELSE AbsoluteOf(tag.min)]

NarrowBy(limits, tag) ==
    CASE tag.name = "position" -> NarrowPosition(limits, tag)
      [] tag.name = "velocity" -> NarrowVelocity(limits, tag)
      [] tag.name = "effort" -> NarrowEffort(limits, tag)
      [] tag.name = "acceleration" -> set_custom_interface_values(limits, tag)

\* parse_component_from_xml: the limits of an interface need those of the joint.
Tags(joint) ==
    [i \in DOMAIN joint.tags |-> [joint.tags[i] EXCEPT !.enabled = @ /\ joint.enabled]]

\* update_interface_limits
DescribedLimits(joint) ==
    IF ~joint.enabled THEN disable_all_limits(getJointLimits(joint.urdf))
    ELSE FoldLeft(NarrowBy, getJointLimits(joint.urdf), Tags(joint))

\* parse_control_resources_from_urdf: soft limits stay within the hard ones.
DescribedSoftLimits(joint) ==
    LET limits == DescribedLimits(joint)
    IN  IF joint.soft = NoValue \/ "position" \notin limits.has THEN joint.soft
        ELSE [joint.soft EXCEPT !.min_position = Larger(@, limits.min_position),
                                !.max_position = Smaller(@, limits.max_position)]
=============================================================================
