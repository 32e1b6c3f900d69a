----------------------------- MODULE MCAlgorithms -----------------------------
(***************************************************************************)
(* The parts of the system that compute: the order of the controllers, the *)
(* rates of their updates, the limiters and what they take from the        *)
(* parameters, and the transmissions.  They share no state; the initial    *)
(* state picks one, "part", and one of its inputs.                         *)
(***************************************************************************)
EXTENDS ControllerOrder, DescribedLimits, TrajectoryLimiter, UpdateRate, LimitParameters,
        Transmissions

CONSTANTS Controllers, TreeControllers,   \* how many, in any chains and in trees
          Nothing                         \* an input, or a state, of another part

VARIABLES part, input, motion

NoRate ==
    /\ manager = Nothing /\ subject = Nothing /\ rate = Nothing /\ first = Nothing
    /\ offset = Nothing /\ since = Nothing /\ given = Unknown
NoParameters ==
    /\ parameters = Nothing /\ updated_limits = Nothing
    /\ joint_limits = Nothing /\ patient = FALSE

-----------------------------------------------------------------------------
(* Controllers that command others with a greater number, or of which the  *)
(* even ones publish states the others read, in any order of the hash      *)
(* table.                                                                  *)

Topologies(n) ==
    { build_controllers_topology_info(
        [c \in 1..n |-> c],
        [c \in 1..n |->
            IF publish /\ c % 2 = 0 THEN <<>> ELSE SetToSeq({ d \in 1..n : <<c, d>> \in links })],
        [d \in 1..n |->
            IF publish THEN SetToSeq({ c \in 1..n : <<c, d>> \in links /\ c % 2 = 0 }) ELSE <<>>]) :
      links \in SUBSET { p \in (1..n) \X (1..n) : p[1] < p[2] }, publish \in BOOLEAN }

\* The order of the hash table is chosen by a step.
OrderInputs ==
    { [chains |-> chains, isForest |-> IsForest(chains), names |-> <<>>] :
      chains \in Topologies(Controllers) }
    \cup { [chains |-> chains, isForest |-> TRUE, names |-> <<>>] :
           chains \in { c \in Topologies(TreeControllers) : IsForest(c) } }

ChooseNames ==
    /\ input.names = <<>>
    /\ \E names \in SetToSeqs(DOMAIN input.chains.following) : input' = [input EXCEPT !.names = names]

-----------------------------------------------------------------------------
(* One joint of a robot description, at or beyond its limits, with any     *)
(* command of the described interfaces and any memory.                     *)

Tag(name, min, max) == [name |-> name, min |-> min, max |-> max, enabled |-> TRUE]
Off(tag) == [tag EXCEPT !.enabled = FALSE]
Plain(name) == Tag(name, NoValue, NoValue)

Descriptions ==
    LET joint(type) == [type |-> type, lower |-> -2, upper |-> 2, velocity |-> -2, effort |-> 2]
        soft(min, max) == [min_position |-> min, max_position |-> max, k_position |-> 1, k_velocity |-> 1]
    IN  [urdf : {NoValue, joint("revolute"), joint("continuous")},
         soft : {NoValue, soft(-1, 3)},
         enabled : {TRUE},
         tags : { <<Plain("position"), Plain("velocity")>>,
                  <<Tag("position", -1, NoValue), Off(Tag("velocity", -1, 1))>>,
                  <<Tag("position", -3, 1), Tag("acceleration", -2, 1), Tag("velocity", -1, 3)>>,
                  <<Tag("position", Unreadable, 1), Tag("velocity", NoValue, 1), Tag("effort", -1, NoValue)>>,
                  <<Off(Tag("position", -1, 1)), Tag("acceleration", -2, NoValue), Tag("effort", -3, 1)>> }]
        \cup [urdf : {joint("revolute")}, soft : {NoValue}, enabled : {FALSE},
              tags : {<<Plain("position"), Plain("velocity")>>}]

InterfacesOf(joint) == { joint.tags[i].name : i \in DOMAIN joint.tags }

LimiterInputs ==
    { in \in [joint : Descriptions,
             actual : { [NoData EXCEPT !.position = p, !.velocity = v] :
                           p \in {NoValue, -4, -1, 2}, v \in {NoValue, -3, 1} },
             desired : { [position |-> p, velocity |-> v, effort |-> e, acceleration |-> a] :
                           p \in {NoValue, 5}, v \in {NoValue, -3, 2}, e \in {NoValue, -3}, a \in {NoValue, 3} },
             memory : { [NoData EXCEPT !.position = p, !.velocity = v] :
                           p \in {NoValue, 1}, v \in {NoValue, -1} }] :
      \A k \in Kinds : in.desired[k] # NoValue => k \in InterfacesOf(in.joint) }

ResultOf(in) ==
    IF in.joint.soft = NoValue
    THEN RangeLimiter(DescribedLimits(in.joint), in.actual, in.desired, in.memory)
    ELSE SoftLimiter(DescribedLimits(in.joint), DescribedSoftLimits(in.joint),
                     in.actual, in.desired, in.memory)

-----------------------------------------------------------------------------
(* Two joints that go where the limiter of trajectory points lets them.    *)

JointsOf(deceleration) ==
    LET joint == [has |-> {"position", "acceleration"}, min_position |-> -4, max_position |-> 4,
                  max_velocity |-> 3, max_acceleration |-> 2, max_deceleration |-> deceleration]
    IN  {<<joint, joint>>, <<joint, [joint EXCEPT !.has = {"position"}]>>,
         <<joint, [joint EXCEPT !.has = {"position", "velocity", "deceleration"}]>>}

Move(velocity) ==
    LET limited == on_enforce(input, motion, [position |-> NotGiven, velocity |-> velocity,
                                              acceleration |-> NotGiven])
        next == limited.point.velocity
    IN  motion' = [position |-> [j \in 1..2 |-> motion.position[j] + next[j]], velocity |-> next]

-----------------------------------------------------------------------------
(* A transmission and the handles it is configured with, of some           *)
(* interfaces: a name may lack one, or have it without a value, and the    *)
(* names come in another order for every other interface.                  *)

Names == {1, 2}
Cells == {"joint", "actuator"} \X Names \X ToSet(Interfaces)

\* Each quotient of the transformations of Unit is a whole number.
Unit == 72
Measured(c) == Unit * (IF c[3] = "velocity" THEN c[2] ELSE 3 - 2 * c[2])
ValuesOf(side, f(_)) == [c \in Cells |-> IF c[1] = side THEN f(c) ELSE Nothing]

Entry(reduction, shift) == [mechanical_reduction |-> reduction, offset |-> shift]
TransmissionInputs ==
    [kind : TransmissionKinds,
     info : [joints : {<<Entry(-2, 5), Entry(3, -1)>>, <<Entry(1, 4)>>, <<Entry(0, 0), Entry(1, 0)>>},
             actuators : {<<Entry(3, 0), Entry(-2, 0)>>, <<Entry(1, 0)>>}],
     joints : {<<>>}, actuators : {<<>>}]

Handle(side, n, i, valid) ==
    [prefix_name |-> n, interface_name |-> i, value_ptr |-> IF valid THEN <<side, n, i>> ELSE Null]
Passed(side, i, names, has) ==
    LET named == SelectSeq(names, LAMBDA n : has[n] # "none")
    IN  [k \in DOMAIN named |-> Handle(side, named[k], i, has[named[k]] = "valid")]
HandlesOf(side, interfaces, has) ==
    { FlattenSeq([k \in DOMAIN interfaces |->
                    Passed(side, interfaces[k], IF k = 2 THEN <<2, 1>> ELSE <<1, 2>>, f[k])]) :
      f \in [DOMAIN interfaces -> [Names -> has]] }

ChooseHandles ==
    /\ input.joints = <<>> /\ input.actuators = <<>>
    /\ load(input.kind, input.info) # NoTransmission
    /\ \E c \in { [interfaces |-> <<"velocity", "effort">>, has |-> {"none", "invalid", "valid"}],
                   [interfaces |-> <<"absolute_position", "torque">>, has |-> {"invalid", "valid"}],
                   [interfaces |-> <<"velocity", "force">>, has |-> {"none", "valid"}],
                   [interfaces |-> <<"position", "velocity", "effort">>, has |-> {"none", "valid"}] } :
       \E joints \in HandlesOf("joint", c.interfaces, c.has),
          actuators \in HandlesOf("actuator", c.interfaces, {"none", "valid"}) :
            input' = [input EXCEPT !.joints = joints, !.actuators = actuators]

-----------------------------------------------------------------------------
MCInit ==
    \/ /\ part = "order" /\ motion = Nothing /\ NoRate /\ NoParameters
       /\ input \in OrderInputs
    \/ /\ part = "limits" /\ motion = Nothing /\ NoRate /\ NoParameters
       /\ input \in LimiterInputs
    \/ /\ part = "trajectory" /\ NoRate /\ NoParameters
       /\ input \in JointsOf(1) \cup JointsOf(2)
       /\ motion \in [position : {-4, -1, 3} \X {-4, -1, 1}, velocity : {<<0, 0>>}]
    \/ /\ part = "transmission" /\ motion = Nothing /\ NoRate /\ NoParameters
       /\ input \in TransmissionInputs
    \/ /\ part = "rate" /\ input = Nothing /\ motion = Nothing /\ NoParameters /\ RateInit
    \/ /\ part = "parameters" /\ input = Nothing /\ motion = Nothing /\ NoRate /\ ParametersInit

\* Nothing is set any more after a change that did not await the one before.
MCNext ==
    /\ UNCHANGED part
    /\ \/ part = "order" /\ ChooseNames /\ UNCHANGED <<motion, rate_vars, parameter_vars>>
       \/ part = "transmission" /\ ChooseHandles /\ UNCHANGED <<motion, rate_vars, parameter_vars>>
       \/ /\ part = "trajectory" /\ UNCHANGED <<input, rate_vars, parameter_vars>>
          /\ \E v \in {-4, -2, -1, 1, 4} \X {-4, -1, 1, 4} : Move(v)
       \/ part = "rate" /\ RateNext /\ UNCHANGED <<input, motion, parameter_vars>>
       \/ /\ part = "parameters" /\ UNCHANGED <<input, motion, rate_vars>>
          /\ (patient /\ ParametersNext) \/ (~patient /\ enforce)

-----------------------------------------------------------------------------
(* In chains that are trees every controller is updated before those it    *)
(* commands and after those whose states it reads, whatever the order of   *)
(* the hash table.                                                         *)

TreesAreOrdered ==
    part = "order" => (input.isForest => FollowsChains(input.chains, Ordered(input.chains, input.names)))

(* The same for every chain without cycles, as controller_manager.hpp:504  *)
(* says of update_list_with_controller_chain: "It ensures that controllers *)
(* are inserted in the correct order so that dependencies are satisfied".  *)

OrderIgnoresChain ==
    part = "order" => FollowsChains(input.chains, Ordered(input.chains, input.names))

(* The cached chain of a controller holds all controllers linked with it,  *)
(* so that a failure of one finds all that are to be stopped.              *)

ChainGroupIsWhole ==
    part = "order" /\ input.names = <<>> =>
        \A c \in DOMAIN input.chains.following :
            Range(get_full_chain_spec(input.chains, c, <<>>)) = InOneChain(input.chains, c)

(* A limiter clamps the command to a range that lies within what the URDF  *)
(* and the tag of the interface say, and that is not upside down, which    *)
(* std::clamp leaves undefined.  With limited acceleration this needs a    *)
(* limiter that has not started from too fast a joint, or command.         *)

Says(joint, tag) ==
    LET urdf == joint.urdf
    IN  CASE tag.name = "position" /\ urdf # NoValue /\ urdf.type = "revolute" -> <<urdf.lower, urdf.upper>>
          [] tag.name = "velocity" /\ urdf # NoValue -> Symmetric(AbsoluteOf(urdf.velocity))
          [] tag.name = "effort" /\ urdf # NoValue -> Symmetric(urdf.effort)
          [] OTHER -> Unlimited
TagSays(tag) ==
    IF Retrieved(tag) /\ tag.name # "acceleration"
    THEN <<Or(tag.min, -Infinity), Or(tag.max, Infinity)>> ELSE Unlimited
Lies(range, bounds) == ~Less(range[1], bounds[1]) /\ ~Less(bounds[2], range[2])
TooFast(in) ==
    LET start == FirstMemory(in.memory, in.actual, in.desired).velocity
    IN  Given(start) /\ AbsoluteOf(start) > DescribedLimits(in.joint).max_velocity

RangesAreAsDescribed ==
    part = "limits" =>
        LET joint == input.joint
            result == ResultOf(input)
            Obeys(tag) == Lies(result.ranges[tag.name], Says(joint, tag))
                          /\ Lies(result.ranges[tag.name], TagSays(tag))
        IN  ~result.throws =>
              /\ \A k \in (IF joint.soft = NoValue THEN Kinds ELSE {"position"}) :
                    ~Less(result.ranges[k][2], result.ranges[k][1])
              /\ \A tag \in Range(Tags(joint)) :
                    tag.enabled /\ Given(input.desired[tag.name])
                    /\ (tag.name = "velocity" /\ "acceleration" \in DescribedLimits(joint).has => ~TooFast(input)) => Obeys(tag)

(* Joints commanded by velocity stay below their maximal positions, also   *)
(* when all of them brake because one of them has to.                      *)

NoJointPassesItsMaximum ==
    part = "trajectory" => \A j \in 1..2 : motion.position[j] <= input[j].max_position

(* ... and above the minimal ones: "Limit joints' position, velocity and   *)
(* acceleration by clamping to their allowed ranges"                       *)
(* (joint_saturation_limiter.hpp:31).                                      *)

NoJointPassesItsLimits ==
    part = "trajectory" =>
        \A j \in 1..2 : motion.position[j] \in input[j].min_position..input[j].max_position

(* "Mechanical transmissions transform effort/flow variables such that     *)
(* their product (power) remains constant" (transmission.hpp:29), and both *)
(* ways: of the handles that a transmission accepts, in whatever order     *)
(* they are passed, those that joints and actuators have in common are     *)
(* transformed, keep the power, and come back to the actuators as they     *)
(* were.  The four-bar linkage accepts handles that do not fit, and leaves *)
(* those out.  An absolute position does not go back.                      *)

Power(cells, t, side, effort) ==
    FoldLeft(LAMBDA sum, h : sum + cells[<<side, h.prefix_name, "velocity">>]
                                   * cells[<<side, h.prefix_name, effort>>],
             0, t[side].velocity)

TransmissionsAreLossless ==
    part = "transmission" =>
        LET result == configure(load(input.kind, input.info), input.joints, input.actuators)
            t == result.transmission
            shared == { i \in ToSet(Interfaces) : t.joint[i] # <<>> /\ t.actuator[i] # <<>> }
            transformed == { i \in shared : IsComplete(t, i) }
            measured == ValuesOf("actuator", Measured)
            joints == actuator_to_joint(t, measured)
            commanded == joint_to_actuator(t, ValuesOf("joint", LAMBDA c : joints[c]))
        IN  input.joints # <<>> /\ result.accepted =>
              /\ t.kind # "four_bar_linkage" => shared = transformed
              /\ \A i \in transformed \ {"absolute_position"} :
                    get_value(commanded, t.actuator[i]) = get_value(measured, t.actuator[i])
              /\ "velocity" \in transformed =>
                    \A i \in transformed \ Flows :
                        Power(joints, t, "joint", i) = Power(joints, t, "actuator", i)
=============================================================================
