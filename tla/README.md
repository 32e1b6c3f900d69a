# TLA+ models of ros2_control

These modules model the parts of `ros2_control` that several threads and many
failure paths share: the controller manager, its services and its control loop,
the resource manager with its hardware components, the clients that bring
controllers up, and the computations in between: the order of controllers, their
rates, the limits of joints and transmissions.  Paths below are relative to the repository.
Short names: *CM* is `controller_manager/src/controller_manager.cpp`, *HPP* its header
`controller_manager/include/controller_manager/controller_manager.hpp`, *RM*
`hardware_interface/src/resource_manager.cpp`, *HC* `hardware_interface/src/hardware_component.cpp`,
*HI* `hardware_interface/src/hardware_component_interface.cpp`, *CB*
`controller_interface/src/controller_interface_base.cpp`, *CP*
`hardware_interface/src/component_parser.cpp`.

## 1. The system

| part | state | operations | interacts with |
|---|---|---|---|
| controller list (`RTControllerListWrapper`, CM 3713-3790) | two lists, index of the updated one, index of the one the loop uses, `controllers_lock_` | `get_unused_list`, `switch_updated_list`, `update_and_get_used_by_rt_list` | every service; the loop reads it in read, update and write |
| controller manager, services | specifications and states of controllers, chains between them, the request lists | load, configure, cleanup, unload, `switch_controller_cb` | claims and offers interfaces in the resource manager; hands switches to the loop |
| controller manager, loop | the controllers in use, buffers of failed and fallback controllers | `read`, `update`, `write`, `manage_switch` | calls controllers and hardware; takes `controllers_lock_` to publish activity |
| hand-over of a switch (`SwitchParams`, HPP 732-746) | three flags, a mutex, a condition variable | the end of `switch_controller_cb`; the end of `update` | service thread and loop |
| start-up (CM 775-1105) and shutdown (CM 690-711) | the storage of components, the components still to be activated, the group in progress | `robot_description_callback`, `set_initial_hardware_components_state`, the pre-shutdown callback | the transitions of hardware; the loop's cycles |
| resource manager | available and claimed interfaces, group states, result of a cycle, map of hardware to controllers | claim, release, import and remove interfaces, `set_component_state`, `read`, `write`, `enforce_command_limits`, mode switches | hardware components, limiters |
| hardware component | lifecycle state | configure, cleanup, shutdown, activate, deactivate, error, read, write | the vendor's callbacks |
| asynchronous component and controller | a worker thread, the result it left, a kept exception, a flag that skips triggers | trigger, pause, stop; lifecycle transitions | loop, services, the worker (`AsyncFunctionHandler` of realtime_tools) |
| command handles | values of command and state interfaces | `set_value` through a limiter, with retries | controllers, limiters, hardware |
| limiters | limits, the last command | `enforce`, `reset_internals`, the parameter callback | handles, parameters, the robot description |
| transmissions | ratios and offsets, the handles of joints and actuators | load, `configure`, `actuator_to_joint`, `joint_to_actuator` | a component's own values |
| order and rates | chains, the ordered list, the period since the last update | `configure_controller`; `update` | services, loop |
| spawner, unspawner | a file lock, the state last seen of a controller, the attempts of a call | list, load, configure, switch, unload calls; interrupt | the services |

What is hard in it:

* services, loop and workers share lists, flags, handles and the resource manager, partly with locks, partly with plain or atomic variables and by convention (double buffering, "wait until the loop is off the list");
* a switch request is checked now and performed later by another thread; controllers and hardware may fail in between;
* each callback of a controller or a component may succeed, fail, end in the error handling, or throw, and operations of several steps have to leave what they have done in order;
* chains: a controller's command interfaces may be another controller's references, so activation order, update order, mode ("chained" or not), availability and claims belong together;
* hardware groups share a result which members read in the order of the components, come up together and are rolled back together;
* results of a worker are read a cycle later, when the component may have been stopped and started again;
* a limiter remembers what it let through; modes, failures and parameters change under it;
* waits time out, answers get lost and calls are made again, spawners are interrupted.

What makes each part correct is the list of properties in section 4; the hazards, each
at its line with the properties that cover it, are in `PROJECT.json`.

## 2. The modules

| module | models | source |
|---|---|---|
| `ControllerSnapshots` | abstract: the loop takes snapshots of whole published lists | - |
| `RTControllerList` | the double buffer, the two indices, the waits, the lock both sides take | CM 3713-3790, its callers |
| `AtomicSwitch` | abstract: a switch call is opened, performed at most once, closed with a fitting answer | - |
| `SwitchHandshake` | flags, mutex and condition variable between service and loop, both ways of `manage_switch` | CM 1828-1839, 1930-2436, 3311-3369, 3574-3586 |
| `SwitchRequest` | the checks of a request as a pure function of the state of the manager | CM 1930-2364, 3790-4200 |
| `ControllerManager` | lifecycle of controllers, switching in the loop, claims and availability, failing updates with fallbacks, failing hardware | CM, RM claims |
| `HardwareComponents` | lifecycle of components, `set_component_state`, groups, `read` and `write` cycles | RM 450-1400, 2430-2620, HC |
| `Startup` | extends `HardwareComponents`: descriptions, loading, initial states, groups and rollback, shutdown | CM 690-711, 775-1105, RM 172-301, 684-781, 1529-1622, 2673-2749 |
| `AsyncHardware` | worker, triggers, results and transitions of an asynchronous component | HI 66-118, 406-576, HC |
| `AsyncController` | thread, triggers and stopping of an asynchronous controller, from both sides | CB 117-168, 246-285, 328-438, CM 2338-2399, 3410-3584 |
| `CommandPath` | uses `JointLimits`: `set_value`, the check of the loop, mode switches, a joint that moves | `handle.hpp`, `loaned_command_interface.hpp`, RM 856-1169, 2171-2396, `mock_components/generic_system.cpp` |
| `JointLimits` | the ranges of joint limits, the saturating and the soft limiter | `joint_limits/src` |
| `DescribedLimits` | uses `JointLimits`: limits from the URDF and the ros2_control tags | CP 811-1105, `joint_limits_urdf.hpp` |
| `TrajectoryLimiter` | the limiter of trajectory points for several joints | `joint_saturation_limiter.cpp` |
| `LimitParameters` | limits read from parameters and changed by a callback while `enforce` runs | `joint_limits_rosparam.hpp`, `joint_limiter_interface.hpp` |
| `ControllerOrder` | chains, the insertion into the updated order, the group of a chain | CM 452-496, 4812-4941 |
| `UpdateRate` | configured rates and the cycles that update a slower controller or component | CB 199-242, CM 3431-3500, RM 1541-1546 |
| `Transmissions` | loading, configuring and using the three transmissions | `transmission_interface` |
| `Spawner` | spawners, unspawners, their lock, retries and interrupts, and the services they call | `spawner.py`, `unspawner.py`, `controller_manager_services.py` |
| `*Proofs` | theorems about the module of the same name (`HardwareProofs`: `HardwareComponents` and `Startup`; `AsyncProofs`: `AsyncHardware` and `AsyncController`; `AlgorithmProofs`: `UpdateRate` and `LimitParameters`) | |
| `MC*` | instances for TLC | |

`ControllerManager` uses `SwitchRequest` for what a request is turned into, and takes
hardware as a set of interfaces that come and go; `HardwareComponents` opens that box, and
`Startup` runs it from the first description to the last shutdown.
`RTControllerList` and `SwitchHandshake` open two others: in `ControllerManager` a list
and a hand-over are atomic, which is what these two show (and where it does not hold).
`ControllerOrder` computes what is `SortedList` there.  `AsyncHardware` and `AsyncController`
open one component and one controller.  `DescribedLimits` makes the limits from which a limiter
of `JointLimits` computes its ranges, and `CommandPath` puts such a limiter between controllers, loop and joint.
`MCAlgorithms` and `MCAsync` each join parts that share no state: the initial state
picks one.

### From code to model

* **`RTControllerList`.** `updated`, `used_by_rt` and `controllers_lists` are the members
  of the wrapper.  The services run under `controllers_lock_`, so one thread (`svc_pc`)
  stands for all of them; its actions are the steps of a service between two accesses to
  the indices.  `update_and_get_used_by_rt_list` is two steps, a read and a write.
  `RtWantLock` is `publish_activity` called in the loop.  `Shutdown` ends the waits by
  an exception, as in the code.
* **`SwitchHandshake`.** One action per access to a flag or the mutex (the flags that one
  reset writes are written together).  What is switched is only tracked as far as the
  properties need it: `lists` says whether the request lists are empty, being filled or
  checked, and `outcome` what `manage_switch` did with them.  `cv.wait_for` is the action
  that looks (`LookFirst`, `WakeUp`) and the one that gives up (`SleepTimesOut`).
* **`SwitchRequest`.** The request lists are records handed from one operator to the
  next; the checks run in the code's order, so a controller dropped by a later check
  still counts for an earlier one, as in the code.  AUTO and FORCE_AUTO are treated as
  BEST_EFFORT by the code, so strictness is a Boolean.  The loops of the code are recursive functions
  over the turns (`after[k]` is the request after `k` of them), which proofs can unfold; the recursion
  of `check_following_controllers_for_activate` is the sequence of its checks, in their order (`FollowingSteps`).
* **`ControllerManager`.** `list` is the ordered list, `state` and `chained` belong to
  the controllers, `holds` are the loaned command interfaces, `exported` the controllers
  whose interfaces the resource manager knows, `available` and `claimed` its lists,
  `cached` its map of hardware to controllers.  A service is one action, as it holds
  `controllers_lock_`; a switch is at least three: `SwitchController` with the checks, `ManageSwitch` with
  everything up to the first activation, two steps for each controller to activate (`Assign` claims and assigns its
  interfaces, `OnActivate` makes the transition and its consequences), and `FinishActivation`.
  `request.asap` is `activate_asap`: with it the loop performs the switch, and does nothing else meanwhile; without it the
  thread of the service does (CM 2416), and the loop goes on with reads, updates and writes: `HardwareFails`,
  `HardwareReturns` and `UpdateFails` come between any two of these steps (`LoopIsFree`), as the code deactivates controllers there
  without the mutex of the switch (CM 3303, 3563).  The loop activates controllers as well, the fallbacks of those whose update has failed
  (`jobs["update"]` beside `jobs["switch"]`), step by step and beside a switch of the service;
  `Publish` is its wait for `controllers_lock_` afterwards, and `write` asks for that lock before it deactivates anything.
  A controller that is being switched is not updated (`Skipped`), but is deactivated when another of its chain fails.
  `stopped` is history: what the loop has deactivated since the switch began.
  The set `Faults` says which callbacks may fail; `Outcomes` gives the states a
  lifecycle callback may end in.  A switch may end before it begins (`SwitchEnds`): the hardware refuses the modes or the loop is late.  An exception that nothing catches is the state "terminated".
* **`HardwareComponents`.** All interfaces of a component enter and leave the lists
  together, so `available` is a set of components.  `set_component_state` with its chains
  of transitions is one action with all its outcomes; a cycle is one action per component,
  since a group's state is read and written in between.
* **`Startup`.** One action per transition of one component (`SetListed`, `ConfigureMember`,
  `ActivateMember`, `RollBack`, `ActivateUngrouped`, `ShutdownComponent`), as each takes
  `resources_lock_` on its own; a whole cycle of the loop, which holds that lock throughout,
  is one action (`LoopStep`) between any two of them.  Loading takes every combination of
  components that load, fail, or lack an interface.
* **`AsyncHardware`, `AsyncController`.** The loop's load of a result and its trigger are two
  steps, as the worker may finish in between; so are the wait of a transition for the worker
  (`pausing`) and its call of the driver (`callback`).  `fresh` is history: the runs that have begun since the
  last activation.
* **`CommandPath`.** `set_limited_value` is two steps for an asynchronous controller, the limiter and the
  handle; `enforce_command_limits` is three for the loop, reading the handles one by one,
  enforcing, storing them.  `memory` is the limiter's last command.  Numbers are integers and
  the period is the unit of time, in this and all modules of limits; comparisons with NaN are false, and
  `std::min`, `std::max` and `std::clamp` treat it as the library does.
* **`Spawner`.** A client is at one place of its program, and calls a service by an action that puts a request
  among `requests`; serving it and getting its answer are separate, and either may be too late.
  `meddled` is history: who else has changed a client's controllers.
* **`Transmissions`.** A handle is a record with its name, its interface and its cell; a name is a number in the
  alphabetical order of the strings, by which `get_names` orders handles.  A rejected configuration keeps what had been
  assigned before the exception.
* **`UpdateRate`.** Time is counted in ticks, some to a cycle; a comparison of rounded periods is a comparison of
  products of integers.
* **`LimitParameters`.** Parameters are set one or two at a time; the callback may run while
  `enforce` stores the limits it copies (`SetWhileEnforced`).

## 3. Simplifications

* Controllers use INDIVIDUAL interface configurations; exporters of interfaces are
  chainable; in `ControllerManager` chains have no cycles (`SortedList` is an order of the chains).
* In `ControllerManager`, what `deactivate_controllers` does to the controllers of one call is one step, with the modes and the
  offers before the first activation (`Start`), and so are the claims of one controller (`Assign`) and its transition with
  what follows it (`OnActivate`).  Thus the loop and the service never transition the same controller at the same
  moment: what two such calls do inside one controller is not modelled, only their orders.
* No other service runs beside a switch, as the caller of a switch holds the lock.  Requests are checked, and controllers cleaned up, also while
  the loop activates fallbacks; loading, configuring and unloading, which change the list and wait until the loop has left the former one,
  are one step each and not put between these activations.
* How `manage_switch` is handed over and its mutex are in `SwitchHandshake`, not in `ControllerManager`.
* A component whose read or write rate skips a cycle counts as OK in that cycle.
* The components' own try-locks in read and write never fail, since whoever else
  takes them holds `resources_lock_`.
* Drivers and controllers are nondeterministic: every return value and an exception.  Only the joint of
  `CommandPath` moves as the mock system does.
* In `Spawner` the controllers fail in their callbacks but do not change state by themselves.
* The limits of a description are sane: tags do not contradict the URDF.  Jerk is left out.
* Logging, statistics and messages are left out.

## 4. Runs

| run | bounds | shows |
|---|---|---|
| `RTList` | 2 controllers | `SafelyModified`, refinement of `ControllerSnapshots`, and `SwitchReturnsOrMeets` |
| `Hardware` | actuator and sensor in a group, a system on its own | `ConfiguredIsOffered`, `FailedReadIsDown`, `LoopNeverActivates`, `GroupErrorSpreads` |
| `CMChain` | a chain of three controllers, the last of which also offers a state that the middle one reads; requests with up to 2 names in each list, performed by the loop or by the service beside it; activate, update, read, write and mode change may fail, 677809 states | `ActivatedAreFollowed`, `StoppedAreUnused`, `FollowersAreChained` |
| `CMFaults` | a chainable controller on the hardware with 2 users, one of which is the fallback of the other; requests with up to 2 names in each list, performed by the loop or by the service beside it; configure, cleanup, activate, update, read, write and mode change may fail, 572186 states | `HardwareClaims`, `OnlyActiveHold`, `StrictIsAtomic`, `UsersAreStopped` |
| `Handshake` | one service, one loop, no bounds needed | refinement of `AtomicSwitch`, `CallReturns` |
| `Async` | one controller, or one component that is read and written | `ControllerIsIdle`, `DriverHasOneCaller`, `StoppedByFreshFailures`, `FailingAreStopped` |
| `Spawner` | 6 pairs of clients, 2 controllers, 2 attempts of each call, 2 of the lock | `OnlyOutsidersMeddle`, `SeenIsCurrent`, `SuccessMeansDone`, `EveryClientEnds` |
| `Startup` | a group of 2, a sensor on its own, 3 settings, 2 descriptions | `ServicesHaveAllHardware`, `ShutDownIsFinal`, `GroupComesUpWhole`, `StartupEnds` |
| `CommandPath` | one joint between -3 and 3, 11 set-ups of limits, targets, asynchronous controllers and `activate_asap` | `PositionIsInLimits`, `CheckedVelocityStaysInside`, `CheckedStepIsBounded`, `TargetIsReached` |
| `Algorithms` | see below | `TreesAreOrdered`, `ChainGroupIsWhole`, `RangesAreAsDescribed`, `NoJointPassesItsMaximum`, `GivenIsNominal`, `LimitsAreTakenOver`, `TransmissionsAreLossless` |

`Algorithms` takes every set of links between 4 controllers, by references or by
states, and the trees of 5, in every order of the hash table; 31 joints of a description with tags that narrow, widen,
switch off or cannot be read, at and beyond their limits; two joints that go where
the limiter of trajectory points lets them, from rest, with a slower or no own deceleration and commands beyond their limits;
managers of 7, 10 and 20 Hz with controllers of any lower rate, or none, and cycles up to a quarter of a period off;
and parameters of a joint with two numbers per kind, set one or two at a time, where after an
impatient change (two at once, or before the last was taken over) only `enforce` follows;
and the three transmissions with 6 descriptions and handles of 2 or 3 interfaces that may be missing, without a value, or in another order.

The bounds are enough for what can go wrong.  A chain of three has an end, a beginning and a controller that is
both; a request names up to two of them to start and two to stop, in every order, so that it covers all three and some twice, what is checked for
the first may be undone by the check of the last, and the loop may stop the first of two controllers before the second is activated;
in `CMFaults` three controllers give a chain and a competitor for its reference, which comes by request or as a fallback, and two names per list give every
combination of restart, conflict and dependency among them; two lists and two indices are
the whole double buffer; three components give a group with a member before and after
another in the order of the cycle and one outside it.  The asynchronous parts and the hand-over
have finite state as they are.  Two spawners are two that compete for the lock, two attempts
are one call and one repetition that overlaps it.  Four controllers give a chain that branches and joins; five add a tree
in which both sides of an insertion have a branch.  Limits are near enough for a joint
to pass them in one period, and far enough to brake in two.  The transformations are linear, so that two values and ratios of
either sign, within and beyond one, tell the formulas apart.

Deadlock is not checked where the process or its clients may end: after a shutdown in `RTControllerList`
and `Startup`, in the state "terminated" of `ControllerManager` and `CommandPath`, when the clients of `Spawner`
have ended, and in `Algorithms`, whose computations have no next step.

Two runs end in a violation: each states what a document or a comment says and finds
a run of the code that does otherwise.

| run | statement | what happens |
|---|---|---|
| `ChainIsCut` | `controller_manager/doc/controller_chaining.rst` 47: "If any of the controllers is deactivated, also all preceding controllers needs to be deactivated." | base, mid and nav are active and a BEST_EFFORT request deactivates base and mid: base is accepted since mid, which commands it, is in the list; then mid is dropped, since nav stays active (CM 2153), and nobody looks at base again: it is stopped and mid stays active in front of it |
| `FallbackForgotten` | `controller_manager/doc/userdoc.rst` 752: the manager stops the controllers of a component that failed | a fallback the loop has started is in no map from hardware to its users (written at CM 2293-2308 only), and goes on |

Every property of a passing run has a mutant, a changed definition that breaks it; the
mutants stand before the definitions they change and are named in `PROJECT.json`.

## 5. Fairness

* `RTControllerList`: weak fairness of the operation in progress and of the loop.  Both
  are threads the system schedules; no service needs to be called, nobody needs to shut
  down, and nothing needs to fail.
* `SwitchHandshake`: weak fairness of the service (`Serve`) and of the loop (`Cycle`).  A wait
  that times out is part of `Serve`, as the clock goes on.
* `HardwareComponents`: weak fairness for the steps of a cycle, strong fairness for its
  beginning: a cycle may find the resources taken, but the loop tries again and again
  and a request does not hold them for ever.
* `AsyncHardware`, `AsyncController`: the loop is periodic, the worker's run and the driver's callback
  return, a service that has begun goes on.  Requests need not come, and nothing needs to fail;
  `FailingAreStopped` asks that requests do not keep the component's mutex for ever, since the loop only tries it.
* `Spawner`: a request that waits is served, and a client that can go on does: a lock that is
  free is tried again, a call that has no answer times out.  Nobody needs to be interrupted.
* `Startup`: the start-up and the shutdown go on; the loop gives back the lock they wait for
  after every cycle.  Descriptions need not come.
* `CommandPath` has no fairness: `TargetIsReached` is about behaviours in which the controller is updated again and
  again, and says so in its premise.
* `ControllerManager` and `MCAlgorithms` have safety and action properties only.

## 6. Proofs

TLAPS proves these for all values of the constants; there are no assumptions besides the
named `ASSUME`s of the modules and those the theorems name: on what may fail (`Faults`) where a failure breaks the property,
`HandleExceptions`, the absence of soft limits, and `~LongPreemption`.

* **`RTControllerListProofs`**: `TypeCorrect`, `ListSafelyModified`,
  `FormerListIsAbandoned` and `DoubleBufferIsSnapshots`, from the state in which the loop
  has taken a list once.  The invariant: outside the wait of `switch_updated_list` the used index is
  the updated one (`UsedIsUpdated`); an index the loop has read and not yet stored is the updated
  one, or during a wait the used one (`LoadedIsCurrent`); a reference of the loop is to
  the used list (`HeldIsUsed`).  `SafelyModified` alone is not inductive: it says nothing of
  a loop that has read an index and not yet stored it.
* **`HardwareProofs`**, the first part, about `HardwareComponents`: `TypeCorrect`, `ConfiguredHardwareIsOffered`,
  `FailedReadsAreDown` and `TheLoopNeverActivates` for any components, groups and order.
  The invariant is the conjunction of the type invariant, which keeps the place of a cycle within
  the order, and the two state properties; the lemmas say, transition by transition, what
  becomes of one component and that the others stay as they are.
  The second part, about `Startup`, rests on these lemmas: `ServicesStartWithAllHardware` (assuming `HandleExceptions`, without which it does not hold, see section 7),
  `ShutDownStaysFinal` and `GroupsComeUpWhole`, for any components, groups, orders, settings and descriptions.  A step of
  the loop is a whole cycle, a number of steps of components that no bound is known of: the lemma `CycleProgress` says what one step
  of a cycle keeps, and `CycleIsReachable` extends it to all of them.  The induction over the numbers of steps is by a least
  counterexample (`Least`, from the well-founded order of the naturals), since the induction theorems of the library cannot be used.
* **`ControllerManagerProofs`**, in four parts.
  - *Loops.*  The checks of a request are loops, and an induction over their turns is needed that the library's theorems cannot give.
    `NatSetInduction` is induction over the numbers for a set, `LoopRuns` says that the values of a loop exist, turn by turn, and
    `LoopInvariant` that its end keeps what each turn keeps; `ThoseAre` and `FlatIsWhole` say what sequences of a selection
    and of a concatenation contain.
  - *Checks.*  `RequestsAreChecked`: whatever names are requested and whatever the state, what `switch_controller_cb` hands
    over has only listed controllers, and if the request is strict, what it stops or restarts is active, what it just
    activates is inactive with followers that are active and stay so or are activated too, and nothing in front of what it just stops
    stays active (`StrictlyChecked`); and of a request of either strictness, that what it just activates is inactive and commands
    controllers that will be in chained mode (`ChainsChecked`).  One lemma for each check, in its order, says what it demands and what
    later checks may change of what earlier ones have seen.
  - *Claims.*  `HardwareIsCommandedOnce` and `InactiveHoldNothing` for any controllers, interfaces, chains, fallbacks, faults (also of
    deactivation, which no run has) and length of requests.  The invariant joins the two properties, the types of `state` and
    `holds`, and the progress of the two activations (`JobsInv`): a claim is given up with what is held, and only an active controller, or
    one of at most two that are just being activated (`Assigned`), may hold anything.  Nothing is needed of the
    checks of a request, since `CanClaim` looks again, by whichever thread and whatever the other does between two steps of it.
  - *Switches.*  `StrictSwitchesAreAtomic`, if on_deactivate does not fail; and, if moreover no update fails,
    `ActivatedChainsAreWhole`, `StoppedControllersAreUnused`, `FailedHardwareIsUnused` and, for switches of either strictness,
    `CommandedControllersAreChained`, whatever else fails, and whichever thread performs the switch.  The properties say how a
    switch ends, and the checks when it was requested, while hardware may fail, and be back, in between: before the switch, and without
    `activate_asap` between any two steps of it.  So the invariant says
    that what was checked is still so *or does no harm any more*: a follower of a controller to activate is active or to be activated, or
    its interfaces have been withdrawn, so that the controller cannot claim what it needs (`ActivatedInv`); a controller to stop is used by
    nobody but controllers that stop with it, or its interfaces are withdrawn (`DeactivatedInv`); a controller that is commanded will be in
    chained mode, being stopped if it has to change it, or its interfaces are withdrawn (`ChainsInv`); and once the switch has begun, it may also
    be one that the loop has deactivated beside it (`stopped`), which is empty if the loop performs the switch (`SwitchInv`).  That is why
    the properties leave `Disturbed` out: without `activate_asap` the code gives no more.  `StoppedAreUnused` needs no such exception.  To that come the list (`ListInv`), the
    progress of the activations (`SwitchInv`), the chains known to the checks (`LinksInv`) and who is noted at the hardware (`CacheInv`).
    The invariant was first checked by TLC in the chain of three with all faults but those two (692562 states).  The assumptions are
    needed: with failing updates TLC finds fallbacks, activated without checks, that violate `ActivatedAreFollowed`, `StoppedAreUnused` and
    `FollowersAreChained` (in a chain of three whose members are each other's fallbacks, when activations fail, too) and `UsersAreStopped` (the run
    `FallbackForgotten`); without fallbacks failing updates do no harm in `CMChain`; with failing
    deactivations it finds controllers that stay active against the switch, which violates the first three and `StrictIsAtomic`.
* **`SwitchHandshakeProofs`**: `TypeCorrect` (with the owner of the mutex) and
  `NoTwoSwitchers` hold however long the loop is preempted.  `HandOverIsAtomic`
  needs `~LongPreemption`; the invariant ties each place of the service to what the flags
  and the outcome may be, and each place of the loop to the places of the service it may meet.
* **`AlgorithmProofs`**: `UpdatesAreNominal` for every rate, period and jitter: the rate in use is
  between 1 and the manager's, and the period an update is given differs from the nominal one by at most half a cycle
  and twice the jitter.  The invariant `Waits` says that time which has passed since the last update
  is that of a controller the rule did not let go in the latest cycle: without it the time could be anything.
  Products of two unknown numbers are beyond the solver, so the lemmas name them and compare them by `TimesOrder`.
  `ParametersAreTakenOver` for any kinds of limits, any numbers of a kind and any initial parameters: the copy the callback changes
  goes through one record field by field, so the lemmas say what the loop over the parameters makes of each field, and the
  invariant ties the three copies (`joint_limits_`, `updated_limits_`, the parameters) to each other while nobody is impatient.
* **`AsyncProofs`**: `StoppedControllerIsIdle`, `OneCallerOfTheDriver` and `OldFailuresStopNothing`, for an actuator or a sensor and
  for every interleaving of loop, services and worker.  The properties are not inductive: they need to know
  for each place of a transition whether the worker may be in a run, have one pending, or hold a result, and from which
  activation that result is.
* **`CommandPathProofs`**: `PositionStaysInLimits` for any limits, soft limits, targets and threads; and `VelocityStaysInside` for any
  joints without soft limits (the memory of a soft limiter may be of another position, so that its range of velocities and that of
  the limits need not meet).  The lemmas follow a number through the limiters: what a range is from and to (`HardPositions`, `SoftPositions`,
  `HardVelocities`), whatever the limiter remembers, and what is therefore let through (`LimiterResult`).  The invariant follows it from there on:
  not only the handle holds a checked command, but also the thread that has not yet set it and the loop that has not yet stored it
  (`PositionsChecked`), and for a velocity only until the joint moves (`VelocitiesChecked`).  `IsSetup` says what the
  proofs need of a joint: limits in order, and soft limits within them.  It is not checked by the code: soft limits that miss the others
  altogether win (`joint_soft_limiter.cpp` 189-192), and the command leaves the limits.
  `CheckedStepsAreBounded`, for joints without soft limits and controllers of the loop: a checked position moves the joint by a step of the
  largest velocity at most, or puts one that is out of its limits back to the nearest.  The limiter measures the step from what it
  remembers and not from the joint, so the invariant `StepIInv` says that in position mode a memory is the command in the
  handle or where the joint is: through updates that throw between limiter and handle, checks that are skipped and leave
  the handle unchecked for a cycle, and mode switches by request and by failing controllers, which reset the memory only when they succeed.
* **`SpawnerProofs`**: `LockKeepsSpawnersApart`, `WhatIsSeenHolds` and `SuccessIsEarned` for any clients, programs, controllers, attempts
  and faults.  The invariant: who is at a place behind the lock holds it (`LockIsHeld`); every request of a client that was not interrupted
  is an attempt of the call it is at, and is live only if it is the latest (`RequestsAreCurrent`); and while nobody has meddled
  with a client's controllers, what it relies on holds (`Undisturbed`): an answer on its way is true or explained by an earlier attempt
  (`AnswerHolds`), what is known of the controller in hand is so (`CurrentIsKnown`), those done before are done (`FormerAreDone`), and a load
  that is served late finds its controller loaded (`LateLoads`).  `ProgramAssumption` says that a program names a controller, as
  the command line demands (`spawner.py`, `nargs="+"`): a spawner without any would report success for nothing.

Only model-checked: the liveness properties, which are beyond the prover (`GroupErrorSpreads`, `SwitchReturnsOrMeets`, `CallReturns`, `FailingAreStopped`, `EveryClientEnds`, `StartupEnds`,
`TargetIsReached`); `TreesAreOrdered` and
`ChainGroupIsWhole`, as `ControllerOrder` is recursive; `RangesAreAsDescribed` and `NoJointPassesItsMaximum`, which are about particular
joints and their nonlinear ranges; `TransmissionsAreLossless`; and `UsersAreStopped` when updates fail, for fallbacks that use no
hardware, as in `CMFaults`.

`LongPreemption` is what `SwitchHandshake` assumes of the scheduler.  The loop looks at `do_switch`
without the mutex and takes the mutex afterwards.  With `LongPreemption = FALSE` a new call
begins only when the loop has left the piece of code from that look to the end of `manage_switch`,
that is, the loop is not held up there while the call times out, returns and a client calls again.
With a period of milliseconds and a timeout of seconds this is the usual case but nothing
in the code enforces it: with `LongPreemption = TRUE`, TLC violates `OnlyCheckedIsPerformed` (section 7).

## 7. Differences between documents and code seen while modelling

The two runs of section 4 that end in a violation are the clearest cases.  The following properties are
stated in the modules as well; adding one to the configuration of its run, with the change named, shows the counterexample.

| run | property | statement, and what the code does |
|---|---|---|
| `RTList` | `SafelyModified`, from `Init` instead of `InitRunning` | HPP 614: the unused list "can be modified safely until switch_updated_controller_list() is called".  Before the first cycle the index of the list in use is -1 (CM 3716), so the list handed out may be the one the first cycle takes |
| `RTList` | `SwitchReturns` | HPP 584, 632: the services wait for the loop.  The loop may wait for `controllers_lock_`, which the service holds, in `publish_activity` (CM 3571) |
| `Hardware` | `ErrorIsReported` | `userdoc.rst` 752: when a component returns ERROR its controllers are stopped.  A later member of its group overwrites the result of the cycle with DEACTIVATE (RM 2593) |
| `Hardware` | `FinalizedIsFinal` | `handling_errors_during_read_write.rst` 8: a finalized component "can not be recovered".  `error()` of one in a group in error makes it unconfigured (RM 2413-2470, HC 220-246; compare RM 600) |
| `CMFaults` | `ReferenceClaims`, with `Faults = {"activate"}` | `resource_manager.hpp` 321: a command interface "can only be claimed by a single instance".  A BEST_EFFORT request activates `nav` and fails to activate `base`, whose interface `nav` has claimed; `base` is configured again, which erases the claim (CM 1629, RM 1183), and `tele` claims the interface as well.  `nav` writes to an interface that `base` no longer looks at, and what it releases later is the claim of `tele`.  Without faults it takes a chain of three and a fourth controller on the references of the middle one |
| `CMChain` | `FailedIsUnused` | `userdoc.rst` 752: when a component returns ERROR, the controllers that use its interfaces are stopped.  Without `activate_asap` the service activates controllers while the loop reads (CM 2416): one that has its interfaces and is in `on_activate` when the read fails is not active, so that `deactivate_controllers` (CM 2544, 3303) leaves it, and is active on the failed hardware afterwards |
| `CMChain` | `StrictIsAtomic`, without `Disturbed` | `SwitchController.srv` 1-3: a switch is made "all in one single timestep".  Without `activate_asap` a read error while the service activates the controllers stops those that are active already (CM 3303 does not take the mutex of the switch); the others are activated all the same, or the switch ends well with a part of its controllers stopped.  A follower stopped this way leaves chained mode (CM 2555), which is the exception in `FollowersAreChained` |
| `CMFaults` | `ChainedIsClaimed` | `controller_chaining.rst` 51, CM 2032: the search for followers that leave chained mode (CM 3852) ends at the first controller to be stopped that is not active, so the followers of later ones stay in chained mode without a user |
| `Handshake` | `OnlyCheckedIsPerformed`, with `LongPreemption = TRUE` | `SwitchController.srv` 9: STRICT means that a request with anything wrong fails.  A loop preempted at CM 3576 may perform the lists of a later call before they are checked |
| `Async` | `NeverSilenced` | `controller_interface_base.hpp` 365-375: the flag that skips triggers is set at CM 2347, and a request rejected at CM 2358 or 2390 leaves it set, so an active controller is never updated again |
| `Startup` | `ParametersAreKept` | CM 795-799: a second description replaces the resource manager by one with default parameters (not those of `controller_manager_parameters.yaml` 67-82), while the loop may use it |
| `Algorithms` | `OrderIgnoresChain` | HPP 504-509: controllers are inserted in the correct order so that dependencies are satisfied.  Controller 1 commands 2 and 4, 2 commands 3, 3 commands 4; when 3 comes first in the hash table, 1 is put next to it and 4, and never before 2 and 3 both (CM 4849) |
| `Startup` | `ServicesHaveAllHardware`, with `HandleExceptions = FALSE` | `controller_manager_parameters.yaml` 19-24: without `handle_exceptions` an exception crashes the controller manager.  RM 1551 notes that components are loaded, and `init_resource_manager` catches the exception all the same |
| `Algorithms` | `NoJointPassesItsLimits` | `joint_saturation_limiter.hpp` 31: values are clamped to their ranges.  The lower limit is passed, since the motion after stopping (`joint_saturation_limiter.cpp` 286, 290) is signed and less than any distance to that side |

Seen as well, and part of the models though no property is about them:

* **Hardware.**  A transition that ends in the error handling leaves the interfaces available (RM 521-579;
  `lifecycle_of_a_hardware_component.rst` 16-18).  A group's DEACTIVATE becomes an error in the next read (RM 2482), and
  configures a member that was unconfigured (RM 2588).  Removing interfaces drops the claims on them (RM 1177).
* **Switches.**  A controller that is restarted takes its followers out of chained mode (CM 2056, `Restarted`); fallback
  chains are activated without the steps to chained mode (CM 3563) and not entered as users (CM 3566); an aborted request leaves
  interfaces available, and a lookup may throw outside any `try` (CM 4009, `LookupThrows`); preceding controllers of a stopped
  one stay active (CM 2767, 3302); a deactivation that fails releases the interfaces (CM 2549, `Released`); a cleanup that
  fails has removed the exported interfaces already (CM 1491, `Cleanup`).  A timeout of zero is one second (CM 2369), and a switch without
  `activate_asap` may span cycles (CM 2416; `SwitchController.srv` 1-3, 33), between which the loop deactivates controllers (the two rows of `CMChain` above).  A restarted controller counts as giving its hardware free, so that
  a competitor passes the check for interfaces; it cannot claim them when the loop comes to it, and a strict switch then stops
  controllers that ran before.  Interfaces a rejected request has left available can be observed by a controller whose follower is
  not active.  Unloading a controller that is unconfigured after a failed activation leaves its interfaces in the resource manager.
* **Asynchronous parts.**  The result a cycle reads before its trigger (HI 416) may be overwritten by the run that ends in between.
  A kept exception is thrown again in every cycle.  The claims of a failing controller are released (CM 3494-3511)
  while the update it was triggered for runs.  The thread is stopped though the cleanup may fail afterwards (CB 123).
  Configuring again overwrites the rate that was asked for (CB 222-246).
* **Spawner.**  A call that was executed and whose answer was lost is made again and then reports a failure.  A spawner
  that is killed with `-u` leaves its controllers; `--inactive` with `-u` never unloads; `--load-only -u` fails; an interrupt before
  the lock is taken, with `-u`, ends in an `AttributeError`.  Calls of a spawner that is gone are served late.  With a timeout of zero
  the wait for a service has no end.  `list_controllers` gives each chain connection all reference interfaces.
* **Start-up.**  `ListedIsNotActivated` is kept in the module and not run.
* **Command path.**  A joint that `OutOfBoundsTolerance` lets stand farther out of its limits than a step is put back to its limit in one
  (`CheckedStepIsBounded` allows it).  With an asynchronous controller that property does not hold, since each check and each retry
  moves the limiter's memory; with limited acceleration `CheckedVelocityStaysInside` does not hold
  (`check_and_swap_limits`).  The `runtime_error` of a limiter is not caught in `enforce_command_limits`.  A mode switch of
  `activate_asap` after `enforce` lets an old command act unchecked in the next read.  The first command while the state is not known
  is not limited.  The check is skipped while `set_component_state` has `joint_limiters_lock_` (RM 2356).  A velocity command nobody claims
  keeps the mock joint moving.  Resets happen on success only, and for all joints; RM 2212 returns without a rollback.
* **Limiters.**  The soft limiter's ranges of velocity and effort may be upside down, and `std::clamp` is not defined then (the comment
  `joint_soft_limiter.cpp` 189-192 is about positions only, and so is that part of `RangesAreAsDescribed`).  With limited acceleration a limiter that
  starts from too fast a joint lets a velocity beyond the maximum through (`TooFast`).  In trajectory points
  a velocity of zero without a position counts as not given and is computed from the position
  (`joint_saturation_limiter.cpp` 119-127), and the clamp of a position may ask for more than the largest acceleration.
  A tag of acceleration with one number switches on its own limit only; disabling an interface's limits leaves its numbers.
* **Parameters of limits.**  A change starts from `joint_limits_` and not from `updated_limits_`, so one that comes before the next `enforce` loses
  the one before, though both are logged as taken over (`joint_limiter_interface.hpp` 103, 115).  `changed` is assigned and not
  accumulated; switching the position limits off changes nothing; numbers alone may end with a minimum above the maximum; the
  callback always reports success; `joint_limits_` is assigned in `enforce` outside `mutex_` (line 211).
* **Transmissions.**  The four-bar linkage accepts handles of which one interface fits, or none (joints complete in position and actuators in
  velocity): `four_bar_linkage_transmission.hpp` 243, 255 and 265 ask for all three to be wrong; what does not fit is never transformed.
  Ratios are those of the description's order and handles are in the order of names, and nothing relates the two.  The two handles of a
  joint that is listed twice pass for those of two.  After a rejected configuration a transmission has the new joints with the former actuators.
* **Rates.**  A rate is rounded to one the manager can reach by a floor: 67 of 100 Hz becomes 100, though 50 is closer (CB 236-237).
  A controller that is configured again cannot raise its rate.  A clock that goes back starves the slower controllers.

## 8. Not modelled, and the plan

| part | why |
|---|---|
| component parser, except limits | turns XML into records, once, without state to get wrong over time |
| transmissions of a description (CP 583-688) | copies tags and interface names into the description that `Transmissions` starts from |
| messages, test assets, rqt plugin | data and display |
| command line, hardware spawner | single calls of services that `ControllerManager`, `Spawner` and `HardwareComponents` contain |
| soft limits from parameters, jerk | parameters of soft limits are read as the others are; jerk is one more clamp to a range, and the trajectory limiter does not look at it |
| several components in `perform_command_mode_switch` (RM 2212) | `CommandPath` has one joint; the early return leaves earlier components switched |
| interface configurations ALL and by regular expression | expanded into INDIVIDUAL ones before they are checked |
| introspection, statistics, diagnostics | they read and never write what is modelled |
| `reload_controller_libraries` | stops, unloads and loads as the other services do |
| `evaluate_switch_result` (CM 318-420) | turns the final states into a message |

Next, in this order: `CheckedStepIsBounded` for joints with soft limits; and a second component in the command path.
