-------------------------------- MODULE Startup --------------------------------
(***************************************************************************)
(* How a robot's hardware comes up and goes down: the robot description    *)
(* is received and its components are loaded, they are taken to their      *)
(* initial states, group by group, and when the process is asked to stop   *)
(* they are shut down.  The control loop runs all the while, and breaks in *)
(* between any two of these transitions with a cycle of its own; a request *)
(* to stop may come in the middle of the start-up.                         *)
(***************************************************************************)
EXTENDS HardwareComponents, FiniteSets

CONSTANTS
    Settings,           \* parameters of the manager: see SettingsType
    HandleExceptions,   \* handle_exceptions
    MaxDescriptions     \* how many robot descriptions may be received

\* hardware_components_initial_state: the state a component is listed for, or "active";
\* and its shutdown_on_initial_state_failure.
SettingsType ==
    [initial : [Hardware -> {"unconfigured", "inactive", "active"}], shutdown_on_failure : BOOLEAN]

ASSUME StartupAssumption ==
    /\ Settings \subseteq SettingsType
    /\ HandleExceptions \in BOOLEAN
    /\ MaxDescriptions \in Nat \ {0}

VARIABLES
    settings,           \* one of Settings
    phase,              \* the place of the start-up
    descriptions,       \* the robot descriptions received
    loaded,             \* hardware_info_map_: the components in the storage
    valid,              \* all components of the description are in the storage,
                        \* with all of their interfaces
    own_options,        \* the resource manager has the manager's parameters
    to_activate,        \* components_to_activate
    queue,              \* the components the current loop has left
    group,              \* the group in progress, or NoGroup
    activated,          \* successfully_activated
    spoiled,            \* a member was taken down by a cycle, or not rolled back
    closing,            \* the components shutdown_components has left
    stopping,           \* the process has been asked to stop
    resisted            \* the components that failed to shut down

load_vars == <<settings, descriptions, loaded, valid, own_options>>
group_vars == <<queue, group, activated>>
close_vars == <<closing, stopping, resisted>>
startup_vars == <<phase, load_vars, to_activate, group_vars, spoiled, close_vars>>
svars == <<vars, startup_vars>>

Phases == {"waiting", "unconfigured", "inactive", "groups", "configuring",
           "activating", "rollback", "running", "dead"}

StartupTypeOK ==
    /\ TypeOK
    /\ settings \in Settings
    /\ phase \in Phases
    /\ descriptions \in 0 .. MaxDescriptions
    /\ {loaded, to_activate, queue, activated, closing, resisted} \subseteq SUBSET Hardware
    /\ {valid, own_options, spoiled, stopping} \subseteq BOOLEAN
    /\ group \in Groups \cup {NoGroup}

StartupInit ==
    /\ Init
    /\ settings \in Settings
    /\ phase = "waiting" /\ descriptions = 0
    /\ loaded = {} /\ valid = TRUE /\ own_options = TRUE
    /\ to_activate = {} /\ queue = {} /\ group = NoGroup /\ activated = {}
    /\ spoiled = FALSE
    /\ closing = {} /\ stopping = FALSE /\ resisted = {}

-----------------------------------------------------------------------------
(* Loading.  It holds resources_lock_ from its beginning to its end: cycles *)
(* that fall into it do nothing.                                            *)

\* What may become of one component: its class cannot be loaded; it fails to
\* initialize; it does not export what the description says; it throws.
load_hardware == {"loaded", "not loaded"}
initialize_hardware == {"loaded", "not initialized"}
import_interfaces == {"loaded", "interfaces missing"}
Throwing == IF HandleExceptions THEN {} ELSE {"throws"}
Outcomes == load_hardware \cup initialize_hardware \cup import_interfaces \cup Throwing

\* All components are loaded and initialized, and have their interfaces.
validate_storage(outcome) == \A h \in Hardware : outcome[h] /= "interfaces missing"

load_and_initialize_components(outcome) ==
    /\ \A h \in Hardware : outcome[h] \in {"loaded", "interfaces missing"}
    /\ validate_storage(outcome)

\* An exception leaves the storage as it is, with the components loaded so far,
\* and components_are_loaded_and_initialized_ set.
LoadThrows(outcome) ==
    \E h \in Hardware :
        /\ outcome[h] = "throws"
        /\ loaded' = {k \in Hardware : outcome[k] = "loaded"}

\* Mutant: the components that could be loaded are kept.
init_resource_manager_keeping(outcome) ==
    /\ loaded' = {k \in Hardware : outcome[k] = "loaded"}
    /\ valid' = load_and_initialize_components(outcome)

\* The description is loaded as a whole, or the storage is cleared.
init_resource_manager(outcome) ==
    /\ \/ LoadThrows(outcome)
       \/ /\ \A h \in Hardware : outcome[h] /= "throws"
          /\ loaded' = IF load_and_initialize_components(outcome) THEN Hardware ELSE {}
    /\ valid' = load_and_initialize_components(outcome)

\* Mutant: a new resource manager is made as the first one was.
replace_with_options == own_options' = own_options

\* After a failure the manager starts afresh with a resource manager that has the
\* default parameters, and waits for another description.
replace_resource_manager == own_options' = FALSE

robot_description_callback ==
    /\ phase = "waiting" /\ ~stopping
    /\ descriptions < MaxDescriptions
    /\ descriptions' = descriptions + 1
    /\ \E outcome \in [Hardware -> Outcomes] : init_resource_manager(outcome)
    /\ IF loaded' = {}
       THEN replace_resource_manager /\ UNCHANGED <<phase, queue, to_activate>>
       ELSE /\ phase' = "unconfigured"
            /\ to_activate' = loaded'
            /\ queue' = {h \in loaded' : settings.initial[h] = "unconfigured"}
            /\ UNCHANGED own_options
    /\ UNCHANGED <<vars, settings, group, activated, spoiled, close_vars>>

\* The descriptions that come afterwards are ignored.
IgnoreDescription ==
    /\ phase = "running" /\ descriptions < MaxDescriptions
    /\ descriptions' = descriptions + 1
    /\ UNCHANGED <<vars, settings, phase, loaded, valid, own_options, to_activate, group_vars,
                   spoiled, close_vars>>

-----------------------------------------------------------------------------
(* set_initial_hardware_components_state.                                   *)

\* The resource manager's set_component_state, which waits for resources_lock_:
\* component h becomes c.
Sets(h, target, c) ==
    /\ c \in set_component_state(component(h, hw_state[h]), target)
    /\ Becomes(h, c, group_state)

Succeeded(c, target) == c.state = target

\* Where the start-up goes on after a transition to target.
GoesOn(c, target, next, otherwise) ==
    phase' = IF Succeeded(c, target) THEN next
             ELSE IF settings.shutdown_on_failure THEN "dead" ELSE otherwise

RemoveToActivate(h) == to_activate' = to_activate \ {h}

\* set_components_to_state: the components listed for a state.
SetListed(h) ==
    /\ phase \in {"unconfigured", "inactive"} /\ h \in queue
    /\ \E c \in set_component_state(component(h, hw_state[h]), phase) :
          Sets(h, phase, c) /\ GoesOn(c, phase, phase, phase)
    /\ queue' = queue \ {h}
    /\ RemoveToActivate(h)
    /\ UNCHANGED <<rw_vars, load_vars, group, activated, spoiled, close_vars>>

NextList ==
    /\ phase \in {"unconfigured", "inactive"} /\ queue = {}
    /\ IF phase = "unconfigured"
       THEN phase' = "inactive" /\ queue' = {h \in to_activate : settings.initial[h] = "inactive"}
       ELSE phase' = "groups" /\ queue' = {}
    /\ UNCHANGED <<vars, load_vars, to_activate, group, activated, spoiled, close_vars>>

Members(g) == {h \in to_activate : GroupOf[h] = g}

\* A group is entered; to_activate keeps the components of the groups to come.
StartGroup(g) ==
    /\ phase = "groups" /\ Members(g) /= {}
    /\ phase' = "configuring"
    /\ group' = g /\ queue' = Members(g) /\ activated' = {} /\ spoiled' = FALSE
    /\ UNCHANGED <<vars, load_vars, to_activate, close_vars>>

\* The group in progress is left.
LeaveGroup ==
    /\ group' = NoGroup /\ queue' = {} /\ activated' = {}
    /\ to_activate' = to_activate \ Members(group)

ConfigureMember(h) ==
    /\ phase = "configuring" /\ h \in queue
    /\ \E c \in set_component_state(component(h, hw_state[h]), "inactive") :
          /\ Sets(h, "inactive", c)
          /\ GoesOn(c, "inactive", IF queue = {h} THEN "activating" ELSE phase, "groups")
          /\ IF Succeeded(c, "inactive")
             THEN /\ queue' = IF queue = {h} THEN Members(group) ELSE queue \ {h}
                  /\ UNCHANGED <<group, activated, to_activate>>
             ELSE LeaveGroup
    /\ UNCHANGED <<rw_vars, load_vars, spoiled, close_vars>>

\* Mutant: after a failure the members that are active stay so.
StartRollbackOfNone ==
    LeaveGroup /\ phase' = IF settings.shutdown_on_failure THEN "dead" ELSE "groups"

\* A member fails to activate: those that have been activated are rolled back.
StartRollback ==
    IF settings.shutdown_on_failure THEN phase' = "dead" /\ UNCHANGED <<group_vars, to_activate>>
    ELSE IF activated = {} THEN phase' = "groups" /\ LeaveGroup
    ELSE /\ phase' = "rollback" /\ queue' = activated
         /\ UNCHANGED <<group, activated, to_activate>>

ActivateMember(h) ==
    /\ phase = "activating" /\ h \in queue
    /\ \E c \in set_component_state(component(h, hw_state[h]), "active") :
          /\ Sets(h, "active", c)
          /\ IF ~Succeeded(c, "active") THEN StartRollback
             ELSE IF queue = {h} THEN phase' = "groups" /\ LeaveGroup
             ELSE /\ queue' = queue \ {h} /\ activated' = activated \cup {h}
                  /\ UNCHANGED <<phase, group, to_activate>>
    /\ UNCHANGED <<rw_vars, load_vars, spoiled, close_vars>>

\* Mutant: a member is rolled back until it succeeds.
RollBackUntil(h) ==
    /\ phase = "rollback" /\ h \in queue
    /\ \E c \in set_component_state(component(h, hw_state[h]), "inactive") :
          /\ Sets(h, "inactive", c)
          /\ IF ~Succeeded(c, "inactive")
             THEN UNCHANGED <<phase, group_vars, to_activate>>
             ELSE IF queue = {h} THEN phase' = "groups" /\ LeaveGroup
             ELSE queue' = queue \ {h} /\ UNCHANGED <<phase, group, activated, to_activate>>
    /\ UNCHANGED <<rw_vars, load_vars, spoiled, close_vars>>

\* A rollback that fails is reported, no more.
RollBack(h) ==
    /\ phase = "rollback" /\ h \in queue
    /\ \E c \in set_component_state(component(h, hw_state[h]), "inactive") :
          /\ Sets(h, "inactive", c)
          /\ spoiled' = (spoiled \/ ~Succeeded(c, "inactive"))
    /\ IF queue = {h} THEN phase' = "groups" /\ LeaveGroup
       ELSE queue' = queue \ {h} /\ UNCHANGED <<phase, group, activated, to_activate>>
    /\ UNCHANGED <<rw_vars, load_vars, close_vars>>

ActivateUngrouped(h) ==
    /\ phase = "groups" /\ \A g \in Groups : Members(g) = {}
    /\ h \in to_activate
    /\ \E c \in set_component_state(component(h, hw_state[h]), "active") :
          Sets(h, "active", c) /\ GoesOn(c, "active", phase, phase)
    /\ RemoveToActivate(h)
    /\ UNCHANGED <<rw_vars, load_vars, group_vars, spoiled, close_vars>>

\* The services are advertised.
init_services ==
    /\ phase = "groups" /\ to_activate = {}
    /\ phase' = "running" /\ queue' = {}
    /\ UNCHANGED <<vars, load_vars, to_activate, group, activated, spoiled, close_vars>>

StartupSteps ==
    \/ robot_description_callback
    \/ NextList \/ init_services
    \/ \E g \in Groups : StartGroup(g)
    \/ \E h \in Hardware : SetListed(h) \/ ConfigureMember(h) \/ ActivateMember(h)
                             \/ RollBack(h) \/ ActivateUngrouped(h)

-----------------------------------------------------------------------------
(* The request to stop: the pre-shutdown callback, in a thread of its own.  *)

\* Mutant: the active components are shut down, no others.
PreShutdownOfActive ==
    /\ ~stopping /\ phase /= "dead"
    /\ stopping' = TRUE /\ closing' = {h \in loaded : hw_state[h] = "active"}
    /\ UNCHANGED <<vars, phase, load_vars, to_activate, group_vars, spoiled, resisted>>

PreShutdown ==
    /\ ~stopping /\ phase /= "dead"
    /\ stopping' = TRUE /\ closing' = loaded
    /\ UNCHANGED <<vars, phase, load_vars, to_activate, group_vars, spoiled, resisted>>

\* One component of shutdown_components.
ShutdownComponent(h) ==
    /\ h \in closing /\ phase /= "dead"
    /\ closing' = closing \ {h}
    /\ \E c \in set_component_state(component(h, hw_state[h]), "finalized") :
          /\ Sets(h, "finalized", c)
          /\ resisted' = IF Succeeded(c, "finalized") THEN resisted ELSE resisted \cup {h}
    /\ UNCHANGED <<rw_vars, phase, load_vars, to_activate, group_vars, spoiled, stopping>>

-----------------------------------------------------------------------------
(* The control loop.  A cycle holds resources_lock_ from its beginning to   *)
(* its end, as every transition above does: here it is one step.            *)

Now == [hw |-> hw_state, offered |-> available, groups |-> group_state]

\* What becomes of component h in state s of the hardware, when its driver returns
\* own or throws, and the cycle sees value.
Settles(op, s, h, value) ==
    LET was == [state |-> s.hw[h], avail |-> h \in s.offered, reset |-> FALSE]
        is(c) == [hw |-> [s.hw EXCEPT ![h] = c.state],
                  offered |-> IF c.avail THEN s.offered \cup {h} ELSE s.offered \ {h},
                  groups |-> IF c.reset /\ GroupOf[h] /= NoGroup
                             THEN [s.groups EXCEPT ![GroupOf[h]] = "OK"] ELSE s.groups]
    IN  IF value = "OK" THEN {s}
        ELSE IF op = "write" /\ value = "DEACTIVATE"
        THEN { is(c) : c \in set_component_state(was, "inactive") }
        ELSE { is([state |-> t, avail |-> FALSE, reset |-> FALSE]) : t \in error(s.hw[h]) }

\* One component of a cycle.
Cycles(op, s, h) ==
    LET called == IF op = "read" THEN read_called(s.hw[h]) ELSE write_called(s.hw[h])
        own == IF called THEN ReturnTypes ELSE {"OK"}
        groups(r) == update_group_state(s.groups, h, r)
        returned(r) == { [s EXCEPT !.hw[h] = t, !.groups = groups(r)] :
                           t \in IF r = "ERROR" THEN error(s.hw[h]) ELSE {s.hw[h]} }
    IN  IF op = "write" /\ h \in Sensors THEN {s}
        ELSE (UNION { UNION { Settles(op, t, h, group_result(groups(r), h, r)) :
                                t \in returned(r) } : r \in own })
             \cup (IF called THEN Settles(op, s, h, "ERROR") ELSE {})

\* A cycle of all loaded components, in their order.
Cycle(op) ==
    LET upto[n \in 0 .. Len(Order)] ==
            IF n = 0 THEN {Now}
            ELSE IF Order[n] \notin loaded THEN upto[n - 1]
            ELSE UNION { Cycles(op, s, Order[n]) : s \in upto[n - 1] }
    IN  upto[Len(Order)]

LoopStep ==
    /\ phase /= "dead"
    /\ \E op \in {"read", "write"} : \E s \in Cycle(op) :
          /\ hw_state' = s.hw
          /\ available' = s.offered
          /\ group_state' = s.groups
    /\ spoiled' = (spoiled \/ \E h \in Hardware : GroupOf[h] = group /\ hw_state'[h] /= hw_state[h])
    /\ UNCHANGED <<rw_vars, phase, load_vars, to_activate, group_vars, close_vars>>

StartupNext ==
    \/ StartupSteps
    \/ IgnoreDescription
    \/ PreShutdown
    \/ \E h \in Hardware : ShutdownComponent(h)
    \/ LoopStep

StartupSpec == StartupInit /\ [][StartupNext]_svars

\* The callbacks go on: the loop gives back the lock they wait for.
StartupFairness ==
    /\ WF_svars(StartupSteps)
    /\ WF_svars(\E h \in Hardware : ShutdownComponent(h))

-----------------------------------------------------------------------------
(* Properties.                                                              *)

\* A group comes up as a whole or not at all: when the start-up leaves a group, all
\* of its members are active or none is, unless a cycle took one of them down
\* meanwhile, one of them could not be rolled back, or the process is stopping.
GroupComesUpWhole ==
    [][ group /= NoGroup /\ group' = NoGroup /\ ~spoiled' /\ ~stopping =>
          {h \in Members(group) : hw_state'[h] = "active"} \in {{}, Members(group)} ]_svars

\* A component that the parameters keep unconfigured or inactive is not activated by
\* the start-up, in a group or not, whatever fails before or after it.
ListedIsNotActivated ==
    \A h \in Hardware : settings.initial[h] /= "active" => hw_state[h] /= "active"

\* The services start when every component of the description is in the storage with
\* all of its interfaces, however many descriptions have failed before.
ServicesHaveAllHardware == phase \notin {"waiting", "dead"} => valid /\ loaded = Hardware

\* What has been shut down stays so, though the start-up and the loop go on: unless it
\* resisted, a component on its own is finalized from then on.
ShutDownIsFinal ==
    \A h \in loaded \ closing :
        stopping /\ GroupOf[h] = NoGroup /\ h \notin resisted => hw_state[h] = "finalized"

\* The start-up ends: the services come up, or the process dies, unless it waits for a
\* description that can be loaded.
StartupEnds == phase /= "waiting" ~> phase \in {"running", "dead"}

\* "If set to true, when a hardware component returns DEACTIVATE on the write cycle,
\* controllers using those interfaces will be deactivated": the resource manager that
\* runs has the parameters that the controller manager was given.
ParametersAreKept == phase = "running" => own_options
=============================================================================
