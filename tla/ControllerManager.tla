-------------------------- MODULE ControllerManager --------------------------
(***************************************************************************)
(* The controllers of a controller manager: loading, configuring, cleaning *)
(* up, unloading and switching them, with the claims and the availability  *)
(* of their interfaces in the resource manager, and what the control loop  *)
(* does to them: it deactivates controllers when hardware or a controller  *)
(* fails, and activates the fallback controllers.                          *)
(*                                                                         *)
(* Services are called one at a time (services_lock_).  A switch waits for *)
(* the control loop between the checks and the switch itself, and the loop *)
(* may deactivate and activate controllers in between.  With activate_asap *)
(* the loop performs the switch; without it the thread of the service does *)
(* and the loop goes on, so that what the loop does to controllers falls   *)
(* between the steps of the switch.  Callbacks are the vendor's: Faults    *)
(* says which of them may fail.                                            *)
(***************************************************************************)
EXTENDS SwitchRequest

CONSTANTS
    SortedList,         \* all controllers in the order configure_controller sorts them in
    Faults,             \* what may go wrong
    MaxRequest          \* bound: the length of the lists of a request

FaultKinds == {"configure", "cleanup", "activate", "deactivate", "update", "read", "write"}

ASSUME ManagerAssumption ==
    /\ SortedList \in Seq(Controllers)
    /\ Range(SortedList) = Controllers
    /\ Faults \subseteq FaultKinds
    /\ MaxRequest \in Nat

VARIABLES
    list,               \* the updated controllers list
    state,              \* the lifecycle state of each controller
    chained,            \* in_chained_mode_
    holds,              \* command_interfaces_ of each controller
    links,              \* preceding and following controllers, at the last configuration
    exported,           \* controllers_reference_interfaces_map_
    available,          \* the lists of available interfaces
    claimed,            \* claimed_command_interface_map_
    cached,             \* hardware_used_by_controllers_
    request,            \* switch_params_
    jobs,               \* the calls of activate_controllers: by a switch, after failed updates
    stopped             \* what the loop has deactivated since the switch began (history)

ctrl_vars == <<list, state, chained, holds, links>>
rm_vars == <<exported, available, claimed, cached>>
switch_vars == <<request, jobs, stopped>>
vars == <<list, state, chained, holds, links, exported, available, claimed, cached,
          request, jobs, stopped>>

States == {"unloaded", "unconfigured", "inactive", "active", "finalized"}

NoRequest == [pending |-> FALSE, act |-> <<>>, deact |-> {}, to |-> {}, from |-> {},
              strict |-> FALSE, asap |-> FALSE]

\* A switch and the loop's failed updates activate controllers; the two may overlap.
Activators == {"switch", "update"}
Idle == [doing |-> "nothing", todo |-> <<>>, act |-> <<>>, strict |-> FALSE, failed |-> FALSE,
         assigned |-> FALSE]

Lists(n) == { s \in UNION { [1 .. k -> Controllers] : k \in 0 .. n } : IsInjective(s) }

TypeOK ==
    /\ list \in Lists(Len(SortedList))
    /\ state \in [Controllers -> States]
    /\ chained \in [Controllers -> BOOLEAN]
    /\ holds \in [Controllers -> SUBSET CommandInterfaces]
    /\ links \subseteq Controllers \X Controllers
    /\ exported \subseteq Controllers
    /\ available \subseteq Interfaces
    /\ claimed \subseteq CommandInterfaces
    /\ cached \in [Hardware -> SUBSET Controllers]
    /\ {request.pending, request.strict, request.asap} \subseteq BOOLEAN
    /\ Range(request.act) \cup request.deact \cup request.to \cup request.from \subseteq Controllers
    /\ DOMAIN jobs = Activators
    /\ \A a \in Activators :
          /\ jobs[a].doing \in {"nothing", "activating", "publishing", "terminated"}
          /\ Range(jobs[a].todo) \subseteq Range(jobs[a].act) /\ Range(jobs[a].act) \subseteq Controllers
          /\ {jobs[a].strict, jobs[a].failed, jobs[a].assigned} \subseteq BOOLEAN
    /\ stopped \subseteq Controllers

Active == { c \in Controllers : c \in Range(list) /\ state[c] = "active" }
manager == [list |-> list, state |-> state, chained |-> chained, exported |-> exported,
            claimed |-> claimed, links |-> links]

\* What a lifecycle transition may end in; a callback fails only if Faults says so.
Outcomes(goal, previous, fault) ==
    IF fault \in Faults THEN {goal, previous, "unconfigured", "finalized"} ELSE {goal}

Performing == jobs["switch"].doing = "activating"

\* Services wait for a pending switch; those that change the list wait for the loop, too.
ServiceIsFree == ~request.pending /\ jobs["switch"].doing = "nothing"
ListIsFree == ServiceIsFree /\ jobs["update"].doing = "nothing"

\* The loop goes on beside a switch that the thread of the service performs.
LoopIsFree == jobs["update"].doing = "nothing" /\ (request.asap => jobs["switch"].doing = "nothing")
Terminate == jobs' = [a \in Activators |-> [jobs[a] EXCEPT !.doing = "terminated"]]

\* The loop deactivates some controllers.
Note(controllers) ==
    stopped' = IF Performing THEN stopped \cup (controllers \cap Active) ELSE stopped

-----------------------------------------------------------------------------
(* The services that add, configure and remove controllers.                 *)

\* There is no controller of that name in the list.
NotLoaded(c) == state[c] = "unloaded"

\* load_controller and add_controller_impl, with a controller that initializes.
Load(c) ==
    /\ ListIsFree /\ NotLoaded(c)
    /\ list' = Append(list, c)
    /\ state' = [state EXCEPT ![c] = "unconfigured"]
    /\ chained' = [chained EXCEPT ![c] = FALSE]
    /\ UNCHANGED <<holds, links, rm_vars, switch_vars>>

\* cleanup_controller_exported_interfaces: out of the maps, not of the available lists.
RemoveExports(c) ==
    /\ exported' = exported \ {c}
    /\ claimed' = claimed \ References(c)

\* build_controllers_topology_info, once c is configured.
Topology(c) ==
    { link \in Range(list) \X Range(list) :
        /\ state[link[1]] /= "unconfigured" \/ link[1] = c
        /\ \E i \in Range(Uses[link[1]]) : Exporter[i] = link[2] }

\* configure_controller.
Configure(c) ==
    /\ ListIsFree /\ c \in Range(list) /\ state[c] = "unconfigured"
    /\ \E s \in Outcomes("inactive", "unconfigured", "configure") :
          /\ state' = [state EXCEPT ![c] = s]
          /\ IF s /= "inactive"
             THEN RemoveExports(c) /\ UNCHANGED <<list, chained, links, available>>
             ELSE /\ exported' = IF Chainable(c) THEN exported \cup {c} ELSE exported
                  /\ claimed' = claimed \ References(c)
                  /\ available' = available \ Exports(c)
                  /\ chained' = [chained EXCEPT ![c] = FALSE]
                  /\ links' = Topology(c)
                  /\ list' = Those(SortedList, Range(list))
    /\ UNCHANGED <<holds, cached, switch_vars>>

\* cleanup_controller: the exported interfaces go first, whether on_cleanup succeeds or not.
CleanupTo(c, s) ==
    /\ state[c] = "inactive"
    /\ s \in Outcomes("unconfigured", "inactive", "cleanup")
    /\ RemoveExports(c)

Cleanup(c) ==
    /\ ServiceIsFree /\ c \in Range(list)
    /\ \E s \in States : CleanupTo(c, s) /\ state' = [state EXCEPT ![c] = s]
    /\ UNCHANGED <<list, chained, holds, links, available, cached, switch_vars>>

\* unload_controller: an inactive controller is cleaned up and must get through it.
Unload(c) ==
    /\ ListIsFree /\ c \in Range(list)
    /\ \/ /\ state[c] = "unconfigured"
          /\ state' = [state EXCEPT ![c] = "unloaded"]
          /\ list' = Without(list, c)
          /\ UNCHANGED <<exported, claimed>>
       \/ /\ CleanupTo(c, "unconfigured")
          /\ state' = [state EXCEPT ![c] = "unloaded"]
          /\ list' = Without(list, c)
       \/ \E s \in States \ {"unconfigured"} :
          /\ CleanupTo(c, s)
          /\ state' = [state EXCEPT ![c] = s]
          /\ UNCHANGED list
    /\ UNCHANGED <<chained, holds, links, available, cached, switch_vars>>

-----------------------------------------------------------------------------
(* switch_controller.                                                       *)

\* Mutant: only the users of the latest request are remembered.
cache_latest_only(controllers) ==
    [h \in Hardware |-> { c \in controllers : \E i \in Range(Uses[c]) : Exporter[i] = h }]

\* The hardware whose interfaces the activated controllers require is remembered.
cache_controller_to_hardware(controllers) ==
    [h \in Hardware |->
       cached[h] \cup { c \in controllers : \E i \in Range(Uses[c]) : Exporter[i] = h }]

\* The checks; an error leaves the interfaces available that they made available.
SwitchController(activate, deactivate, strict) ==
    /\ ServiceIsFree
    /\ \E r \in {Checked(manager, available, deactivate, activate, strict)} :
       /\ available' = r.available
       /\ cached' = cache_controller_to_hardware(r.users)
       /\ \/ r.status = "exception" /\ Terminate /\ UNCHANGED request
          \/ r.status \in {"error", "done"} /\ UNCHANGED <<request, jobs>>
          \/ /\ r.status = "ok"
             /\ \E asap \in BOOLEAN :
                   request' = [pending |-> TRUE, act |-> r.act, deact |-> Range(r.deact),
                               to |-> r.to, from |-> r.from, strict |-> strict, asap |-> asap]
             /\ UNCHANGED jobs
    /\ UNCHANGED <<ctrl_vars, exported, claimed, stopped>>

\* The hardware refuses the change of mode, or the loop does not come in time: it may be
\* late, or wait for controllers_lock_, which the service holds.
SwitchEnds ==
    /\ request.pending /\ jobs["switch"].doing = "nothing"
    /\ request' = NoRequest
    /\ UNCHANGED <<ctrl_vars, rm_vars, jobs, stopped>>

-----------------------------------------------------------------------------
(* What a switch and the loop do to controllers.                            *)

\* Mutant: the interfaces of a deactivated controller stay claimed.
ForgetRelease(off) == claimed

Released(off) == claimed \ UNION { holds[c] : c \in off }

\* The states deactivate_controllers may leave the listed controllers in.
Deactivations(controllers) ==
    [controllers \cap Active -> Outcomes("inactive", "active", "deactivate")]

\* deactivate_controllers: on_deactivate, and release_interfaces whatever it returns.
Stop(out) ==
    /\ state' = [c \in Controllers |-> IF c \in DOMAIN out THEN out[c] ELSE state[c]]
    /\ holds' = [c \in Controllers |-> IF c \in DOMAIN out THEN {} ELSE holds[c]]
    /\ claimed' = Released(DOMAIN out)

\* The rest of it: out of chained mode (refused by a controller that is active), and
\* the exported interfaces are withdrawn from the offered ones.
Deactivate(controllers, offered) ==
    \E out \in Deactivations(controllers) :
       /\ Stop(out)
       /\ chained' = [c \in Controllers |-> chained[c] /\ ~(c \in DOMAIN out /\ out[c] /= "active")]
       /\ available' = offered \ UNION { Exports(c) : c \in DOMAIN out }

\* deactivate_controllers, switch_chained_mode for the controllers in the list that are
\* not active, and the first loop of activate_controllers, which offers the exports of
\* the controllers to activate.
Start(a, controllers, to, from, act, strict) ==
    \E out \in Deactivations(controllers) :
      LET off == DOMAIN out
          starting == { c \in Range(act) \cap Range(list) : Chainable(c) }
      IN  /\ Stop(out)
          /\ chained' = [c \in Controllers |->
                           IF c \notin Range(list) \/ state'[c] = "active" THEN chained[c]
                           ELSE c \notin from /\ (c \in to \/ (chained[c] /\ c \notin off))]
          /\ available' = (available \ UNION { Exports(c) : c \in off })
                             \cup UNION { Exports(c) : c \in starting \cap exported }
          /\ IF starting \subseteq exported
             THEN jobs' = [jobs EXCEPT ![a] = [doing |-> "activating", todo |-> act, act |-> act,
                                    strict |-> strict, failed |-> FALSE, assigned |-> FALSE]]
             ELSE Terminate
          /\ UNCHANGED <<list, links, exported, cached>>

\* manage_switch, by the loop or, once a cycle of it has ended, by the service.
ManageSwitch ==
    /\ request.pending /\ jobs["switch"].doing = "nothing"
    /\ request.asap => LoopIsFree
    /\ Start("switch", request.deact, request.to, request.from, request.act, request.strict)
    /\ UNCHANGED <<request, stopped>>

\* The controllers connected to c by chains, at the last configuration.
ChainGroup(c) ==
    LET Linked(S) == S \cup { d \in Controllers : \E e \in S : <<d, e>> \in links \/ <<e, d>> \in links }
        grow[n \in Nat] == IF n = 0 THEN {c} ELSE Linked(grow[n - 1])
    IN  grow[Cardinality(Controllers)]

\* The fallback controllers of the failed ones, each once.
FallbacksOf(order) ==
    LET Add(l, c) == IF Contains(l, c) THEN l ELSE Append(l, c)
    IN  FoldLeft(Add, <<>>, FlattenSeq([k \in DOMAIN order |-> Fallbacks[order[k]]]))

\* skip_cycle: what the service may be switching is not updated.
Skipped == IF request.pending /\ ~request.asap
           THEN Range(request.act) \cup request.deact \cup request.to \cup request.from ELSE {}

\* update() of some controllers fails: their chains are deactivated, and the fallback
\* controllers replace them, and those active that use the same command interfaces.
UpdateFails(failed) ==
    /\ LoopIsFree /\ failed /= {} /\ "update" \in Faults
    /\ failed \cap Skipped = {}
    /\ LET group == UNION { ChainGroup(c) : c \in failed } IN
       \E order \in SetToSeqs(group \cap Range(list)) :
          LET fallbacks == FallbacksOf(order)
              using == { d \in Active : \E f \in Range(fallbacks) \cap Range(list) :
                                           Commands(d) \cap Commands(f) /= {} }
          IN  Start("update", group \cup using, {}, {}, fallbacks, TRUE) /\ Note(group \cup using)
    /\ UNCHANGED request

\* read() or write() returns ERROR for h: its interfaces are no longer available and
\* the controllers that have used it are deactivated.
HardwareFails(h) ==
    /\ LoopIsFree /\ "read" \in Faults
    /\ Exports(h) \cap available /= {}
    /\ Deactivate(cached[h], available \ Exports(h)) /\ Note(cached[h])
    /\ UNCHANGED <<list, links, exported, cached, request, jobs>>

\* The hardware is configured again.
HardwareReturns(h) ==
    /\ LoopIsFree /\ ~(Exports(h) \subseteq available)
    /\ available' = available \cup Exports(h)
    /\ UNCHANGED <<ctrl_vars, exported, claimed, cached, switch_vars>>

\* write() returns DEACTIVATE for h: of the controllers that have used it, those that
\* have command interfaces are deactivated.  The loop asks for the loaded controllers
\* first, and so waits for the end of a pending switch.
HardwareDeactivates(h) ==
    /\ LoopIsFree /\ ~request.pending /\ "write" \in Faults
    /\ Deactivate({ c \in cached[h] : Commands(c) /= {} }, available)
    /\ UNCHANGED <<list, links, exported, cached, switch_vars>>

\* Every command interface is free, every interface available, and known.
CanClaim(c) ==
    /\ Commands(c) \cap claimed = {}
    /\ Commands(c) \cup Observed(c) \subseteq available
    /\ \A i \in Observed(c) : Exporter[i] \in exported \cup Hardware

\* Looking up the claim of an available interface that is in no map throws, and nothing
\* catches it; the lookups before it must have gone well.
LookupThrows(c) ==
    \E k \in DOMAIN Uses[c] :
       /\ Uses[c][k] \in available \cap CommandInterfaces
       /\ Exporter[Uses[c][k]] \in Controllers \ exported
       /\ \A j \in 1 .. k - 1 : Uses[c][j] \in available \ claimed

\* activate_controllers goes on with the next controller.
Proceed(a, failed) ==
    jobs' = [jobs EXCEPT ![a].todo = Tail(@), ![a].assigned = FALSE, ![a].failed = @ \/ failed]

\* activate_controllers, for one controller: its interfaces are claimed and assigned to it.
Assign(a, c) ==
    /\ jobs[a].doing = "activating" /\ jobs[a].todo /= <<>> /\ ~jobs[a].assigned
    /\ c = Head(jobs[a].todo)
    /\ \/ c \notin Range(list) /\ Proceed(a, FALSE) /\ UNCHANGED <<holds, claimed>>
       \/ c \in Range(list) /\ LookupThrows(c) /\ Terminate /\ UNCHANGED <<holds, claimed>>
       \/ /\ c \in Range(list) /\ ~LookupThrows(c) /\ ~CanClaim(c)
          /\ Proceed(a, TRUE) /\ UNCHANGED <<holds, claimed>>
       \/ /\ c \in Range(list) /\ ~LookupThrows(c) /\ CanClaim(c)
          /\ holds' = [holds EXCEPT ![c] = Commands(c)]
          /\ claimed' = (claimed \cup Commands(c)) \ holds[c]
          /\ jobs' = [jobs EXCEPT ![a].assigned = TRUE]
    /\ UNCHANGED <<list, state, chained, links, exported, available, cached, request, stopped>>

\* The controller that has its interfaces and waits for on_activate.
Assigned(a) == IF jobs[a].assigned THEN {Head(jobs[a].todo)} ELSE {}

\* What on_activate may make of c; the transition is only made from inactive.
Activations(c) ==
    IF state[c] = "inactive" THEN Outcomes("active", "inactive", "activate") ELSE {state[c]}

\* Mutant: a controller that does not become active keeps its interfaces.
HeldAnyway(c, s) == holds[c]

\* Whoever is not active after on_activate gives its interfaces back.
Held(c, s) == IF s = "active" THEN holds[c] ELSE {}

\* on_activate, and the offers that follow it.
OnActivate(a, c) ==
    /\ jobs[a].doing = "activating" /\ c \in Assigned(a)
    /\ \E s \in Activations(c) :
          /\ state' = [state EXCEPT ![c] = s]
          /\ holds' = [holds EXCEPT ![c] = Held(c, s)]
          /\ claimed' = claimed \ (holds[c] \ Held(c, s))
          /\ available' = IF s = "active" THEN available \cup Exports(c) ELSE available \ Exports(c)
          /\ Proceed(a, s /= "active")
    /\ UNCHANGED <<list, chained, links, exported, cached, request, stopped>>

\* Mutant: a failed strict activation is not undone.
NothingToUndo(a) == {}

\* What is deactivated again when an activation has failed.
Undone(a) == IF jobs[a].failed /\ jobs[a].strict THEN Range(jobs[a].act) ELSE {}

\* The end of activate_controllers; with it ends a switch, and the loop publishes what
\* has become of the controllers, for which it waits for the end of a pending switch.
FinishActivation(a) ==
    /\ jobs[a].doing = "activating" /\ jobs[a].todo = <<>>
    /\ Deactivate(Undone(a), available)
    /\ \/ a = "switch" /\ request' = NoRequest /\ stopped' = {}
          /\ jobs' = [jobs EXCEPT ![a] = Idle]
       \/ a = "update" /\ UNCHANGED request /\ Note(Undone(a))
          /\ jobs' = [jobs EXCEPT ![a] = [Idle EXCEPT !.doing = "publishing"]]
    /\ UNCHANGED <<list, links, exported, cached>>

\* publish_activity, for which the loop takes controllers_lock_.
Publish ==
    /\ jobs["update"].doing = "publishing" /\ ~request.pending
    /\ jobs' = [jobs EXCEPT !["update"] = Idle]
    /\ UNCHANGED <<ctrl_vars, rm_vars, request, stopped>>

-----------------------------------------------------------------------------
Init ==
    /\ list = <<>>
    /\ state = [c \in Controllers |-> "unloaded"]
    /\ chained = [c \in Controllers |-> FALSE]
    /\ holds = [c \in Controllers |-> {}]
    /\ links = {}
    /\ exported = {}
    /\ available = UNION { Exports(h) : h \in Hardware }
    /\ claimed = {}
    /\ cached = [h \in Hardware |-> {}]
    /\ request = NoRequest
    /\ jobs = [a \in Activators |-> Idle]
    /\ stopped = {}

Services ==
    \/ \E c \in Controllers : Load(c) \/ Configure(c) \/ Cleanup(c) \/ Unload(c)
    \/ \E activate, deactivate \in Lists(MaxRequest), strict \in BOOLEAN :
          SwitchController(activate, deactivate, strict)
    \/ SwitchEnds

Loop ==
    \/ ManageSwitch \/ Publish
    \/ \E a \in Activators :
          \/ FinishActivation(a)
          \/ \E c \in Controllers : Assign(a, c) \/ OnActivate(a, c)
    \/ \E failed \in SUBSET Active : UpdateFails(failed)
    \/ \E h \in Hardware : HardwareFails(h) \/ HardwareReturns(h) \/ HardwareDeactivates(h)

Next == Services \/ Loop

Spec == Init /\ [][Next]_vars

-----------------------------------------------------------------------------
(* Properties *)

\* No two controllers command the same hardware interface, and what is held is
\* claimed: whatever fails, in whatever order controllers come and go.
HardwareClaims ==
    \A i \in CommandInterfaces : Exporter[i] \in Hardware =>
       /\ \A c, d \in Controllers : i \in holds[c] /\ i \in holds[d] => c = d
       /\ i \in claimed <=> \E c \in Controllers : i \in holds[c]

\* The same for the reference interfaces of controllers.
ReferenceClaims ==
    \A i \in CommandInterfaces, c, d \in Controllers :
       i \in holds[c] /\ i \in holds[d] => c = d

\* A controller that is neither active nor about to be activated commands nothing.
OnlyActiveHold ==
    \A c \in Controllers : holds[c] /= {} =>
       state[c] = "active" \/ \E a \in Activators : c \in Assigned(a)

\* "you must first activate all following controllers to have the preceding one
\* activated", and "If any of the controllers is deactivated, also all preceding
\* controllers needs to be deactivated": no chain is left without its end.
ChainsAreWhole ==
    ListIsFree => \A c \in Active : \A i \in Commands(c) :
                        Exporter[i] \in Controllers => state[Exporter[i]] = "active"

\* "Controllers that expose the reference interfaces are switched to chained mode only
\* when their reference interfaces are used by other controllers": an active controller
\* in chained mode has its reference interfaces claimed.
ChainedIsClaimed ==
    ListIsFree => \A c \in Active : chained[c] => References(c) \cap claimed /= {}

\* The end of a switch.
SwitchFinishes == Performing /\ jobs'["switch"].doing = "nothing"

\* The controllers the loop has deactivated beside the switch: with activate_asap the loop
\* performs the switch itself, and there must be none.
Disturbed == IF request.asap THEN {} ELSE stopped

\* The controllers a switch restarts.
Restarted == Range(request.act) \cap request.deact

\* The loaded following controllers of those a switch activates are in chained mode after
\* it, whatever else the switch does to them, unless the loop has deactivated them beside
\* a switch without activate_asap; only one that a restart has left commanded out of chained
\* mode may be told to do both.
FollowersAreChained ==
    [][ SwitchFinishes =>
          \A c \in Range(request.act) \ Restarted : state'[c] = "active" =>
             \A i \in Commands(c) :
                Exporter[i] \in Range(list) \ (Disturbed \cup (request.to \cap request.from)) =>
                   chained'[Exporter[i]] ]_vars

\* The loaded controllers whose interfaces c requires.
Followers(c) == { Exporter[i] : i \in Range(Uses[c]) } \cap Range(list)

\* "you must first activate all following controllers to have the preceding one activated":
\* a controller that a strict switch has activated has active followers when the switch
\* ends, whatever hardware failed while the switch was waiting for the loop; without
\* activate_asap the loop may have deactivated a follower beside the switch.
ActivatedAreFollowed ==
    [][ request.strict /\ SwitchFinishes =>
          \A c \in Range(request.act) \ request.deact : state'[c] = "active" =>
             \A f \in Followers(c) \ Disturbed : state'[f] = "active" ]_vars

\* "all preceding controllers have to be deactivated before the following controller is
\* deactivated": nothing that is active after a strict switch requires an interface of a
\* controller the switch has deactivated, whichever thread performs it.
StoppedAreUnused ==
    [][ request.strict /\ SwitchFinishes =>
          \A c \in Controllers : state'[c] = "active" =>
             Followers(c) \cap (request.deact \ Range(request.act)) = {} ]_vars

\* A strict switch that has begun is all or nothing: of the controllers to activate none is
\* active afterwards, or all but those the loop itself has deactivated meanwhile, which
\* it can only do beside a switch without activate_asap.
StrictIsAtomic ==
    [][ request.strict /\ SwitchFinishes =>
          \/ \A c \in Range(request.act) \ Disturbed : state'[c] = "active"
          \/ \A c \in Range(request.act) : state'[c] /= "active" ]_vars

\* "If the hardware during it's read or write method returns ERROR, the controller manager
\* will stop all controllers that are using the hardware's command and state interfaces".
UsersAreStopped ==
    [][ \A h \in Hardware :
          Exports(h) \cap available /= {} /\ Exports(h) \cap available' = {} =>
             \A c \in Controllers : Range(Uses[c]) \cap Exports(h) /= {} => state'[c] /= "active" ]_vars

\* The same, asked of every state: not so, as a controller that the service is activating
\* when its hardware fails is not active yet, is not deactivated, and goes active afterwards.
FailedIsUnused ==
    \A h \in Hardware : Exports(h) \cap available = {} =>
       \A c \in Controllers : Range(Uses[c]) \cap Exports(h) /= {} => state[c] /= "active"
=============================================================================
