---------------------------- MODULE SwitchRequest ----------------------------
(***************************************************************************)
(* How the controller manager turns the lists of a switch_controller       *)
(* request into what the control loop is to do: which controllers to       *)
(* deactivate and activate, in which order, and which to switch to and     *)
(* from chained mode (ControllerManager::switch_controller_cb up to the    *)
(* hand-over).  The controllers and the resource manager are a record m,   *)
(* the request under way a record r:                                       *)
(*   m.list, m.state, m.chained    the controllers of the updated list     *)
(*   m.exported, m.claimed         the resource manager's maps             *)
(*   m.links                       the chains known when the last          *)
(*                                 controller was configured               *)
(*   r.act, r.deact, r.to, r.from  switch_params_                          *)
(*   r.available                   the available interfaces, which the     *)
(*                                 checks extend as they go                *)
(*   r.users                       the controllers whose hardware is noted *)
(*   r.status                      "ok", "error", or "exception" when the  *)
(*                                 service thread ends the process         *)
(***************************************************************************)
EXTENDS SequencesExt

CONSTANTS
    Controllers,
    Hardware,
    Interfaces,
    CommandInterfaces,  \* the others are state interfaces
    Exporter,           \* the hardware or the controller an interface belongs to
    Uses,               \* the interfaces a controller requires, commands first
    Fallbacks           \* fallback_controllers of a controller

ASSUME InterfaceAssumption ==
    /\ CommandInterfaces \subseteq Interfaces
    /\ Controllers \cap Hardware = {}
    /\ Exporter \in [Interfaces -> Controllers \cup Hardware]
    /\ Uses \in [Controllers -> Seq(Interfaces)]
    /\ Fallbacks \in [Controllers -> Seq(Controllers)]

Exports(c) == { i \in Interfaces : Exporter[i] = c }
References(c) == Exports(c) \cap CommandInterfaces
Chainable(c) == Exports(c) /= {}
Commands(c) == Range(Uses[c]) \cap CommandInterfaces
Observed(c) == Range(Uses[c]) \ CommandInterfaces

Loaded(m) == Range(m.list)
Configured(m, c) == m.state[c] \in {"inactive", "active"}
ChainedInterface(m, i) == Exporter[i] \in Loaded(m)

\* The elements of s that are in S, in their order.  This and the loops below are
\* recursive functions, which proofs can reason about, and not SelectSeq and FoldLeft.
Those(s, S) ==
    LET kept[k \in 0 .. Len(s)] ==
          IF k = 0 THEN <<>>
          ELSE IF s[k] \in S THEN Append(kept[k - 1], s[k]) ELSE kept[k - 1]
    IN  kept[Len(s)]

Without(s, c) == Those(s, Range(s) \ {c})

-----------------------------------------------------------------------------
\* The lambda list_controllers: a strict switch needs all the names, another one drops
\* the unknown ones, if there are others.
list_controllers(m, strict, names) ==
    LET found == Those(names, Loaded(m))
        fails == IF strict THEN found /= names ELSE found = <<>> /\ names /= <<>>
    IN  [names |-> found, status |-> IF fails THEN "error" ELSE "ok"]

-----------------------------------------------------------------------------
\* The controllers following the deactivated ones leave chained mode; the loop ends
\* at the first controller to deactivate that is not active.
propagate_deactivation_of_chained_mode(m, r) ==
    LET stop == SelectInSeq(m.list, LAMBDA c : c \in Range(r.deact) /\ m.state[c] /= "active")
        seen == Range(IF stop = 0 THEN m.list ELSE SubSeq(m.list, 1, stop - 1)) \cap Range(r.deact)
    IN  [r EXCEPT !.from = { Exporter[i] : i \in { j \in UNION { Range(Uses[c]) : c \in seen } :
                                                     ChainedInterface(m, j) } }]

-----------------------------------------------------------------------------
\* The checks of check_following_controllers_for_activate in the order of its
\* recursion: a chained interface is checked, then what its exporter follows, then
\* the exporter is prepared.  "steps" are those of the chains that are one shorter.
StepsFor(m, steps, i) ==
    IF ~ChainedInterface(m, i) THEN <<>>
    ELSE <<<<"check", i>>>> \o steps[Exporter[i]] \o <<<<"prepare", i>>>>

StepsOfLonger(m, steps) ==
    [c \in Controllers |-> FlattenSeq([k \in DOMAIN Uses[c] |-> StepsFor(m, steps, Uses[c][k])])]

FollowingSteps(m) ==
    LET steps[n \in 0 .. Len(m.list)] ==
          IF n = 0 THEN [c \in Controllers |-> <<>>] ELSE StepsOfLonger(m, steps[n - 1])
    IN  steps[Len(m.list)]

\* Mutant: an exporter that is not active is not looked for among those to be activated.
StaysActive(m, r, f) == m.state[f] = "active" => f \notin Range(r.deact)

\* The exporter is active and stays so, or is to be activated.
WillBeActive(m, r, f) ==
    IF m.state[f] = "active" THEN f \notin Range(r.deact) ELSE f \in Range(r.act)

\* The exporter is switched to chained mode, or kept in it.
PrepareFollowing(m, r, i) ==
    LET f == Exporter[i] IN
    IF m.chained[f] THEN [r EXCEPT !.from = @ \ {f}]
    ELSE IF f \in r.to THEN r
    ELSE IF f \notin m.exported THEN [r EXCEPT !.status = "exception"]
    ELSE IF i \in CommandInterfaces
    THEN [r EXCEPT !.available = @ \cup Exports(f), !.to = @ \cup {f}]
    ELSE [r EXCEPT !.available = @ \cup (Exports(f) \ CommandInterfaces)]

FollowingStep(m, r, step) ==
    IF r.status /= "ok" THEN r
    ELSE IF step[1] = "prepare" THEN PrepareFollowing(m, r, step[2])
    ELSE IF WillBeActive(m, r, Exporter[step[2]]) THEN r ELSE [r EXCEPT !.status = "error"]

check_following_controllers_for_activate(m, r, c) ==
    LET steps == FollowingSteps(m)[c]
        after[k \in 0 .. Len(steps)] ==
          IF k = 0 THEN r ELSE FollowingStep(m, after[k - 1], steps[k])
    IN  after[Len(steps)]

\* Every fallback controller is configured, and what it requires is available or
\* exported by another fallback controller that is inactive.
FallbackReady(m, r, c, fb) ==
    /\ fb \in Loaded(m) /\ Configured(m, fb)
    /\ \A i \in Range(Uses[fb]) \ r.available :
          /\ ChainedInterface(m, i)
          /\ m.state[Exporter[i]] = "inactive" => Exporter[i] \in Range(Fallbacks[c])

check_fallback_controllers_state_pre_activation(m, r, c) ==
    IF \A fb \in Range(Fallbacks[c]) : FallbackReady(m, r, c, fb) THEN r ELSE [r EXCEPT !.status = "error"]

\* Only inactive controllers, and active ones that are deactivated by the same request,
\* can be activated; the following controllers are checked for the inactive ones.
CheckState(m, r, c) ==
    CASE m.state[c] = "inactive" -> check_following_controllers_for_activate(m, r, c)
      [] m.state[c] = "active" /\ c \in Range(r.deact) -> r
      [] OTHER -> [r EXCEPT !.status = "error"]

CheckFallback(m, r, c) ==
    IF r.status = "ok" THEN check_fallback_controllers_state_pre_activation(m, r, c) ELSE r

\* A best effort switch goes on without the controller, a strict one is aborted.
OrWithout(r, strict, c) ==
    IF r.status = "error" /\ ~strict THEN [r EXCEPT !.status = "ok", !.act = Without(@, c)] ELSE r

CheckActivate(m, r, strict, c) ==
    IF r.status /= "ok" THEN r
    ELSE OrWithout(CheckFallback(m, CheckState(m, r, c), c), strict, c)

CheckActivateList(m, r, strict) ==
    LET after[k \in 0 .. Len(r.act)] ==
          IF k = 0 THEN r ELSE CheckActivate(m, after[k - 1], strict, r.act[k])
    IN  after[Len(r.act)]

-----------------------------------------------------------------------------
Preceding(m, c) == { p \in Loaded(m) : <<p, c>> \in m.links }

\* Mutant: a preceding controller may stay active.
PrecedingMayStay(m, r, c) ==
    \A p \in Preceding(m, c) : ~(m.state[p] = "inactive" /\ p \in Range(r.act))

check_preceding_controllers_for_deactivate(m, r, c) ==
    \A p \in Preceding(m, c) :
       /\ ~(m.state[p] = "inactive" /\ p \in Range(r.act))
       /\ m.state[p] = "active" => p \in Range(r.deact)

CheckDeactivate(m, r, strict, c) ==
    IF r.status /= "ok" \/ (m.state[c] = "active" /\ check_preceding_controllers_for_deactivate(m, r, c))
    THEN r
    ELSE IF strict THEN [r EXCEPT !.status = "error"] ELSE [r EXCEPT !.deact = Without(@, c)]

CheckDeactivateList(m, r, strict) ==
    LET after[k \in 0 .. Len(r.deact)] ==
          IF k = 0 THEN r ELSE CheckDeactivate(m, after[k - 1], strict, r.deact[k])
    IN  after[Len(r.deact)]

\* Nothing is left to switch.
Settled(r) ==
    IF r.status = "ok" /\ r.act = <<>> /\ r.deact = <<>> THEN [r EXCEPT !.status = "done"] ELSE r

-----------------------------------------------------------------------------
\* Mutant: only a controller that leaves chained mode is restarted.
RestartUnchained(m, r, c) ==
    IF c \in r.from /\ m.state[c] = "active" /\ c \notin Range(r.deact)
    THEN [r EXCEPT !.deact = Append(@, c), !.act = Append(@, c)] ELSE r

\* The controllers that change their chained mode while they are active are restarted.
Restart(m, r, c) ==
    IF c \in r.to \cup r.from /\ m.state[c] = "active" /\ c \notin Range(r.deact)
    THEN [r EXCEPT !.deact = Append(@, c), !.act = Append(@, c)] ELSE r

\* Requests that cannot be met: to deactivate what is not active, and to activate what is
\* not inactive and not restarted.  The hardware of a controller that is left in the
\* activate list is noted at once.
DropConflicts(m, r, strict, c) ==
    LET stops == c \in Range(r.deact) /\ m.state[c] = "active"
        double_stop == c \in Range(r.deact) /\ m.state[c] /= "active"
        illegal == c \in Range(r.act) /\ ~stops /\ m.state[c] /= "inactive"
    IN  IF strict /\ (double_stop \/ illegal) THEN [r EXCEPT !.status = "error"]
        ELSE [r EXCEPT !.deact = IF double_stop THEN Without(@, c) ELSE @,
                       !.act = IF illegal THEN Without(@, c) ELSE @,
                       !.users = IF c \in Range(r.act) /\ ~illegal THEN @ \cup {c} ELSE @]

\* The loop over the controllers of the list.
ResolveConflict(m, r, strict, c) ==
    IF r.status /= "ok" THEN r ELSE DropConflicts(m, Restart(m, r, c), strict, c)

ResolveConflicts(m, r, strict) ==
    LET after[k \in 0 .. Len(m.list)] ==
          IF k = 0 THEN r ELSE ResolveConflict(m, after[k - 1], strict, m.list[k])
    IN  after[Len(m.list)]

\* What controller c requires is available, not claimed by a controller that stays
\* active and not required by one activated before it.
RequiredIsFree(m, r, freed, taken, c) ==
    /\ \A i \in Commands(c) : i \in r.available /\ i \notin taken /\ (i \in m.claimed => i \in freed)
    /\ Observed(c) \subseteq r.available

\* Looking up the claim of an available interface that is in no map throws.
UnknownClaim(m, r, c) == \E i \in Commands(c) \cap r.available : Exporter[i] \in Controllers \ m.exported

\* The controllers that are activated and not just restarted, one after the other.
check_for_interfaces_availability_to_activate(m, r) ==
    LET freed == UNION { Commands(c) : c \in Range(r.deact) }
        added == Those(r.act, Range(r.act) \ Range(r.deact))
        Taken(k) == UNION { Commands(added[j]) : j \in 1 .. k - 1 }
        Fails(k) == UnknownClaim(m, r, added[k]) \/ ~RequiredIsFree(m, r, freed, Taken(k), added[k])
        first == SelectInSeq([k \in DOMAIN added |-> Fails(k)], LAMBDA fails : fails)
    IN  IF r.status /= "ok" \/ first = 0 THEN r
        ELSE [r EXCEPT !.status = IF UnknownClaim(m, r, added[first]) THEN "exception" ELSE "error"]

-----------------------------------------------------------------------------
\* The requested lists, and the controllers that leave chained mode with them.
Requested(m, available, d, a) ==
    propagate_deactivation_of_chained_mode(m,
        [act |-> a.names, deact |-> d.names, to |-> {}, from |-> {},
         available |-> available, users |-> {},
         status |-> IF d.status = "ok" /\ a.status = "ok" THEN "ok" ELSE "error"])

\* The request after all the checks.
Checked(m, available, deactivate, activate, strict) ==
    LET requested == Requested(m, available, list_controllers(m, strict, deactivate),
                                             list_controllers(m, strict, activate))
        wanted == Settled(CheckDeactivateList(m, CheckActivateList(m, requested, strict), strict))
    IN  check_for_interfaces_availability_to_activate(m, Settled(ResolveConflicts(m, wanted, strict)))
=============================================================================
