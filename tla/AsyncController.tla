---------------------------- MODULE AsyncController ----------------------------
(***************************************************************************)
(* A controller that runs asynchronously (is_async), seen by its base      *)
(* class: update is called by a worker thread, one run for each trigger of *)
(* the control loop; switch requests prepare the controller before the     *)
(* loop deactivates it; the thread is started by configure and stopped by  *)
(* cleanup and by the handling of errors.                                  *)
(*                                                                         *)
(* The worker is an AsyncFunctionHandler of realtime_tools (see            *)
(* AsyncHardware); resetting it waits for the run in progress, as stopping *)
(* its thread does, and a trigger without a thread throws.                 *)
(***************************************************************************)
VARIABLES
    state,          \* the state of the lifecycle node
    thread,         \* the thread of async_handler_ is running
    worker,         \* "updating" while a run is in progress
    returned,       \* what the last run has returned, kept by the handler
    exception,      \* the handler has an exception to throw again
    skip,           \* skip_async_triggers_
    loop,           \* the place of the control loop
    service,        \* the place of the switch_controller service
    request,        \* what switch_params_ asks of this controller
    do_switch,      \* switch_params_.do_switch
    broken,         \* from now on update fails in every run
    fresh           \* what began since the controller was last activated

vars == <<state, thread, worker, returned, exception, skip, loop, service, request,
          do_switch, broken, fresh>>

TypeOK ==
    /\ state \in {"unconfigured", "inactive", "active", "finalized"}
    /\ thread \in BOOLEAN
    /\ worker \in {"idle", "updating"}
    /\ returned \in {"OK", "ERROR"}
    /\ exception \in BOOLEAN
    /\ skip \in BOOLEAN
    /\ loop \in {"update", "trigger", "failed", "switch"}
    /\ service \in {"idle", "prepare", "wait", "mode", "switching"}
    /\ request \in {"none", "activate", "deactivate"}
    /\ do_switch \in BOOLEAN
    /\ broken \in BOOLEAN
    /\ fresh \in SUBSET {"run", "returned"}

Init ==
    /\ state = "unconfigured"
    /\ thread = FALSE
    /\ worker = "idle"
    /\ returned = "OK"
    /\ exception = FALSE
    /\ skip = FALSE
    /\ loop = "update"
    /\ service = "idle"
    /\ request = "none"
    /\ do_switch = FALSE
    /\ broken = FALSE
    /\ fresh = {}

loop_vars == <<loop, do_switch>>
service_vars == <<service, request>>
handler_vars == <<thread, worker, returned, exception>>

-----------------------------------------------------------------------------
(* The callbacks registered by init.                                        *)

\* Mutant: the thread is told to stop, and not joined.
StopWithoutJoin == worker \in {"idle", "updating"} /\ thread' = FALSE

\* stop_async_handler_thread joins the thread.
StopThread == worker = "idle" /\ thread' = FALSE

\* The error processing of the node: the thread is stopped before on_error.
ErrorProcessing ==
    /\ StopThread
    /\ state' \in {"unconfigured", "finalized"}
    /\ UNCHANGED <<worker, returned, exception>>

\* on_deactivate succeeds or fails, or returns an error.
Deactivated ==
    \/ state' \in {"inactive", "active"} /\ UNCHANGED handler_vars
    \/ ErrorProcessing

\* reset_variables, when the handler is running.
ResetHandler ==
    IF thread
    THEN worker = "idle" /\ returned' = "OK" /\ exception' = FALSE /\ fresh' = {}
    ELSE UNCHANGED <<returned, exception, fresh>>

\* on_activate: triggers are no longer skipped, and the handler is reset.
Activated ==
    /\ skip' = FALSE
    /\ ResetHandler
    /\ \/ state' \in {"active", "inactive"} /\ UNCHANGED <<thread, worker>>
       \/ StopThread /\ state' \in {"unconfigured", "finalized"} /\ UNCHANGED worker

-----------------------------------------------------------------------------
(* The control loop: ControllerManager::update for this controller.         *)

\* An active controller is triggered, but not when it is being deactivated,
\* nor when its triggers are to be skipped.
LoopCheck ==
    /\ loop = "update"
    /\ loop' = IF state = "active" /\ ~(do_switch /\ request = "deactivate") /\ ~skip
               THEN "trigger" ELSE "switch"
    /\ UNCHANGED <<state, handler_vars, skip, service_vars, do_switch, broken, fresh>>

\* trigger_update: a run is started if none is in progress, and the result of
\* the last run, or its exception, is reported.
LoopTrigger ==
    /\ loop = "trigger"
    /\ LET throws == exception \/ ~thread
           starts == worker = "idle" /\ ~throws
       IN /\ worker' = IF starts THEN "updating" ELSE worker
          /\ fresh' = IF starts THEN fresh \cup {"run"} ELSE fresh
          /\ loop' = IF throws \/ returned = "ERROR" THEN "failed" ELSE "switch"
    /\ UNCHANGED <<state, thread, returned, exception, skip, service_vars, do_switch, broken>>

\* A controller whose update has failed is deactivated by the loop.
LoopDeactivates ==
    /\ loop = "failed"
    /\ loop' = "switch"
    /\ IF state = "active" THEN Deactivated ELSE UNCHANGED <<state, handler_vars>>
    /\ UNCHANGED <<skip, service_vars, do_switch, broken, fresh>>

\* manage_switch, when it is asked for.
LoopSwitches ==
    /\ loop = "switch"
    /\ loop' = "update"
    /\ do_switch' = FALSE
    /\ CASE do_switch /\ request = "deactivate" /\ state = "active" ->
                Deactivated /\ UNCHANGED <<skip, fresh>>
         [] do_switch /\ request = "activate" /\ state = "inactive" -> Activated
         [] OTHER -> UNCHANGED <<state, handler_vars, skip, fresh>>
    /\ UNCHANGED <<service_vars, broken>>

-----------------------------------------------------------------------------
(* The services: configure, cleanup, and the requests of switch_controller. *)

\* configure makes a new handler, which ends the old one, and starts its thread.
Configure ==
    /\ service = "idle"
    /\ state = "unconfigured"
    /\ worker = "idle"
    /\ returned' = "OK"
    /\ exception' = FALSE
    /\ \/ state' \in {"inactive", "unconfigured"} /\ thread' = TRUE
       \/ state' \in {"unconfigured", "finalized"} /\ thread' = FALSE
    /\ UNCHANGED <<worker, skip, loop_vars, service_vars, broken, fresh>>

\* The thread is stopped before on_cleanup, which may fail.
Cleanup ==
    /\ service = "idle"
    /\ state = "inactive"
    /\ StopThread
    /\ state' \in {"unconfigured", "inactive", "finalized"}
    /\ UNCHANGED <<worker, returned, exception, skip, loop_vars, service_vars, broken, fresh>>

RequestActivate ==
    /\ service = "idle"
    /\ state = "inactive"
    /\ service' = "mode"
    /\ request' = "activate"
    /\ UNCHANGED <<state, handler_vars, skip, loop_vars, broken, fresh>>

RequestDeactivate ==
    /\ service = "idle"
    /\ state = "active"
    /\ service' = "prepare"
    /\ request' = "deactivate"
    /\ UNCHANGED <<state, handler_vars, skip, loop_vars, broken, fresh>>

\* prepare_for_deactivation: no more triggers ...
SkipTriggers ==
    /\ service = "prepare"
    /\ skip' = TRUE
    /\ service' = "wait"
    /\ UNCHANGED <<state, handler_vars, request, loop_vars, broken, fresh>>

\* ... and the run in progress ends.
WaitForRun ==
    /\ service = "wait"
    /\ worker = "idle" \/ ~thread
    /\ service' = "mode"
    /\ UNCHANGED <<state, handler_vars, skip, request, loop_vars, broken, fresh>>

\* The hardware accepts the command mode switch, and the loop is asked to switch;
\* or it refuses, and the service returns.
PrepareMode ==
    /\ service = "mode"
    /\ \/ service' = "switching" /\ do_switch' = TRUE /\ UNCHANGED request
       \/ service' = "idle" /\ request' = "none" /\ UNCHANGED do_switch
    /\ UNCHANGED <<state, handler_vars, skip, loop, broken, fresh>>

\* The loop has switched, or the call times out.
Return ==
    /\ service = "switching"
    /\ service' = "idle"
    /\ request' = "none"
    /\ do_switch' = FALSE
    /\ UNCHANGED <<state, handler_vars, skip, loop, broken, fresh>>

-----------------------------------------------------------------------------
\* update returns, or throws.
UpdateReturns ==
    /\ worker = "updating"
    /\ worker' = "idle"
    /\ \/ /\ returned' \in (IF broken THEN {"ERROR"} ELSE {"OK", "ERROR"})
          /\ fresh' = IF "run" \in fresh THEN fresh \cup {"returned"} ELSE fresh \ {"returned"}
          /\ UNCHANGED exception
       \/ exception' = TRUE /\ UNCHANGED <<returned, fresh>>
    /\ UNCHANGED <<state, thread, skip, loop_vars, service_vars, broken>>

Break ==
    /\ ~broken
    /\ broken' = TRUE
    /\ UNCHANGED <<state, handler_vars, skip, loop_vars, service_vars, fresh>>

Loop == LoopCheck \/ LoopTrigger \/ LoopDeactivates \/ LoopSwitches
Prepare == SkipTriggers \/ WaitForRun \/ PrepareMode

Next ==
    \/ Loop
    \/ Prepare
    \/ Configure \/ Cleanup \/ RequestActivate \/ RequestDeactivate \/ Return
    \/ UpdateReturns
    \/ Break

Spec == Init /\ [][Next]_vars

\* The loop is periodic, update returns, and the service goes on.
Fairness == WF_vars(Loop) /\ WF_vars(UpdateReturns) /\ WF_vars(Prepare) /\ WF_vars(Return)

-----------------------------------------------------------------------------
(* Properties.                                                              *)

\* No update runs in a controller that is unconfigured or finalized: whatever
\* has failed, its thread was joined on the way there.
StoppedIsIdle == state \in {"unconfigured", "finalized"} => worker = "idle"

\* The failure that stops a controller is one of its present activation, though
\* the handler keeps what the last run has returned.
FailuresAreFresh ==
    state = "active" /\ thread /\ returned = "ERROR" => "returned" \in fresh

\* A request that was refused, or has timed out, has left the controller
\* active and its triggers skipped.
Silenced == state = "active" /\ skip /\ service = "idle"

\* A controller whose updates fail for good is stopped by the loop, unless a
\* failed request has silenced it.
FailingIsStopped ==
    (broken /\ state = "active") ~> (loop = "failed" \/ state /= "active" \/ Silenced)

\* A switch request either deactivates an asynchronous controller or leaves it
\* to be updated ("called by the controller manager before deactivating").
NeverSilenced == ~Silenced
=============================================================================
