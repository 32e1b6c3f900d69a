----------------------------- MODULE AsyncHardware -----------------------------
(***************************************************************************)
(* A hardware component that runs asynchronously (is_async): its read and  *)
(* write are called by a worker thread, one run for each trigger, and the  *)
(* control loop looks at the results the worker has left in two atomics.   *)
(* The lifecycle transitions are called by services, and by the loop when  *)
(* a result says so; component_mutex_ keeps the two apart, and each        *)
(* transition pauses the worker before it calls the driver.                *)
(*                                                                         *)
(* The worker is an AsyncFunctionHandler of realtime_tools, outside this   *)
(* repository: a trigger starts a run unless one is in progress, a pause   *)
(* waits for the run in progress, and an exception of a run is thrown      *)
(* again by every later trigger.  Its policy is "synchronized".            *)
(***************************************************************************)
CONSTANT IsSensor       \* a Boolean: the component is of type "sensor", never written

VARIABLES
    state,              \* lifecycle_state_ and lifecycle_id_cache_
    read_info,          \* read_return_info_
    write_info,         \* write_return_info_
    worker,             \* what the worker is doing
    exception,          \* the worker has an exception to throw again
    mutex,              \* the transition that runs under component_mutex_
    loop,               \* the place of the control loop
    loaded,             \* the result trigger_read or trigger_write has loaded
    broken,             \* from now on the driver fails in every run
    fresh               \* what began since the component was last activated: the
                        \* run in progress and the runs of the results

vars == <<state, read_info, write_info, worker, exception, mutex, loop, loaded,
          broken, fresh>>

States == {"unknown", "unconfigured", "inactive", "active", "finalized"}
Results == {"OK", "ERROR", "DEACTIVATE"}
Transitions == {"initialize", "configure", "cleanup", "shutdown", "activate",
                "deactivate", "error"}
Free == [op |-> "none", by |-> "none", at |-> "none"]

TypeOK ==
    /\ state \in States
    /\ read_info \in Results
    /\ write_info \in Results
    /\ worker \in {"idle", "reading", "has_read", "writing"}
    /\ exception \in BOOLEAN
    /\ mutex \in {Free} \cup
        [op : Transitions, by : {"service", "loop"}, at : {"pausing", "callback"}]
    /\ loop \in {"read", "trigger", "read_failed", "write", "write_failed"}
    /\ loaded \in Results
    /\ broken \in BOOLEAN
    /\ fresh \in SUBSET {"run", "read", "write"}

Init ==
    /\ state = "unknown"
    /\ read_info = "OK"
    /\ write_info = "OK"
    /\ worker = "idle"
    /\ exception = FALSE
    /\ mutex = Free
    /\ loop = "read"
    /\ loaded = "OK"
    /\ broken = FALSE
    /\ fresh = {}

-----------------------------------------------------------------------------
(* The transitions of HardwareComponent.                                    *)

\* The states a transition is for; in others it does nothing.
From(op) ==
    CASE op = "initialize" -> {"unknown"}
      [] op = "configure" -> {"unconfigured"}
      [] op = "cleanup" -> {"inactive"}
      [] op = "activate" -> {"inactive"}
      [] op = "deactivate" -> {"active"}
      [] op = "shutdown" -> {"unconfigured", "inactive", "active"}
      [] op = "error" -> {"inactive", "active", "finalized"}

\* The state the driver's SUCCESS leads to.
Goal(op) ==
    CASE op \in {"initialize", "cleanup", "error"} -> "unconfigured"
      [] op \in {"configure", "deactivate"} -> "inactive"
      [] op = "activate" -> "active"
      [] op = "shutdown" -> "finalized"

\* The states its SUCCESS, FAILURE and ERROR, and an exception, lead to.
Outcomes(op) ==
    CASE op \in {"initialize", "error"} -> {Goal(op), "finalized"}
      [] op = "configure" /\ state = "unconfigured" -> {"inactive", "unconfigured"}
      [] op = "shutdown" /\ state = "unconfigured" -> {"finalized", "unconfigured"}
      [] OTHER -> {Goal(op), state, "unconfigured", "finalized"}

\* A request takes the mutex of the component.
Request(op) ==
    /\ mutex = Free
    /\ loop \in {"read", "write"}
    /\ state \in From(op)
    /\ mutex' = [op |-> op, by |-> "service", at |-> "pausing"]
    /\ UNCHANGED <<state, read_info, write_info, worker, exception, loop, loaded,
                   broken, fresh>>

\* Mutant: the pause does not wait.
pause_without_waiting == worker \in {"idle", "reading", "has_read", "writing"}

\* pause_async_operations waits until the run in progress has ended.
pause_async_operations == worker = "idle"

\* Mutant: the result of the last write is not.
prepare_for_read_only ==
    /\ read_info' = "OK"
    /\ write_info' = write_info
    /\ fresh' = {}

\* The results of the runs before an activation are forgotten.
prepare_for_activation ==
    /\ read_info' = "OK"
    /\ write_info' = "OK"
    /\ fresh' = {}

\* The transition calls the driver when the worker is paused.
CallDriver ==
    /\ mutex.at = "pausing"
    /\ pause_async_operations
    /\ mutex' = [mutex EXCEPT !.at = "callback"]
    /\ IF mutex.op = "activate"
       THEN prepare_for_activation
       ELSE UNCHANGED <<read_info, write_info, fresh>>
    /\ UNCHANGED <<state, worker, exception, loop, loaded, broken>>

\* The driver returns or throws, and the mutex is free again.
DriverReturns ==
    /\ mutex.at = "callback"
    /\ state' \in Outcomes(mutex.op)
    /\ mutex' = Free
    /\ loop' = CASE loop = "read_failed" -> "write"
                 [] loop = "write_failed" -> "read"
                 [] OTHER -> loop
    /\ UNCHANGED <<read_info, write_info, worker, exception, loaded, broken, fresh>>

-----------------------------------------------------------------------------
(* The control loop: ResourceManager::read and write for this component,    *)
(* which skip it while its mutex is taken.                                  *)

LoopRuns(op) == [op |-> op, by |-> "loop", at |-> "pausing"]

\* trigger_read loads what the last run has left.
LoadRead ==
    /\ loop = "read"
    /\ IF mutex = Free /\ state \in {"inactive", "active"}
       THEN loop' = "trigger" /\ loaded' = read_info
       ELSE loop' = "write" /\ UNCHANGED loaded
    /\ UNCHANGED <<state, read_info, write_info, worker, exception, mutex, broken, fresh>>

\* Mutant: the result is dropped although the run was triggered.
TriggerRunOnly ==
    /\ loop = "trigger"
    /\ worker' = IF exception \/ worker /= "idle" THEN worker ELSE "reading"
    /\ fresh' = fresh \cup {"run"}
    /\ loop' = "write"
    /\ UNCHANGED <<state, read_info, write_info, exception, mutex, loaded, broken>>

\* It triggers the next run; a result other than OK, or an exception, stops
\* the component, but not when the last run is still in progress.
TriggerRun ==
    /\ loop = "trigger"
    /\ LET starts == worker = "idle" /\ ~exception
           failed == exception \/ (starts /\ loaded /= "OK")
       IN /\ worker' = IF starts THEN "reading" ELSE worker
          /\ fresh' = IF starts THEN fresh \cup {"run"} ELSE fresh
          /\ loop' = IF failed THEN "read_failed" ELSE "write"
          /\ mutex' = IF failed THEN LoopRuns("error") ELSE mutex
    /\ UNCHANGED <<state, read_info, write_info, exception, loaded, broken>>

\* trigger_write only looks at what the last write has left.
LoadWrite ==
    /\ loop = "write"
    /\ LET written == mutex = Free /\ state = "active" /\ ~IsSensor
       IN /\ loaded' = IF written THEN write_info ELSE loaded
          /\ loop' = IF written /\ write_info /= "OK" THEN "write_failed" ELSE "read"
          /\ mutex' = IF ~written \/ write_info = "OK" THEN mutex
                      ELSE LoopRuns(IF write_info = "ERROR" THEN "error" ELSE "deactivate")
    /\ UNCHANGED <<state, read_info, write_info, worker, exception, broken, fresh>>

-----------------------------------------------------------------------------
(* The worker, and the driver it calls.                                     *)

Left(which) == IF "run" \in fresh THEN fresh \cup {which} ELSE fresh \ {which}

\* read returns; when it fails, or throws, the run is over.
ReadReturns ==
    /\ worker = "reading"
    /\ \/ \E r \in (IF broken THEN {"ERROR"} ELSE Results) :
            /\ read_info' = r
            /\ worker' = IF r = "OK" THEN "has_read" ELSE "idle"
            /\ fresh' = Left("read")
            /\ UNCHANGED exception
       \/ /\ exception' = TRUE
          /\ worker' = "idle"
          /\ UNCHANGED <<read_info, fresh>>
    /\ UNCHANGED <<state, write_info, mutex, loop, loaded, broken>>

\* An active actuator or system is written in the same run.
StartWrite ==
    /\ worker = "has_read"
    /\ worker' = IF ~IsSensor /\ state = "active" THEN "writing" ELSE "idle"
    /\ UNCHANGED <<state, read_info, write_info, exception, mutex, loop, loaded,
                   broken, fresh>>

WriteReturns ==
    /\ worker = "writing"
    /\ worker' = "idle"
    /\ \/ write_info' \in Results /\ fresh' = Left("write") /\ UNCHANGED exception
       \/ exception' = TRUE /\ UNCHANGED <<write_info, fresh>>
    /\ UNCHANGED <<state, read_info, mutex, loop, loaded, broken>>

Break ==
    /\ ~broken
    /\ broken' = TRUE
    /\ UNCHANGED <<state, read_info, write_info, worker, exception, mutex, loop,
                   loaded, fresh>>

Loop == LoadRead \/ TriggerRun \/ LoadWrite
Worker == ReadReturns \/ StartWrite \/ WriteReturns
Transition == CallDriver \/ DriverReturns

Next ==
    \/ \E op \in Transitions \ {"error"} : Request(op)
    \/ Transition
    \/ Loop
    \/ Worker
    \/ Break

Spec == Init /\ [][Next]_vars

\* The loop is periodic; the driver returns from every call.
Fairness == WF_vars(Loop) /\ WF_vars(Worker) /\ WF_vars(Transition)

-----------------------------------------------------------------------------
(* Properties.                                                              *)

\* The driver is called by one thread at a time: while a transition calls it,
\* the worker does not, and it is only written while the component is active,
\* though deactivations do not wait for a trigger.
OneCaller ==
    /\ mutex.at = "callback" => worker = "idle"
    /\ worker = "writing" => state = "active"

\* A result that can stop an active component is one of its present activation:
\* what it did before was forgotten, and no run of before ends after that.
FailuresAreFresh ==
    state = "active" =>
        /\ read_info /= "OK" => "read" \in fresh
        /\ write_info /= "OK" => "write" \in fresh

\* An active component whose driver fails for good, or has thrown, is stopped
\* by the loop, when requests do not keep its mutex taken for ever.
FailingIsStopped ==
    <>[](mutex.by /= "service") =>
        ((broken \/ exception) /\ state = "active") ~> (state /= "active")
=============================================================================
