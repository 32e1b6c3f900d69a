------------------------------ MODULE AsyncProofs ------------------------------
(***************************************************************************)
(* Proofs about AsyncController and AsyncHardware, as MCAsync puts them    *)
(* beside each other.                                                      *)
(***************************************************************************)
EXTENDS MCAsync, TLAPS

\* The loop triggers only a controller that is active, and a run that goes on in one
\* was started since its activation.
RunsAreFresh ==
    /\ loop = "trigger" => state = "active"
    /\ worker = "updating" => thread
    /\ state = "active" /\ worker = "updating" => "run" \in fresh

\* The invariant of a controller.
ControllerInv ==
    /\ TypeOK
    /\ StoppedIsIdle
    /\ RunsAreFresh
    /\ FailuresAreFresh

\* The loop triggers a component only when nobody has its mutex; a run in an active one
\* was started since its activation; an activation starts with clean results.
HardwareRunsAreFresh ==
    /\ loop = "trigger" => mutex = Hardware!Free
    /\ state = "active" /\ worker /= "idle" => "run" \in fresh
    /\ mutex.at = "callback" /\ mutex.op = "activate" => read_info = "OK" /\ write_info = "OK"

\* The invariant of a component.
HardwareInv ==
    /\ Hardware!TypeOK
    /\ Hardware!OneCaller
    /\ HardwareRunsAreFresh
    /\ Hardware!FailuresAreFresh

IInv ==
    /\ part \in {"controller", "hardware"}
    /\ part = "controller" => ControllerInv
    /\ part = "hardware" => HardwareInv

-----------------------------------------------------------------------------
(* The controller.                                                          *)

\* on_deactivate, whatever it returns.
LEMMA DeactivatedKeeps ==
    ASSUME ControllerInv, Deactivated, state = "active",
           loop' \in {"update", "switch"}, skip' \in BOOLEAN, do_switch' \in BOOLEAN,
           UNCHANGED <<service_vars, broken, fresh>>
    PROVE  ControllerInv'
<1> USE DEF ControllerInv, TypeOK, StoppedIsIdle, RunsAreFresh, FailuresAreFresh, service_vars
<1>1. CASE state' \in {"inactive", "active"} /\ UNCHANGED handler_vars
  BY <1>1 DEF handler_vars
<1>2. CASE ErrorProcessing
  BY <1>2 DEF ErrorProcessing, StopThread
<1>3. QED
  BY <1>1, <1>2 DEF Deactivated

\* One step per action of a controller.
LEMMA ControllerNext ==
    ASSUME ControllerInv, Next
    PROVE  ControllerInv'
<1> USE DEF ControllerInv, TypeOK, StoppedIsIdle, RunsAreFresh, FailuresAreFresh
<1>1. CASE LoopCheck
  BY <1>1 DEF LoopCheck, handler_vars, service_vars
<1>2. CASE LoopTrigger
  <2>1. CASE worker = "idle" /\ ~(exception \/ ~thread)
    BY <1>2, <2>1 DEF LoopTrigger, service_vars
  <2>2. CASE ~(worker = "idle" /\ ~(exception \/ ~thread))
    BY <1>2, <2>2 DEF LoopTrigger, service_vars
  <2>3. QED
    BY <2>1, <2>2
<1>3. CASE LoopDeactivates
  <2>1. CASE state = "active"
    BY <1>3, <2>1, DeactivatedKeeps DEF LoopDeactivates
  <2>2. CASE state /= "active"
    BY <1>3, <2>2 DEF LoopDeactivates, service_vars, handler_vars
  <2>3. QED
    BY <2>1, <2>2
<1>4. CASE LoopSwitches
  <2>1. CASE do_switch /\ request = "deactivate" /\ state = "active"
    BY <1>4, <2>1, DeactivatedKeeps DEF LoopSwitches
  <2>2. CASE do_switch /\ request = "activate" /\ state = "inactive"
    <3>1. Activated /\ loop' = "update" /\ do_switch' = FALSE /\ UNCHANGED <<service_vars, broken>>
      BY <1>4, <2>2 DEF LoopSwitches
    <3>2. worker' = worker /\ skip' = FALSE /\ loop' = "update" /\ do_switch' = FALSE
          /\ UNCHANGED <<service_vars, broken>>
      BY <3>1 DEF Activated
    <3>3. /\ state' \in {"unconfigured", "inactive", "active", "finalized"}
          /\ thread' \in BOOLEAN /\ (thread' => thread)
      <4>1. CASE state' \in {"active", "inactive"} /\ UNCHANGED <<thread, worker>>
        BY <4>1
      <4>2. CASE StopThread /\ state' \in {"unconfigured", "finalized"} /\ UNCHANGED worker
        BY <4>2 DEF StopThread
      <4>3. QED
        BY <3>1, <4>1, <4>2 DEF Activated
    <3>4. CASE thread
      <4>1. worker = "idle" /\ returned' = "OK" /\ exception' = FALSE /\ fresh' = {}
        BY <3>1, <3>4 DEF Activated, ResetHandler
      <4>2. QED
        BY <3>2, <3>3, <4>1 DEF service_vars
    <3>5. CASE ~thread
      BY <3>1, <3>2, <3>5, <3>3 DEF Activated, ResetHandler, service_vars
    <3>6. QED
      BY <3>4, <3>5
  <2>3. CASE /\ ~(do_switch /\ request = "deactivate" /\ state = "active")
             /\ ~(do_switch /\ request = "activate" /\ state = "inactive")
    <3>1. /\ UNCHANGED <<state, thread, worker, returned, exception, skip, fresh>>
          /\ UNCHANGED <<service, request, broken>>
          /\ loop' = "update" /\ do_switch' = FALSE
      <4> HIDE DEF ControllerInv, TypeOK, StoppedIsIdle, RunsAreFresh, FailuresAreFresh
      <4>1. UNCHANGED <<state, handler_vars, skip, fresh>>
        BY <1>4, <2>3 DEF LoopSwitches
      <4>2. UNCHANGED <<service_vars, broken>> /\ loop' = "update" /\ do_switch' = FALSE
        BY <1>4 DEF LoopSwitches
      <4>3. QED
        BY <4>1, <4>2 DEF service_vars, handler_vars
    <3>2. thread' \in BOOLEAN /\ exception' \in BOOLEAN /\ skip' \in BOOLEAN
      BY <3>1
    <3>3. broken' \in BOOLEAN /\ do_switch' \in BOOLEAN
      BY <3>1
    <3>4. TypeOK'
      BY <3>1, <3>2, <3>3
    <3>5. QED
      BY <3>1, <3>4
  <2>4. QED
    BY <2>1, <2>2, <2>3
<1>5. CASE SkipTriggers
  BY <1>5 DEF SkipTriggers, handler_vars, loop_vars
<1>6. CASE WaitForRun
  BY <1>6 DEF WaitForRun, handler_vars, loop_vars
<1>7. CASE PrepareMode
  <2>1. UNCHANGED <<state, handler_vars, skip, loop, broken, fresh>>
    BY <1>7 DEF PrepareMode
  <2>2. service' \in {"switching", "idle"} /\ request' \in {"none", request}
    BY <1>7 DEF PrepareMode
  <2>3. do_switch' \in BOOLEAN
    BY <1>7 DEF PrepareMode
  <2>4. QED
    BY <2>1, <2>2, <2>3 DEF handler_vars
<1>8. CASE Return
  BY <1>8 DEF Return, handler_vars
<1>9. CASE Configure
  BY <1>9 DEF Configure, loop_vars, service_vars
<1>10. CASE Cleanup
  BY <1>10 DEF Cleanup, StopThread, loop_vars, service_vars
<1>11. CASE RequestActivate
  BY <1>11 DEF RequestActivate, handler_vars, loop_vars
<1>12. CASE RequestDeactivate
  BY <1>12 DEF RequestDeactivate, handler_vars, loop_vars
<1>13. CASE UpdateReturns
  <2>1. /\ worker = "updating" /\ worker' = "idle"
        /\ UNCHANGED <<state, thread, skip, loop, do_switch, service, request, broken>>
    BY <1>13 DEF UpdateReturns, loop_vars, service_vars
  <2>2. CASE exception' = TRUE /\ UNCHANGED <<returned, fresh>>
    BY <2>1, <2>2
  <2>3. CASE returned' \in {"OK", "ERROR"} /\ "run" \in fresh /\ fresh' = fresh \cup {"returned"}
             /\ UNCHANGED exception
    BY <2>1, <2>3
  <2>4. CASE returned' \in {"OK", "ERROR"} /\ "run" \notin fresh /\ fresh' = fresh \ {"returned"}
             /\ UNCHANGED exception
    BY <2>1, <2>4
  <2>5. QED
    BY <1>13, <2>2, <2>3, <2>4 DEF UpdateReturns
<1>14. CASE Break
  BY <1>14 DEF Break, handler_vars, loop_vars, service_vars
<1>15. QED
  BY <1>1, <1>2, <1>3, <1>4, <1>5, <1>6, <1>7, <1>8, <1>9, <1>10, <1>11, <1>12, <1>13, <1>14
     DEF Next, Loop, Prepare

-----------------------------------------------------------------------------
(* The component.                                                           *)

\* One step per action of a component.
LEMMA HardwareNext ==
    ASSUME HardwareInv, Hardware!Next
    PROVE  HardwareInv'
<1> USE DEF HardwareInv, Hardware!TypeOK, Hardware!OneCaller, HardwareRunsAreFresh,
            Hardware!FailuresAreFresh, Hardware!Free, Hardware!States, Hardware!Results,
            Hardware!Transitions
<1>1. ASSUME NEW op \in Hardware!Transitions, Hardware!Request(op) PROVE HardwareInv'
  BY <1>1 DEF Hardware!Request
<1>2. CASE Hardware!CallDriver
  <2>1. worker = "idle" /\ mutex.at = "pausing" /\ mutex' = [mutex EXCEPT !.at = "callback"]
        /\ UNCHANGED <<state, worker, exception, loop, loaded, broken>>
    BY <1>2 DEF Hardware!CallDriver, Hardware!pause_async_operations
  <2>2. /\ mutex' \in [op : Hardware!Transitions, by : {"service", "loop"},
                         at : {"pausing", "callback"}]
        /\ mutex'.op = mutex.op /\ mutex /= Hardware!Free
    BY <2>1
  <2>3. CASE mutex.op = "activate"
    <3>1. read_info' = "OK" /\ write_info' = "OK" /\ fresh' = {}
      BY <1>2, <2>3 DEF Hardware!CallDriver, Hardware!prepare_for_activation
    <3>2. QED
      BY <2>1, <2>2, <2>3, <3>1
  <2>4. CASE mutex.op /= "activate"
    <3>1. UNCHANGED <<read_info, write_info, fresh>>
      BY <1>2, <2>4 DEF Hardware!CallDriver
    <3>2. QED
      BY <2>1, <2>2, <2>4, <3>1
  <2>5. QED
    BY <2>3, <2>4
<1>3. CASE Hardware!DriverReturns
  <2>1. /\ mutex.at = "callback" /\ worker = "idle" /\ mutex' = Hardware!Free
        /\ UNCHANGED <<read_info, write_info, worker, exception, loaded, broken, fresh>>
        /\ mutex.op \in Hardware!Transitions
    BY <1>3 DEF Hardware!DriverReturns
  <2>2. loop' \in {"read", "trigger", "write", "read_failed", "write_failed"}
        /\ (loop' = "trigger" => loop = "trigger")
    BY <1>3 DEF Hardware!DriverReturns
  <2>3. state' \in Hardware!States /\ (state' = "active" => state = "active" \/ mutex.op = "activate")
    BY <1>3, <2>1 DEF Hardware!DriverReturns, Hardware!Outcomes, Hardware!Goal
  <2>4. QED
    BY <2>1, <2>2, <2>3
<1>4. CASE Hardware!LoadRead
  BY <1>4 DEF Hardware!LoadRead
<1>5. CASE Hardware!TriggerRun
  <2> DEFINE starts == worker = "idle" /\ ~exception
             failed == exception \/ (starts /\ loaded /= "OK")
  <2>1. /\ mutex = Hardware!Free
        /\ worker' = IF starts THEN "reading" ELSE worker
        /\ fresh' = IF starts THEN fresh \cup {"run"} ELSE fresh
        /\ UNCHANGED <<state, read_info, write_info, exception, loaded, broken>>
    BY <1>5 DEF Hardware!TriggerRun
  <2>2. \/ loop' = "read_failed" /\ mutex' = [op |-> "error", by |-> "loop", at |-> "pausing"]
        \/ loop' = "write" /\ mutex' = mutex
    BY <1>5 DEF Hardware!TriggerRun, Hardware!LoopRuns
  <2>3. CASE starts
    BY <2>1, <2>2, <2>3
  <2>4. CASE ~starts
    BY <2>1, <2>2, <2>4
  <2>5. QED
    BY <2>3, <2>4
<1>6. CASE Hardware!LoadWrite
  <2>1. /\ loaded' \in Hardware!Results /\ loop' \in {"read", "write_failed"}
        /\ UNCHANGED <<state, read_info, write_info, worker, exception, broken, fresh>>
    BY <1>6 DEF Hardware!LoadWrite
  <2>2. \/ mutex' = mutex
        \/ \E op \in {"error", "deactivate"} :
             mutex' = [op |-> op, by |-> "loop", at |-> "pausing"]
    BY <1>6 DEF Hardware!LoadWrite, Hardware!LoopRuns
  <2>3. QED
    BY <2>1, <2>2
<1>7. CASE Hardware!ReadReturns
  <2>1. /\ worker = "reading" /\ worker' \in {"has_read", "idle"}
        /\ UNCHANGED <<state, write_info, mutex, loop, loaded, broken>>
    BY <1>7 DEF Hardware!ReadReturns
  <2>2. CASE exception' = TRUE /\ UNCHANGED <<read_info, fresh>>
    BY <2>1, <2>2
  <2>3. CASE read_info' \in Hardware!Results /\ fresh' = Hardware!Left("read") /\ UNCHANGED exception
    <3>1. fresh' \in SUBSET {"run", "read", "write"}
          /\ ("run" \in fresh => fresh' = fresh \cup {"read"})
      BY <2>3 DEF Hardware!Left
    <3>2. QED
      BY <2>1, <2>3, <3>1
  <2>4. QED
    BY <1>7, <2>2, <2>3 DEF Hardware!ReadReturns
<1>8. CASE Hardware!StartWrite
  BY <1>8 DEF Hardware!StartWrite
<1>9. CASE Hardware!WriteReturns
  <2>1. /\ worker = "writing" /\ worker' = "idle"
        /\ UNCHANGED <<state, read_info, mutex, loop, loaded, broken>>
    BY <1>9 DEF Hardware!WriteReturns
  <2>2. CASE exception' = TRUE /\ UNCHANGED <<write_info, fresh>>
    BY <2>1, <2>2
  <2>3. CASE write_info' \in Hardware!Results /\ fresh' = Hardware!Left("write") /\ UNCHANGED exception
    <3>1. fresh' \in SUBSET {"run", "read", "write"}
          /\ ("run" \in fresh => fresh' = fresh \cup {"write"})
      BY <2>3 DEF Hardware!Left
    <3>2. QED
      BY <2>1, <2>3, <3>1
  <2>4. QED
    BY <1>9, <2>2, <2>3 DEF Hardware!WriteReturns
<1>10. CASE Hardware!Break
  BY <1>10 DEF Hardware!Break
<1>11. QED
  BY <1>1, <1>2, <1>3, <1>4, <1>5, <1>6, <1>7, <1>8, <1>9, <1>10
     DEF Hardware!Next, Hardware!Transition, Hardware!Loop, Hardware!Worker

-----------------------------------------------------------------------------
LEMMA InitIInv == MCInit => IInv
  BY DEF MCInit, Init, Hardware!Init, IInv, ControllerInv, HardwareInv, TypeOK, StoppedIsIdle,
         RunsAreFresh, FailuresAreFresh, Hardware!TypeOK, Hardware!OneCaller,
         HardwareRunsAreFresh, Hardware!FailuresAreFresh, Hardware!Free, Hardware!States,
         Hardware!Results

\* A step of the one leaves the other alone.
LEMMA NextIInv == IInv /\ [MCNext]_<<vars, hardware_vars, part>> => IInv'
<1> SUFFICES ASSUME IInv, [MCNext]_<<vars, hardware_vars, part>> PROVE IInv'
  OBVIOUS
<1>1. CASE part = "controller" /\ Next /\ UNCHANGED <<part, hardware_vars>>
  BY <1>1, ControllerNext DEF IInv
<1>2. CASE part = "hardware" /\ Hardware!Next /\ UNCHANGED <<part, controller_vars>>
  BY <1>2, HardwareNext DEF IInv
<1>3. CASE UNCHANGED <<vars, hardware_vars, part>>
  BY <1>3 DEF vars, hardware_vars, IInv, ControllerInv, HardwareInv, TypeOK, StoppedIsIdle,
              RunsAreFresh, FailuresAreFresh, Hardware!TypeOK, Hardware!OneCaller,
              HardwareRunsAreFresh, Hardware!FailuresAreFresh
<1>4. QED
  BY <1>1, <1>2, <1>3 DEF MCNext

LEMMA Invariant == MCSpec => []IInv
  BY InitIInv, NextIInv, PTL DEF MCSpec

-----------------------------------------------------------------------------
\* The variables of the controller, or of the component, stay in their types.
THEOREM TypesAreCorrect == MCSpec => []AsyncTypeOK
<1>1. IInv => AsyncTypeOK
  BY DEF IInv, ControllerInv, HardwareInv, AsyncTypeOK
<1>2. QED
  BY <1>1, Invariant, PTL

\* No update runs in an asynchronous controller that is unconfigured or finalized:
\* cleanup and the processing of errors join its thread first.
THEOREM StoppedControllerIsIdle == MCSpec => []ControllerIsIdle
<1>1. IInv => ControllerIsIdle
  BY DEF IInv, ControllerInv, ControllerIsIdle
<1>2. QED
  BY <1>1, Invariant, PTL

\* The driver of an asynchronous component, sensor or not, is called by one thread at a
\* time, although requests, the loop and the worker all call it.
THEOREM OneCallerOfTheDriver == MCSpec => []DriverHasOneCaller
<1>1. IInv => DriverHasOneCaller
  BY DEF IInv, HardwareInv, DriverHasOneCaller
<1>2. QED
  BY <1>1, Invariant, PTL

\* The result of a run of before the last activation never stops a controller or a
\* component: it is forgotten when the worker is paused for the activation.
THEOREM OldFailuresStopNothing == MCSpec => []StoppedByFreshFailures
<1>1. IInv => StoppedByFreshFailures
  BY DEF IInv, ControllerInv, HardwareInv, StoppedByFreshFailures
<1>2. QED
  BY <1>1, Invariant, PTL
=============================================================================
