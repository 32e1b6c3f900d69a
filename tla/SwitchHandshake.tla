---------------------------- MODULE SwitchHandshake ----------------------------
(***************************************************************************)
(* How switch_controller_cb hands a switch to the control loop: the flags  *)
(* of SwitchParams, its mutex and its condition variable.                  *)
(*                                                                         *)
(* With activate_asap the loop runs manage_switch and the service waits    *)
(* for do_switch to fall; without, the service waits for ready_to_switch   *)
(* and runs manage_switch itself while the loop goes on.  Either wait may  *)
(* time out.  The loop reads do_switch without the mutex and only tries to *)
(* lock it.                                                                *)
(***************************************************************************)
CONSTANT LongPreemption \* the loop may be preempted between its look at do_switch and the
                        \* end of manage_switch until the service returns and is called again

ASSUME HandshakeAssumption == LongPreemption \in BOOLEAN

VARIABLES
    service,            \* where the service is
    asked,              \* the arguments of its call
    lists,              \* the lists of the request: "empty", "partial" or "checked"
    do_switch,
    ready_to_switch,
    activate_asap,
    mutex,              \* the thread that holds switch_params_.mutex, or "none"
    controllers_lock,   \* whether the service holds controllers_lock_
    loop,               \* where the control loop is
    outcome,            \* what manage_switch has done with the call
    answer              \* how the call is answered

flags == <<do_switch, ready_to_switch, activate_asap>>
vars == <<service, asked, lists, do_switch, ready_to_switch, activate_asap, mutex,
          controllers_lock, loop, outcome, answer>>

\* The steps of manage_switch.
Switching == {"performing", "deactivating", "activating"}

ServicePcs == {"idle", "filling", "checking", "announcing", "starting", "locking", "sleeping",
               "spinning", "trying", "evaluating", "clearing", "emptying"} \cup Switching
LoopPcs == {"updating", "stopping", "publishing", "testing", "mode", "trying"} \cup Switching

\* What matters here of the arguments of a call.
Requests == [asap : BOOLEAN, timeout : {"zero", "finite"}]

\* The service has taken the mutex back in a wait that has timed out.
ClearsLocked == service \in {"clearing", "emptying"} /\ asked.asap /\ answer = "timeout"

\* The mutex is held where the code holds it.
HeldWhereLocked ==
    /\ mutex = "loop" <=> loop \in Switching
    /\ mutex = "service" <=> service \in Switching \/ ClearsLocked

\* The types of the flags and of the threads' places, and the holder of the mutex.
TypeOK ==
    /\ service \in ServicePcs
    /\ asked \in Requests
    /\ lists \in {"empty", "partial", "checked"}
    /\ do_switch \in BOOLEAN
    /\ ready_to_switch \in BOOLEAN
    /\ activate_asap \in BOOLEAN
    /\ mutex \in {"none", "service", "loop"}
    /\ controllers_lock \in BOOLEAN
    /\ loop \in LoopPcs
    /\ outcome \in {"none", "refused", "switched", "unchecked", "again"}
    /\ answer \in {"none", "rejected", "timeout", "evaluated"}
    /\ HeldWhereLocked

-----------------------------------------------------------------------------
(* The service.                                                             *)

\* A lock of switch_params_.mutex.
Lock(thread) == mutex = "none" /\ mutex' = thread

\* The loop is not on its way from a look at do_switch to the end of manage_switch.
LoopIsBack == loop \notin {"mode", "trying"} \cup Switching

\* switch_params_.reset(), at the beginning of a call.
Call(request) ==
    /\ service = "idle" /\ (LongPreemption \/ LoopIsBack)
    /\ service' = "filling"
    /\ asked' = request
    /\ do_switch' = FALSE /\ ready_to_switch' = FALSE /\ activate_asap' = FALSE
    /\ outcome' = "none" /\ answer' = "none"
    /\ UNCHANGED <<lists, mutex, controllers_lock, loop>>

\* list_controllers, and then the lock of the controllers.
FillLists ==
    /\ service = "filling"
    /\ service' = "checking"
    /\ lists' = "partial"
    /\ controllers_lock' = TRUE
    /\ UNCHANGED <<asked, flags, mutex, loop, outcome, answer>>

\* list_controllers does not find a name: the lists are emptied again.
RejectNames ==
    /\ service = "filling"
    /\ service' = "emptying"
    /\ lists' = "partial"
    /\ answer' = "rejected"
    /\ UNCHANGED <<asked, flags, mutex, controllers_lock, loop, outcome>>

\* The request passes the checks or does not.
CheckLists ==
    /\ service = "checking"
    /\ \/ /\ lists' = "checked" /\ service' = "announcing" /\ UNCHANGED answer
       \/ /\ answer' = "rejected" /\ service' = "clearing" /\ UNCHANGED lists
    /\ UNCHANGED <<asked, flags, mutex, controllers_lock, loop, outcome>>

AnnounceSwitch ==
    /\ service = "announcing"
    /\ service' = "starting"
    /\ activate_asap' = asked.asap
    /\ ready_to_switch' = FALSE
    /\ UNCHANGED <<asked, lists, do_switch, mutex, controllers_lock, loop, outcome, answer>>

\* Mutant: the flag of an earlier switch is left as it is.
ForgetToStart == UNCHANGED do_switch

RaiseFlag == do_switch' = TRUE

StartSwitch ==
    /\ service = "starting"
    /\ RaiseFlag
    /\ service' = IF activate_asap THEN "locking" ELSE "spinning"
    /\ UNCHANGED <<asked, lists, ready_to_switch, activate_asap, mutex, controllers_lock, loop,
                   outcome, answer>>

\* cv.wait_for looks at do_switch with the mutex, which it has only in between.
LookFirst ==
    /\ service = "locking" /\ mutex = "none"
    /\ service' = IF do_switch THEN "sleeping" ELSE "evaluating"
    /\ UNCHANGED <<asked, lists, flags, mutex, controllers_lock, loop, outcome, answer>>

WakeUp ==
    /\ service = "sleeping" /\ mutex = "none" /\ ~do_switch
    /\ service' = "evaluating"
    /\ UNCHANGED <<asked, lists, flags, mutex, controllers_lock, loop, outcome, answer>>

\* The mutex the service holds while it clears a request that has timed out.
KeepLocked == Lock("service")

\* Mutant: the wait is begun again.
SleepAgain ==
    /\ service = "sleeping" /\ do_switch
    /\ UNCHANGED vars

\* The wait ends with do_switch still up; the mutex is held again.
SleepTimesOut ==
    /\ service = "sleeping" /\ do_switch
    /\ KeepLocked
    /\ answer' = "timeout"
    /\ service' = "clearing"
    /\ UNCHANGED <<asked, lists, flags, controllers_lock, loop, outcome>>

\* Without activate_asap: the loop has said that it is there.
LoopIsReady ==
    /\ service = "spinning" /\ ready_to_switch
    /\ service' = "trying"
    /\ UNCHANGED <<asked, lists, flags, mutex, controllers_lock, loop, outcome, answer>>

SpinTimesOut ==
    /\ service = "spinning" /\ ~ready_to_switch
    /\ answer' = "timeout"
    /\ service' = "clearing"
    /\ UNCHANGED <<asked, lists, flags, mutex, controllers_lock, loop, outcome>>

\* evaluate_switch_result, and the new controllers list.
Evaluate ==
    /\ service = "evaluating"
    /\ answer' = "evaluated"
    /\ service' = "clearing"
    /\ UNCHANGED <<asked, lists, flags, mutex, controllers_lock, loop, outcome>>

Unlock == mutex' = IF mutex = "service" THEN "none" ELSE mutex

ReleaseControllers == controllers_lock' = FALSE

\* clear_requests: the flags first, then the lists; the locks go at the end of the call.
ClearFlags ==
    /\ service = "clearing"
    /\ do_switch' = FALSE /\ ready_to_switch' = FALSE /\ activate_asap' = FALSE
    /\ service' = "emptying"
    /\ UNCHANGED <<asked, lists, mutex, controllers_lock, loop, outcome, answer>>

ClearLists ==
    /\ service = "emptying"
    /\ lists' = "empty"
    /\ Unlock
    /\ ReleaseControllers
    /\ service' = "idle"
    /\ UNCHANGED <<asked, flags, loop, outcome, answer>>

-----------------------------------------------------------------------------
(* manage_switch, in the service (after = "evaluating") or in the loop.     *)

\* What a switch with the lists as they are now makes of the call.
Switched ==
    CASE lists = "empty" -> outcome
      [] lists = "partial" -> "unchecked"
      [] lists = "checked" /\ outcome = "none" -> "switched"
      [] OTHER -> "again"

\* One step of a thread from pc to next; leave is where it returns to.
ManageSwitch(thread, pc, next, leave) ==
    \/ /\ pc = "trying"
       /\ \/ Lock(thread) /\ next = "performing"
          \/ mutex /= "none" /\ UNCHANGED mutex /\ next = leave
       /\ UNCHANGED <<do_switch, outcome>>
    \/ /\ pc = "performing"     \* the hardware accepts the change of mode, or refuses it
       /\ \/ next = "deactivating" /\ UNCHANGED <<mutex, do_switch, outcome>>
          \/ /\ next = leave
             /\ mutex' = "none" /\ do_switch' = FALSE
             /\ outcome' = IF lists = "checked" /\ outcome = "none" THEN "refused" ELSE outcome
    \/ /\ pc = "deactivating"
       /\ next = "activating"
       /\ outcome' = Switched
       /\ UNCHANGED <<mutex, do_switch>>
    \/ /\ pc = "activating"
       /\ next = leave
       /\ mutex' = "none" /\ do_switch' = FALSE
       /\ UNCHANGED outcome

ServiceSwitch ==
    /\ ManageSwitch("service", service, service', "evaluating")
    /\ UNCHANGED <<asked, lists, ready_to_switch, activate_asap, controllers_lock, loop, answer>>

LoopSwitch ==
    /\ ManageSwitch("loop", loop, loop', "updating")
    /\ UNCHANGED <<service, asked, lists, ready_to_switch, activate_asap, controllers_lock, answer>>

-----------------------------------------------------------------------------
(* The control loop.                                                        *)

\* The controllers are updated; some may fail and are deactivated.
Update ==
    /\ loop = "updating"
    /\ loop' \in {"testing", "stopping"}
    /\ UNCHANGED <<service, asked, lists, flags, mutex, controllers_lock, outcome, answer>>

StopFailed ==
    /\ loop = "stopping"
    /\ loop' = "publishing"
    /\ UNCHANGED <<service, asked, lists, flags, mutex, controllers_lock, outcome, answer>>

\* publish_activity takes controllers_lock_, which the service may have.
PublishActivity ==
    /\ loop = "publishing" /\ ~controllers_lock
    /\ loop' = "testing"
    /\ UNCHANGED <<service, asked, lists, flags, mutex, controllers_lock, outcome, answer>>

\* The looks at the flags at the end of update().
TestSwitch ==
    /\ loop = "testing"
    /\ loop' = IF do_switch THEN "mode" ELSE "updating"
    /\ UNCHANGED <<service, asked, lists, flags, mutex, controllers_lock, outcome, answer>>

TestMode ==
    /\ loop = "mode"
    /\ \/ activate_asap /\ loop' = "trying" /\ UNCHANGED ready_to_switch
       \/ ~activate_asap /\ loop' = "updating" /\ ready_to_switch' = TRUE
    /\ UNCHANGED <<service, asked, lists, do_switch, activate_asap, mutex, controllers_lock,
                   outcome, answer>>

-----------------------------------------------------------------------------
Init ==
    /\ service = "idle"
    /\ asked = [asap |-> TRUE, timeout |-> "finite"]
    /\ lists = "empty"
    /\ do_switch = FALSE /\ ready_to_switch = FALSE /\ activate_asap = FALSE
    /\ mutex = "none"
    /\ controllers_lock = FALSE
    /\ loop = "updating"
    /\ outcome = "none"
    /\ answer = "none"

Serve ==
    \/ FillLists \/ RejectNames \/ CheckLists \/ AnnounceSwitch \/ StartSwitch
    \/ LookFirst \/ WakeUp \/ SleepTimesOut \/ LoopIsReady \/ SpinTimesOut
    \/ ServiceSwitch \/ Evaluate \/ ClearFlags \/ ClearLists

Cycle ==
    Update \/ StopFailed \/ PublishActivity \/ TestSwitch \/ TestMode \/ LoopSwitch

Next ==
    \/ \E request \in Requests : Call(request)
    \/ Serve \/ Cycle

Spec == Init /\ [][Next]_vars

\* The service thread and the loop are scheduled; a wait that is never answered ends.
FairSpec == Spec /\ WF_vars(Serve) /\ WF_vars(Cycle)

-----------------------------------------------------------------------------
(* Properties *)

\* manage_switch is never run by both threads at once.
OneSwitcher == ~(service \in Switching /\ loop \in Switching)

\* What manage_switch switches has passed the checks of the call, and it does so once.
OnlyCheckedIsPerformed == outcome \notin {"unchecked", "again"}

\* The hand-over of a call is atomic: it is answered after it was performed, or not
\* performed at all.
Promise == INSTANCE AtomicSwitch WITH
    open <- service \notin {"idle", "clearing", "emptying"},
    outcome <- outcome,
    answer <- answer
ImplementsAtomicSwitch == Promise!Spec

\* Every call returns, though the loop may be busy or refuse the switch.
CallReturns == (service /= "idle") ~> (service = "idle")

\* A loop that had to wait for a call goes on when there are no more calls.
LoopCycles == <>[](service = "idle") => []<>(loop = "updating")
=============================================================================
