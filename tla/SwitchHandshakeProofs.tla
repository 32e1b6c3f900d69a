------------------------- MODULE SwitchHandshakeProofs -------------------------
(***************************************************************************)
(* Proofs about SwitchHandshake: the mutex, whatever the preemption of the *)
(* loop; and that the hand-over is atomic when the loop is done with its   *)
(* look at do_switch, and with manage_switch, before the next call.        *)
(***************************************************************************)
EXTENDS SwitchHandshake, TLAPS

(* activate_asap is the argument of the call from its announcement on: only *)
(* the calls that sleep find the mutex theirs when they time out.           *)

AsapIsAsked ==
    /\ service \in {"starting", "spinning", "locking", "sleeping"} => activate_asap = asked.asap
    /\ service = "spinning" => ~activate_asap
    /\ service \in {"locking", "sleeping"} => activate_asap

MutexInv == TypeOK /\ AsapIsAsked

(* The parts of the invariant of the hand-over. *)

\* A loop that has seen do_switch is there for the call that has raised it, which has
\* yet to be performed, is shut out by a service that has timed out, or comes too late.
LoopLooks ==
    /\ loop \in {"mode", "trying"} \cup Switching =>
           service \notin {"filling", "checking", "announcing", "starting"}
    /\ loop = "trying" \/ (loop = "mode" /\ activate_asap) =>
           \/ service \in {"locking", "sleeping"} /\ do_switch /\ outcome = "none"
           \/ service \in {"clearing", "emptying"} /\ mutex = "service"
           \/ service = "idle"

\* The loop switches for a service that waits, or finds nothing to switch.
LoopServes ==
    /\ loop \in Switching => service \in {"idle", "locking", "sleeping"}
    /\ service \in {"locking", "sleeping"} =>
           /\ loop \in {"performing", "deactivating"} => outcome = "none"
           /\ loop = "activating" => outcome = "switched"
    /\ service = "idle" => lists = "empty"

\* do_switch falls when the call is performed and not before.
FlagIsPending ==
    service \in {"locking", "sleeping"} =>
        /\ lists = "checked"
        /\ do_switch /\ loop \notin Switching => outcome = "none"
        /\ ~do_switch => outcome \in {"switched", "refused"} /\ loop \notin Switching

\* Nothing is pending before the request has been checked.
FlagIsDown ==
    /\ service \in {"idle", "filling", "checking", "announcing", "starting", "evaluating", "emptying"}
           => ~do_switch
    /\ service \in {"filling", "checking", "announcing", "starting"} => outcome = "none"
    /\ service \in {"announcing", "starting"} => lists = "checked"

\* A call without activate_asap is the service's own.
ServiceServes ==
    /\ service \in {"spinning", "trying", "performing", "deactivating"} =>
           ~activate_asap /\ lists = "checked" /\ outcome = "none"
    /\ service = "activating" => ~activate_asap /\ outcome = "switched"
    /\ service = "evaluating" => outcome \in {"switched", "refused"}

\* A request is cleared with the loop shut out.
LoopIsShutOut ==
    /\ outcome \in {"none", "switched", "refused"}
    /\ service = "clearing" /\ do_switch /\ activate_asap => mutex = "service"

IInv ==
    /\ TypeOK
    /\ AsapIsAsked
    /\ LoopLooks
    /\ LoopServes
    /\ FlagIsPending
    /\ FlagIsDown
    /\ ServiceServes
    /\ LoopIsShutOut

-----------------------------------------------------------------------------
(* The mutex. *)

\* A step of manage_switch, whichever thread makes it, takes the mutex from nobody.
LEMMA SwitchMutex ==
    ASSUME NEW thread \in {"service", "loop"}, NEW pc, NEW next, NEW leave,
           ManageSwitch(thread, pc, next, leave), TypeOK, leave \notin Switching,
           pc \in Switching <=> mutex = thread
    PROVE  /\ pc \in Switching \cup {"trying"}
           /\ next \in Switching \cup {leave}
           /\ next \in Switching <=> mutex' = thread
           /\ mutex' \in {mutex, thread, "none"}
           /\ mutex \notin {thread, "none"} => mutex' = mutex
           /\ do_switch' \in BOOLEAN
           /\ outcome' \in {"none", "refused", "switched", "unchecked", "again"}
  BY DEF ManageSwitch, Lock, Switched, Switching, TypeOK

\* No thread has the mutex at first.
LEMMA InitMutex == Init => MutexInv
<1> SUFFICES ASSUME Init
             PROVE  MutexInv
  OBVIOUS
<1> USE DEF Init, MutexInv, TypeOK, AsapIsAsked, ServicePcs, LoopPcs
<1>1. HeldWhereLocked
  BY DEF HeldWhereLocked, ClearsLocked, Switching
<1>2. asked \in Requests
  BY DEF Requests
<1>3. QED
  BY <1>1, <1>2

\* Every step keeps the mutex with the thread that has it.
LEMMA NextMutex == MutexInv /\ [Next]_vars => MutexInv'
<1> SUFFICES ASSUME MutexInv, [Next]_vars
             PROVE  MutexInv'
  OBVIOUS
<1> USE DEF MutexInv, TypeOK, AsapIsAsked, ServicePcs, LoopPcs, flags
<1>1. ASSUME NEW request \in Requests, Call(request)
      PROVE  MutexInv'
  <2>1. HeldWhereLocked'
    BY <1>1 DEF Call, HeldWhereLocked, ClearsLocked, Switching
  <2>2. QED
    BY <1>1, <2>1 DEF Call
<1>2. CASE FillLists \/ RejectNames
  <2>1. HeldWhereLocked'
    BY <1>2 DEF FillLists, RejectNames, HeldWhereLocked, ClearsLocked, Switching
  <2>2. /\ service' \in {"checking", "emptying"} /\ lists' = "partial"
        /\ answer' \in {answer, "rejected"}
        /\ controllers_lock' \in BOOLEAN
        /\ UNCHANGED <<asked, do_switch, ready_to_switch, activate_asap, mutex, loop, outcome>>
    BY <1>2 DEF FillLists, RejectNames
  <2>3. QED
    BY <2>1, <2>2
<1>3. CASE CheckLists
  <2>1. HeldWhereLocked'
    BY <1>3 DEF CheckLists, HeldWhereLocked, ClearsLocked, Switching
  <2>2. QED
    BY <1>3, <2>1 DEF CheckLists
<1>4. CASE AnnounceSwitch
  <2>1. HeldWhereLocked'
    BY <1>4 DEF AnnounceSwitch, HeldWhereLocked, ClearsLocked, Switching
  <2>2. activate_asap' \in BOOLEAN
    BY <1>4 DEF AnnounceSwitch, Requests
  <2>3. AsapIsAsked'
    BY <1>4 DEF AnnounceSwitch
  <2>4. /\ service' \in ServicePcs /\ ready_to_switch' \in BOOLEAN
        /\ UNCHANGED <<asked, lists, do_switch, mutex, controllers_lock, loop, outcome, answer>>
    BY <1>4 DEF AnnounceSwitch
  <2>5. QED
    BY <2>1, <2>2, <2>3, <2>4
<1>5. CASE StartSwitch
  <2>1. HeldWhereLocked'
    BY <1>5 DEF StartSwitch, RaiseFlag, HeldWhereLocked, ClearsLocked, Switching
  <2>2. QED
    BY <1>5, <2>1 DEF StartSwitch, RaiseFlag
<1>6. CASE LookFirst
  <2>1. HeldWhereLocked'
    BY <1>6 DEF LookFirst, HeldWhereLocked, ClearsLocked, Switching
  <2>2. /\ service' \in {"sleeping", "evaluating"}
        /\ service' = "sleeping" => service = "locking"
        /\ UNCHANGED <<asked, lists, do_switch, ready_to_switch, activate_asap, mutex,
                       controllers_lock, loop, outcome, answer>>
    BY <1>6 DEF LookFirst
  <2>3. QED
    BY <2>1, <2>2
<1>7. CASE WakeUp
  <2>1. HeldWhereLocked'
    BY <1>7 DEF WakeUp, HeldWhereLocked, ClearsLocked, Switching
  <2>2. QED
    BY <1>7, <2>1 DEF WakeUp
<1>8. CASE SleepTimesOut
  <2>1. HeldWhereLocked'
    BY <1>8 DEF SleepTimesOut, KeepLocked, Lock, HeldWhereLocked, ClearsLocked, Switching
  <2>2. QED
    BY <1>8, <2>1 DEF SleepTimesOut, KeepLocked, Lock
<1>9. CASE LoopIsReady
  <2>1. HeldWhereLocked'
    BY <1>9 DEF LoopIsReady, HeldWhereLocked, ClearsLocked, Switching
  <2>2. QED
    BY <1>9, <2>1 DEF LoopIsReady
<1>10. CASE SpinTimesOut
  <2>1. HeldWhereLocked'
    BY <1>10 DEF SpinTimesOut, HeldWhereLocked, ClearsLocked, Switching
  <2>2. QED
    BY <1>10, <2>1 DEF SpinTimesOut
<1>11. CASE ServiceSwitch
  <2>1. /\ service \in Switching \cup {"trying"}
        /\ service' \in Switching \cup {"evaluating"}
        /\ service' \in Switching <=> mutex' = "service"
        /\ mutex' \in {mutex, "service", "none"}
        /\ mutex = "loop" => mutex' = mutex
        /\ do_switch' \in BOOLEAN
        /\ outcome' \in {"none", "refused", "switched", "unchecked", "again"}
    <3>1. service \in Switching <=> mutex = "service"
      BY <1>11 DEF ServiceSwitch, ManageSwitch, HeldWhereLocked, ClearsLocked, Switching
    <3>2. QED
      BY <1>11, <3>1, SwitchMutex DEF ServiceSwitch, Switching
  <2>2. HeldWhereLocked'
    BY <1>11, <2>1 DEF ServiceSwitch, HeldWhereLocked, ClearsLocked, Switching
  <2>3. QED
    BY <1>11, <2>1, <2>2 DEF ServiceSwitch, Switching
<1>12. CASE Evaluate
  <2>1. HeldWhereLocked'
    BY <1>12 DEF Evaluate, HeldWhereLocked, ClearsLocked, Switching
  <2>2. QED
    BY <1>12, <2>1 DEF Evaluate
<1>13. CASE ClearFlags
  <2>1. HeldWhereLocked'
    BY <1>13 DEF ClearFlags, HeldWhereLocked, ClearsLocked, Switching
  <2>2. /\ service' = "emptying"
        /\ do_switch' \in BOOLEAN /\ ready_to_switch' \in BOOLEAN /\ activate_asap' \in BOOLEAN
        /\ UNCHANGED <<asked, lists, mutex, controllers_lock, loop, outcome, answer>>
    BY <1>13 DEF ClearFlags
  <2>3. QED
    BY <2>1, <2>2
<1>14. CASE ClearLists
  <2>1. HeldWhereLocked'
    BY <1>14 DEF ClearLists, Unlock, ReleaseControllers, HeldWhereLocked, ClearsLocked, Switching
  <2>2. QED
    BY <1>14, <2>1 DEF ClearLists, Unlock, ReleaseControllers
<1>15. CASE Update \/ StopFailed \/ PublishActivity \/ TestSwitch \/ TestMode
  <2>1. HeldWhereLocked'
    BY <1>15 DEF Update, StopFailed, PublishActivity, TestSwitch, TestMode, HeldWhereLocked,
              ClearsLocked, Switching
  <2>2. loop' \in LoopPcs /\ ready_to_switch' \in BOOLEAN
    BY <1>15 DEF Update, StopFailed, PublishActivity, TestSwitch, TestMode
  <2>3. UNCHANGED <<service, asked, lists, do_switch, activate_asap, mutex, controllers_lock,
                    outcome, answer>>
    BY <1>15 DEF Update, StopFailed, PublishActivity, TestSwitch, TestMode
  <2>4. QED
    BY <2>1, <2>2, <2>3
<1>16. CASE LoopSwitch
  <2>1. /\ loop \in Switching \cup {"trying"}
        /\ loop' \in Switching \cup {"updating"}
        /\ loop' \in Switching <=> mutex' = "loop"
        /\ mutex' \in {mutex, "loop", "none"}
        /\ mutex = "service" => mutex' = mutex
        /\ do_switch' \in BOOLEAN
        /\ outcome' \in {"none", "refused", "switched", "unchecked", "again"}
    BY <1>16, SwitchMutex DEF LoopSwitch, HeldWhereLocked, Switching
  <2>2. HeldWhereLocked'
    BY <1>16, <2>1 DEF LoopSwitch, HeldWhereLocked, ClearsLocked, Switching
  <2>3. QED
    BY <1>16, <2>1, <2>2 DEF LoopSwitch, Switching
<1>17. CASE UNCHANGED vars
  <2>1. HeldWhereLocked'
    BY <1>17 DEF vars, HeldWhereLocked, ClearsLocked, Switching
  <2>2. QED
    BY <1>17, <2>1 DEF vars
<1>18. QED
  BY <1>1, <1>2, <1>3, <1>4, <1>5, <1>6, <1>7, <1>8, <1>9, <1>10, <1>11, <1>12, <1>13, <1>14,
     <1>15, <1>16, <1>17 DEF Next, Serve, Cycle

\* switch_params_.mutex is held by a thread exactly where the code holds it.
THEOREM TypeCorrect == Spec => []TypeOK
<1>1. Init => MutexInv
  BY InitMutex
<1>2. MutexInv => TypeOK
  BY DEF MutexInv
<1>3. QED
  BY <1>1, <1>2, NextMutex, PTL DEF Spec

\* The service and the loop are never both in manage_switch.
THEOREM NoTwoSwitchers == Spec => []OneSwitcher
<1>1. TypeOK => OneSwitcher
  BY DEF TypeOK, HeldWhereLocked, OneSwitcher
<1>2. QED
  BY <1>1, TypeCorrect, PTL

-----------------------------------------------------------------------------
(* The hand-over. *)

\* Every step of a loop that is not preempted keeps what is pending and what is done apart.
LEMMA NextIInv == ~LongPreemption /\ IInv /\ [Next]_vars => IInv'
<1> SUFFICES ASSUME ~LongPreemption, IInv, [Next]_vars
             PROVE  IInv'
  OBVIOUS
<1>0. TypeOK' /\ AsapIsAsked'
  BY NextMutex DEF IInv, MutexInv
<1> USE DEF IInv, TypeOK, AsapIsAsked, LoopLooks, LoopServes, FlagIsPending, FlagIsDown, ServiceServes,
            LoopIsShutOut, flags, Switching, ServicePcs, LoopPcs
<1>1. ASSUME NEW request \in Requests, Call(request)
      PROVE  IInv'
  BY <1>0, <1>1 DEF Call, LoopIsBack
<1>2. CASE FillLists \/ RejectNames
  BY <1>0, <1>2 DEF FillLists, RejectNames
<1>3. CASE CheckLists
  BY <1>0, <1>3 DEF CheckLists
<1>4. CASE AnnounceSwitch
  BY <1>0, <1>4 DEF AnnounceSwitch
<1>5. CASE StartSwitch
  BY <1>0, <1>5 DEF StartSwitch, RaiseFlag
<1>6. CASE LookFirst
  BY <1>0, <1>6 DEF LookFirst
<1>7. CASE WakeUp
  BY <1>0, <1>7 DEF WakeUp
<1>8. CASE SleepTimesOut
  BY <1>0, <1>8 DEF SleepTimesOut, KeepLocked, Lock, HeldWhereLocked
<1>9. CASE LoopIsReady
  BY <1>0, <1>9 DEF LoopIsReady
<1>10. CASE SpinTimesOut
  BY <1>0, <1>10 DEF SpinTimesOut
<1>11. CASE ServiceSwitch
  <2>1. service = "trying" => mutex = "none"
    BY DEF HeldWhereLocked, ClearsLocked
  <2>2. QED
    BY <1>0, <1>11, <2>1 DEF ServiceSwitch, ManageSwitch, Switched, Lock
<1>12. CASE Evaluate
  BY <1>0, <1>12 DEF Evaluate
<1>13. CASE ClearFlags
  BY <1>0, <1>13 DEF ClearFlags
<1>14. CASE ClearLists
  BY <1>0, <1>14 DEF ClearLists, Unlock, ReleaseControllers
<1>15. CASE Update \/ StopFailed \/ PublishActivity \/ TestMode
  BY <1>0, <1>15 DEF Update, StopFailed, PublishActivity, TestMode
<1>16. CASE TestSwitch
  BY <1>0, <1>16 DEF TestSwitch
<1>17. CASE LoopSwitch
  BY <1>0, <1>17 DEF LoopSwitch, ManageSwitch, Switched, Lock
<1>18. CASE UNCHANGED vars
  BY <1>0, <1>18 DEF vars
<1>19. QED
  BY <1>1, <1>2, <1>3, <1>4, <1>5, <1>6, <1>7, <1>8, <1>9, <1>10, <1>11, <1>12, <1>13, <1>14,
     <1>15, <1>16, <1>17, <1>18 DEF Next, Serve, Cycle

\* The invariant holds in every state when the loop is not preempted.
LEMMA Invariant == ~LongPreemption /\ Spec => []IInv
<1>1. Init => IInv
  BY InitMutex DEF Init, MutexInv, IInv, LoopLooks, LoopServes, FlagIsPending, FlagIsDown, ServiceServes,
                   LoopIsShutOut, Switching
<1>2. CASE ~LongPreemption
  BY <1>1, <1>2, NextIInv, PTL DEF Spec
<1>3. QED
  BY <1>2

\* Every step opens, performs or closes a call, or changes nothing of what is promised.
LEMMA StepSimulation ==
    ~LongPreemption /\ IInv /\ IInv' /\ [Next]_vars => [Promise!Next]_(Promise!vars)
<1> SUFFICES ASSUME ~LongPreemption, IInv, IInv', [Next]_vars
             PROVE  [Promise!Next]_(Promise!vars)
  OBVIOUS
<1> USE DEF Promise!Next, Promise!vars, flags
<1>1. ASSUME NEW request \in Requests, Call(request)
      PROVE  Promise!Open
  BY <1>1 DEF Call, Promise!Open
<1>2. CASE RejectNames \/ CheckLists
  BY <1>2 DEF RejectNames, CheckLists, Promise!Close, IInv, FlagIsDown
<1>3. CASE SleepTimesOut
  BY <1>3 DEF SleepTimesOut, KeepLocked, Lock, Promise!Close, IInv, FlagIsPending, TypeOK,
              HeldWhereLocked
<1>4. CASE SpinTimesOut
  BY <1>4 DEF SpinTimesOut, Promise!Close, IInv, ServiceServes
<1>5. CASE Evaluate
  BY <1>5 DEF Evaluate, Promise!Close, IInv, ServiceServes
<1>6. CASE ServiceSwitch
  BY <1>6 DEF ServiceSwitch, ManageSwitch, Switched, Promise!Perform, IInv, ServiceServes
<1>7. CASE LoopSwitch
  BY <1>7 DEF LoopSwitch, ManageSwitch, Switched, Switching, Promise!Perform, IInv, LoopServes,
              FlagIsPending
<1>8. CASE \/ FillLists \/ AnnounceSwitch \/ StartSwitch \/ LookFirst \/ WakeUp \/ LoopIsReady
           \/ ClearFlags \/ ClearLists \/ Update \/ StopFailed \/ PublishActivity
           \/ TestSwitch \/ TestMode \/ UNCHANGED vars
  BY <1>8 DEF FillLists, AnnounceSwitch, StartSwitch, LookFirst, WakeUp, LoopIsReady, ClearFlags,
              ClearLists, Update, StopFailed, PublishActivity, TestSwitch, TestMode, vars
<1>9. QED
  BY <1>1, <1>2, <1>3, <1>4, <1>5, <1>6, <1>7, <1>8 DEF Next, Serve, Cycle

\* A call is performed at most once while it is open, and answered by what was done.
THEOREM HandOverIsAtomic == ~LongPreemption /\ Spec => ImplementsAtomicSwitch
<1>1. Init => Promise!Init
  BY DEF Init, Promise!Init
<1>2. CASE ~LongPreemption
  BY <1>1, <1>2, Invariant, StepSimulation, PTL DEF Spec, ImplementsAtomicSwitch, Promise!Spec
<1>3. QED
  BY <1>2
=============================================================================
