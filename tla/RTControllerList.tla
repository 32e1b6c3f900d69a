--------------------------- MODULE RTControllerList ---------------------------
(***************************************************************************)
(* ControllerManager::RTControllerListWrapper: two controller lists, one   *)
(* "updated", one "outdated", an index naming the updated one and an index *)
(* naming the one the real-time thread uses.  The two indices are plain    *)
(* integers: the real-time thread reads the first and writes the second in *)
(* two steps.  Threads of the non real-time side serialize on              *)
(* controllers_lock_, so one "service thread" stands for all of them.      *)
(*                                                                         *)
(* The real-time thread itself takes controllers_lock_ when it publishes   *)
(* the activity of controllers that failed and when a hardware component   *)
(* asks for its deactivation in write().                                   *)
(***************************************************************************)
EXTENDS Integers

CONSTANTS
    Controllers,        \* the controllers that can be loaded
    RTMayLock           \* whether a controller or hardware may fail in the loop

ASSUME RTMayLockAssumption == RTMayLock \in BOOLEAN

VARIABLES
    controllers_lists,  \* the two lists, each a set of controllers
    updated,            \* updated_controllers_index_
    used_by_rt,         \* used_by_realtime_controllers_index_
    controllers_lock,   \* the thread that owns controllers_lock_, or "none"
    svc_pc,             \* where the service thread is
    rt_pc,              \* where the real-time thread is
    rt_loaded,          \* the index it has read, not yet stored
    rt_held,            \* the list its reference names, or NoList
    ok                  \* rclcpp::ok()

svc_vars == <<controllers_lists, updated, svc_pc>>
rt_vars == <<rt_pc, rt_loaded, rt_held>>
vars == <<controllers_lists, updated, used_by_rt, controllers_lock, svc_pc,
          rt_pc, rt_loaded, rt_held, ok>>

NoList == -1
Indices == {0, 1}

SvcPcs == {"idle", "locked", "editing", "copied", "modified", "waiting",
           "switched", "clearing", "dead"}
RtPcs == {"sleep", "loaded", "using", "want_lock", "publishing"}

TypeOK ==
    /\ controllers_lists \in [Indices -> SUBSET Controllers]
    /\ updated \in Indices
    /\ used_by_rt \in Indices \cup {NoList}
    /\ controllers_lock \in {"none", "svc", "rt"}
    /\ svc_pc \in SvcPcs
    /\ rt_pc \in RtPcs
    /\ rt_loaded \in Indices
    /\ rt_held \in Indices \cup {NoList}
    /\ ok \in BOOLEAN

-----------------------------------------------------------------------------
(* The helpers of the wrapper. *)

get_other_list(index) == (index + 1) % 2

outdated == get_other_list(updated)

\* Mutant: the wait does not look at the list it was given.
NotUsingAny(index) == used_by_rt /= index + 2

\* The condition wait_until_rt_not_using leaves on.
rt_not_using(index) == used_by_rt /= index

-----------------------------------------------------------------------------
(* The service thread: add, configure, unload or switch controllers.       *)

\* std::lock_guard guard(controllers_lock_) of any of the operations.
SvcLock ==
    /\ svc_pc = "idle" /\ ok
    /\ controllers_lock = "none"
    /\ controllers_lock' = "svc"
    /\ svc_pc' = "locked"
    /\ UNCHANGED <<controllers_lists, updated, used_by_rt, rt_vars, ok>>

\* get_unused_list: returns once the real-time thread is off the outdated list.
GetUnusedList ==
    /\ svc_pc = "locked"
    /\ rt_not_using(outdated)
    /\ svc_pc' = "editing"
    /\ UNCHANGED <<controllers_lists, updated, used_by_rt, controllers_lock, rt_vars, ok>>

\* A switch executed by the service thread (manage_switch called for a request
\* without activate_asap) makes the updated list the used one by itself.
SvcManageSwitch ==
    /\ svc_pc = "locked"
    /\ used_by_rt' = updated
    /\ UNCHANGED <<svc_vars, controllers_lock, rt_vars, ok>>

\* to = from
CopyUpdatedList ==
    /\ svc_pc = "editing"
    /\ controllers_lists' = [controllers_lists EXCEPT ![outdated] = controllers_lists[updated]]
    /\ svc_pc' = "copied"
    /\ UNCHANGED <<updated, used_by_rt, controllers_lock, rt_vars, ok>>

\* Add a controller, erase one, reorder the list or change its entries.
ModifyCopy ==
    /\ svc_pc = "copied"
    /\ \E list \in SUBSET Controllers :
          controllers_lists' = [controllers_lists EXCEPT ![outdated] = list]
    /\ svc_pc' = "modified"
    /\ UNCHANGED <<updated, used_by_rt, controllers_lock, rt_vars, ok>>

\* The operation fails: to.clear(), or the copy is left as it is (unload_controller
\* when the cleanup of the controller fails).
AbandonCopy ==
    /\ svc_pc = "copied"
    /\ \/ controllers_lists' = [controllers_lists EXCEPT ![outdated] = {}]
       \/ UNCHANGED controllers_lists
    /\ svc_pc' = "idle"
    /\ controllers_lock' = "none"
    /\ UNCHANGED <<updated, used_by_rt, rt_vars, ok>>

\* switch_updated_list, up to its wait.
SwitchUpdatedList ==
    /\ svc_pc = "modified"
    /\ updated' = outdated
    /\ svc_pc' = "waiting"
    /\ UNCHANGED <<controllers_lists, used_by_rt, controllers_lock, rt_vars, ok>>

\* The wait of switch_updated_list ends.
RtOffFormerList ==
    /\ svc_pc = "waiting"
    /\ rt_not_using(outdated)
    /\ svc_pc' = "switched"
    /\ UNCHANGED <<controllers_lists, updated, used_by_rt, controllers_lock, rt_vars, ok>>

\* get_unused_list, called again to clear the former list.
GetFormerList ==
    /\ svc_pc = "switched"
    /\ rt_not_using(outdated)
    /\ svc_pc' = "clearing"
    /\ UNCHANGED <<controllers_lists, updated, used_by_rt, controllers_lock, rt_vars, ok>>

\* Mutant: the list that was just published is cleared.
ClearUpdatedList ==
    /\ svc_pc = "clearing"
    /\ controllers_lists' = [controllers_lists EXCEPT ![updated] = {}]
    /\ svc_pc' = "idle"
    /\ controllers_lock' = "none"
    /\ UNCHANGED <<updated, used_by_rt, rt_vars, ok>>

\* clear() and the end of the lock guard's scope.
ClearFormerList ==
    /\ svc_pc = "clearing"
    /\ controllers_lists' = [controllers_lists EXCEPT ![outdated] = {}]
    /\ svc_pc' = "idle"
    /\ controllers_lock' = "none"
    /\ UNCHANGED <<updated, used_by_rt, rt_vars, ok>>

\* wait_until_rt_not_using throws once rclcpp is shut down; the exception leaves
\* the service callback and ends the executor.
WaitInterrupted ==
    /\ svc_pc \in {"locked", "waiting", "switched"}
    /\ ~ok /\ ~rt_not_using(outdated)
    /\ svc_pc' = "dead"
    /\ controllers_lock' = "none"
    /\ UNCHANGED <<controllers_lists, updated, used_by_rt, rt_vars, ok>>

-----------------------------------------------------------------------------
(* The real-time thread: read, update and write take the list when they     *)
(* need it and drop it on return.                                           *)

\* update_and_get_used_by_rt_list, its read of the updated index.  manage_switch,
\* called at the end of update, drops the list update took.
RtLoadIndex ==
    /\ rt_pc \in {"sleep", "using"} /\ ok
    /\ rt_pc' = "loaded"
    /\ rt_loaded' = updated
    /\ rt_held' = NoList
    /\ UNCHANGED <<svc_vars, used_by_rt, controllers_lock, ok>>

\* Mutant: the index is not stored.
RtKeepIndex ==
    /\ rt_pc = "loaded"
    /\ rt_held' = rt_loaded
    /\ rt_pc' = "using"
    /\ UNCHANGED <<svc_vars, used_by_rt, controllers_lock, rt_loaded, ok>>

\* update_and_get_used_by_rt_list, its write of the used index.
RtStoreIndex ==
    /\ rt_pc = "loaded"
    /\ used_by_rt' = rt_loaded
    /\ rt_held' = rt_loaded
    /\ rt_pc' = "using"
    /\ UNCHANGED <<svc_vars, controllers_lock, rt_loaded, ok>>

\* read, update or write returns: the reference dies, the used index stays.
RtReturn ==
    /\ rt_pc = "using"
    /\ rt_held' = NoList
    /\ rt_pc' = "sleep"
    /\ UNCHANGED <<svc_vars, used_by_rt, controllers_lock, rt_loaded, ok>>

\* publish_activity after a failed update (the list of update is still in use), or
\* in write, where a component asked for its deactivation (no list is in use):
\* the real-time thread asks for controllers_lock_.
RtWantLock ==
    /\ RTMayLock
    /\ rt_pc \in {"sleep", "using"} /\ ok
    /\ rt_pc' = "want_lock"
    /\ UNCHANGED <<svc_vars, used_by_rt, controllers_lock, rt_loaded, rt_held, ok>>

RtLock ==
    /\ rt_pc = "want_lock"
    /\ controllers_lock = "none"
    /\ controllers_lock' = "rt"
    /\ rt_pc' = "publishing"
    /\ UNCHANGED <<svc_vars, used_by_rt, rt_loaded, rt_held, ok>>

RtUnlock ==
    /\ rt_pc = "publishing"
    /\ controllers_lock' = "none"
    /\ rt_pc' = IF rt_held = NoList THEN "sleep" ELSE "using"
    /\ UNCHANGED <<svc_vars, used_by_rt, rt_loaded, rt_held, ok>>

\* The process is asked to stop.
Shutdown ==
    /\ ok
    /\ ok' = FALSE
    /\ UNCHANGED <<svc_vars, used_by_rt, controllers_lock, rt_vars>>

-----------------------------------------------------------------------------
\* The manager starts with two empty lists and no list in use.
Init ==
    /\ controllers_lists = [i \in Indices |-> {}]
    /\ updated = 0
    /\ used_by_rt = NoList
    /\ controllers_lock = "none"
    /\ svc_pc = "idle"
    /\ rt_pc = "sleep"
    /\ rt_loaded = 0
    /\ rt_held = NoList
    /\ ok = TRUE

\* The same, once the control loop has taken the list for the first time.
InitRunning ==
    /\ controllers_lists \in [Indices -> SUBSET Controllers]
    /\ controllers_lists[1] = {}
    /\ updated = 0
    /\ used_by_rt = 0
    /\ controllers_lock = "none"
    /\ svc_pc = "idle"
    /\ rt_pc = "sleep"
    /\ rt_loaded = 0
    /\ rt_held = NoList
    /\ ok = TRUE

\* What the service thread does once it has started an operation.
SvcProgress ==
    \/ GetUnusedList \/ CopyUpdatedList \/ ModifyCopy \/ AbandonCopy
    \/ SwitchUpdatedList \/ RtOffFormerList \/ GetFormerList \/ ClearFormerList
    \/ WaitInterrupted

\* The steps of the control loop; it starts a cycle again and again.
RtProgress ==
    \/ RtLoadIndex \/ RtStoreIndex \/ RtReturn \/ RtLock \/ RtUnlock

Next ==
    \/ SvcLock \/ SvcManageSwitch \/ SvcProgress
    \/ RtProgress \/ RtWantLock
    \/ Shutdown

Spec == Init /\ [][Next]_vars
SpecRunning == InitRunning /\ [][Next]_vars

\* Both threads are scheduled; nobody is obliged to call a service or to stop the
\* process, and the loop is not obliged to fail.
Fairness == WF_vars(SvcProgress) /\ WF_vars(RtProgress)
FairSpecRunning == SpecRunning /\ Fairness

-----------------------------------------------------------------------------
(* Properties *)

\* While a service operation writes a list (get_unused_list up to
\* switch_updated_list, and the final clear), the real-time thread has no
\* reference to it: "This referenced list can be modified safely until
\* switch_updated_controller_list() is called".
SafelyModified ==
    svc_pc \in {"editing", "copied", "modified", "clearing"} => rt_held /= outdated

\* Once switch_updated_list has returned, the real-time thread works on the new
\* list or on none: the former list is dead for good, also for a thread that read
\* the index before the switch and has yet to use it.
FormerListAbandoned ==
    svc_pc \in {"switched", "clearing"} =>
        /\ rt_held \in {NoList, updated}
        /\ rt_pc = "loaded" => rt_loaded = updated

\* The real-time thread's view of the published lists.
Snapshots == INSTANCE ControllerSnapshots WITH
    published <- controllers_lists[updated],
    view <- IF rt_pc = "loaded" THEN [list |-> controllers_lists[rt_loaded], taken |-> TRUE]
            ELSE IF rt_held = NoList THEN [list |-> {}, taken |-> FALSE]
            ELSE [list |-> controllers_lists[rt_held], taken |-> TRUE]

\* The two buffers and the two indices implement whole-list snapshots.
ImplementsSnapshots == Snapshots!Spec

\* "Switches the "updated" and "outdated" lists, and waits until the RT thread is
\* using the new "updated" list": the wait of switch_updated_list ends.
SwitchReturns == svc_pc = "waiting" ~> svc_pc /= "waiting"

\* The wait of switch_updated_list ends, or the loop waits for the lock its caller holds.
SwitchReturnsOrMeets == svc_pc = "waiting" ~> svc_pc /= "waiting" \/ rt_pc = "want_lock"
=============================================================================
