------------------------ MODULE RTControllerListProofs ------------------------
(***************************************************************************)
(* Proofs about RTControllerList, for any set of controllers and for a     *)
(* control loop that may take controllers_lock_ or not, once the loop has  *)
(* taken the list for the first time (SpecRunning).                        *)
(***************************************************************************)
EXTENDS RTControllerList, TLAPS

(* Outside the wait of switch_updated_list the used index is the updated    *)
(* one, so the index the real-time thread may have read and not stored yet, *)
(* and the list it has a reference to, are the updated ones as well.        *)

UsedIsUpdated ==
    /\ used_by_rt \in Indices
    /\ svc_pc \in SvcPcs \ {"waiting", "dead"} => used_by_rt = updated

LoadedIsCurrent ==
    rt_pc = "loaded" =>
        \/ rt_loaded = updated
        \/ svc_pc \in {"waiting", "dead"} /\ rt_loaded = used_by_rt

HeldIsUsed ==
    /\ rt_held /= NoList => rt_held = used_by_rt
    /\ rt_pc \in {"sleep", "loaded"} => rt_held = NoList
    /\ rt_pc = "using" => rt_held /= NoList

IInv ==
    /\ TypeOK
    /\ UsedIsUpdated
    /\ LoadedIsCurrent
    /\ HeldIsUsed

-----------------------------------------------------------------------------
\* The two indices are each other's other list.
LEMMA OtherList ==
    ASSUME NEW i \in Indices
    PROVE  /\ get_other_list(i) \in Indices
           /\ get_other_list(i) /= i
           /\ get_other_list(get_other_list(i)) = i
  BY DEF get_other_list, Indices

\* The indices of the lists in every initial state of a running manager.
LEMMA InitIInv == InitRunning => IInv
  BY DEF InitRunning, IInv, TypeOK, UsedIsUpdated, LoadedIsCurrent, HeldIsUsed,
         Indices, NoList, SvcPcs, RtPcs

\* Every step of either thread preserves the invariant.
LEMMA NextIInv == IInv /\ [Next]_vars => IInv'
<1> SUFFICES ASSUME IInv, [Next]_vars
             PROVE  IInv'
  OBVIOUS
<1> USE DEF IInv, TypeOK, UsedIsUpdated, LoadedIsCurrent, HeldIsUsed, SvcPcs, RtPcs,
            svc_vars, rt_vars, NoList, Indices
<1>0. outdated \in {0, 1} /\ outdated /= updated
  BY OtherList DEF outdated
<1>1. CASE SvcLock
  BY <1>1 DEF SvcLock
<1>2. CASE SvcManageSwitch
  BY <1>2 DEF SvcManageSwitch
<1>3. CASE GetUnusedList
  BY <1>3 DEF GetUnusedList
<1>4. CASE CopyUpdatedList
  BY <1>0, <1>4 DEF CopyUpdatedList
<1>5. CASE ModifyCopy
  BY <1>0, <1>5 DEF ModifyCopy
<1>6. CASE AbandonCopy
  BY <1>0, <1>6 DEF AbandonCopy
<1>7. CASE SwitchUpdatedList
  BY <1>0, <1>7 DEF SwitchUpdatedList
<1>8. CASE RtOffFormerList
  BY <1>0, <1>8 DEF RtOffFormerList, rt_not_using
<1>9. CASE GetFormerList
  BY <1>9 DEF GetFormerList
<1>10. CASE ClearFormerList
  BY <1>0, <1>10 DEF ClearFormerList
<1>11. CASE WaitInterrupted
  BY <1>11 DEF WaitInterrupted
<1>12. CASE RtLoadIndex
  BY <1>12 DEF RtLoadIndex
<1>13. CASE RtStoreIndex
  BY <1>13 DEF RtStoreIndex
<1>14. CASE RtReturn
  BY <1>14 DEF RtReturn
<1>15. CASE RtWantLock
  BY <1>15 DEF RtWantLock
<1>16. CASE RtLock
  BY <1>16 DEF RtLock
<1>17. CASE RtUnlock
  BY <1>17 DEF RtUnlock
<1>18. CASE Shutdown
  <2>1. ok' \in BOOLEAN
    BY <1>18 DEF Shutdown
  <2>2. UNCHANGED <<controllers_lists, updated, svc_pc, used_by_rt, controllers_lock, rt_pc,
                    rt_loaded, rt_held>>
    BY <1>18 DEF Shutdown
  <2>3. QED
    BY <2>1, <2>2
<1>19. CASE UNCHANGED vars
  BY <1>19 DEF vars
<1>20. QED
  BY <1>1, <1>2, <1>3, <1>4, <1>5, <1>6, <1>7, <1>8, <1>9, <1>10, <1>11, <1>12, <1>13,
     <1>14, <1>15, <1>16, <1>17, <1>18, <1>19 DEF Next, SvcProgress, RtProgress

\* The invariant holds in every state of a running manager.
LEMMA Invariant == SpecRunning => []IInv
  BY InitIInv, NextIInv, PTL DEF SpecRunning

-----------------------------------------------------------------------------
\* The two lists, the two indices and the threads' places keep their types.
THEOREM TypeCorrect == SpecRunning => []TypeOK
  BY Invariant, PTL DEF IInv

\* update_and_get_used_by_rt_list and get_unused_list never give the same list to
\* the real-time thread and to a service that modifies it.
THEOREM ListSafelyModified == SpecRunning => []SafelyModified
<1>1. IInv => SafelyModified
  BY OtherList DEF IInv, TypeOK, UsedIsUpdated, HeldIsUsed, SafelyModified, outdated, SvcPcs,
                   NoList, Indices
<1>2. QED
  BY Invariant, <1>1, PTL

\* switch_updated_list returns only when the former list is out of the real-time
\* thread's reach.
THEOREM FormerListIsAbandoned == SpecRunning => []FormerListAbandoned
<1>1. IInv => FormerListAbandoned
  BY DEF IInv, UsedIsUpdated, LoadedIsCurrent, HeldIsUsed, FormerListAbandoned, SvcPcs
<1>2. QED
  BY Invariant, <1>1, PTL

-----------------------------------------------------------------------------
(* The refinement: the real-time thread takes a snapshot when it reads the  *)
(* updated index, and nothing it does afterwards, nor what the service      *)
(* threads do to the other list, changes that snapshot.                     *)

pubList == controllers_lists[updated]

rtView ==
    IF rt_pc = "loaded" THEN [list |-> controllers_lists[rt_loaded], taken |-> TRUE]
    ELSE IF rt_held = NoList THEN [list |-> {}, taken |-> FALSE]
    ELSE [list |-> controllers_lists[rt_held], taken |-> TRUE]

\* A write to the outdated list outside the wait leaves both views alone.
LEMMA OutdatedWrite ==
    ASSUME IInv, svc_pc \in {"editing", "copied", "clearing"},
           controllers_lists' = [controllers_lists EXCEPT ![outdated] = controllers_lists'[outdated]],
           UNCHANGED <<updated, rt_vars>>
    PROVE  pubList' = pubList /\ rtView' = rtView
<1>1. outdated \in Indices /\ outdated /= updated
  BY OtherList DEF IInv, TypeOK, outdated
<1>2. \A i \in Indices : i /= outdated => controllers_lists'[i] = controllers_lists[i]
  BY <1>1 DEF IInv, TypeOK
<1>3. rt_pc = "loaded" => rt_loaded \in Indices /\ rt_loaded /= outdated
  BY <1>1 DEF IInv, TypeOK, LoadedIsCurrent
<1>4. rt_held /= NoList => rt_held \in Indices /\ rt_held /= outdated
  BY <1>1 DEF IInv, TypeOK, UsedIsUpdated, HeldIsUsed, SvcPcs
<1>5. QED
  BY <1>1, <1>2, <1>3, <1>4 DEF IInv, TypeOK, pubList, rtView, rt_vars

\* Every step is a step of the snapshots, or changes none of them.
LEMMA StepSimulation ==
    IInv /\ IInv' /\ [Next]_vars =>
        \/ Snapshots!Publish \/ Snapshots!Take \/ Snapshots!Release
        \/ pubList' = pubList /\ rtView' = rtView
<1> SUFFICES ASSUME IInv, IInv', [Next]_vars
             PROVE  \/ Snapshots!Publish \/ Snapshots!Take \/ Snapshots!Release
                    \/ pubList' = pubList /\ rtView' = rtView
  OBVIOUS
<1>0. outdated \in Indices /\ outdated /= updated
  BY OtherList DEF IInv, TypeOK, outdated
<1>1. CASE CopyUpdatedList \/ ModifyCopy \/ AbandonCopy \/ ClearFormerList
  <2>1. svc_pc \in {"editing", "copied", "clearing"} /\ UNCHANGED <<updated, rt_vars>>
    BY <1>1 DEF CopyUpdatedList, ModifyCopy, AbandonCopy, ClearFormerList
  <2>2. controllers_lists' = [controllers_lists EXCEPT ![outdated] = controllers_lists'[outdated]]
    BY <1>0, <1>1 DEF CopyUpdatedList, ModifyCopy, AbandonCopy, ClearFormerList, IInv, TypeOK
  <2>3. QED
    BY <2>1, <2>2, OutdatedWrite
<1>2. CASE SwitchUpdatedList
  <2>1. pubList' \in SUBSET Controllers
    BY DEF IInv, TypeOK, pubList
  <2>2. rtView' = rtView
    BY <1>2 DEF SwitchUpdatedList, rtView, rt_vars
  <2>3. QED
    BY <2>1, <2>2 DEF Snapshots!Publish, Snapshots!Lists, pubList, rtView
<1>3. CASE RtLoadIndex
  <2>1. rtView' = [list |-> pubList, taken |-> TRUE] /\ pubList' = pubList
    BY <1>3 DEF RtLoadIndex, rtView, pubList, svc_vars, IInv, TypeOK
  <2>2. QED
    BY <2>1 DEF Snapshots!Take, Snapshots!ViewOf, pubList, rtView
<1>4. CASE RtStoreIndex
  BY <1>4 DEF RtStoreIndex, rtView, pubList, svc_vars, IInv, TypeOK, HeldIsUsed, NoList, Indices
<1>5. CASE RtReturn
  <2>1. rtView' = [list |-> {}, taken |-> FALSE] /\ pubList' = pubList
    BY <1>5 DEF RtReturn, rtView, pubList, svc_vars, IInv, TypeOK
  <2>2. QED
    BY <2>1 DEF Snapshots!Release, Snapshots!NoView, pubList, rtView
<1>6. CASE RtWantLock \/ RtLock \/ RtUnlock
  BY <1>6 DEF RtWantLock, RtLock, RtUnlock, rtView, pubList, svc_vars
<1>7. CASE \/ SvcLock \/ SvcManageSwitch \/ GetUnusedList \/ RtOffFormerList
           \/ GetFormerList \/ WaitInterrupted \/ Shutdown \/ UNCHANGED vars
  BY <1>7 DEF SvcLock, SvcManageSwitch, GetUnusedList, RtOffFormerList, GetFormerList,
              WaitInterrupted, Shutdown, vars, rtView, pubList, svc_vars, rt_vars
<1>8. QED
  BY <1>1, <1>2, <1>3, <1>4, <1>5, <1>6, <1>7 DEF Next, SvcProgress, RtProgress

\* The double buffer implements atomic snapshots of whole lists.
THEOREM DoubleBufferIsSnapshots == SpecRunning => ImplementsSnapshots
<1>1. InitRunning => Snapshots!Init
  BY DEF InitRunning, Snapshots!Init, Snapshots!Lists, Snapshots!NoView, NoList, Indices
<1>2. IInv /\ IInv' /\ [Next]_vars => [Snapshots!Next]_(Snapshots!vars)
  BY StepSimulation DEF Snapshots!Next, Snapshots!vars, pubList, rtView
<1>3. QED
  BY Invariant, <1>1, <1>2, PTL DEF SpecRunning, ImplementsSnapshots, Snapshots!Spec
=============================================================================
