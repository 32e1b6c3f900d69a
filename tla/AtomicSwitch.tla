----------------------------- MODULE AtomicSwitch -----------------------------
(***************************************************************************)
(* What the hand-over of a switch between the service and the control loop *)
(* promises: a call is performed at most once, by whichever thread, while  *)
(* it is open; it is answered "evaluated" only after it was performed or   *)
(* refused by the hardware, and "timeout" or "rejected" only if nothing    *)
(* has been done.                                                          *)
(***************************************************************************)
VARIABLES
    open,               \* whether a call is being served
    outcome,            \* what has been done with the call
    answer              \* how the latest call was answered

vars == <<open, outcome, answer>>

Init ==
    /\ ~open
    /\ outcome = "none"
    /\ answer = "none"

Open ==
    /\ ~open
    /\ open' = TRUE
    /\ outcome' = "none"
    /\ answer' = "none"

Perform ==
    /\ open /\ outcome = "none"
    /\ outcome' \in {"switched", "refused"}
    /\ UNCHANGED <<open, answer>>

Close ==
    /\ open
    /\ open' = FALSE
    /\ answer' \in IF outcome = "none" THEN {"rejected", "timeout"} ELSE {"evaluated"}
    /\ UNCHANGED outcome

Next == Open \/ Perform \/ Close

Spec == Init /\ [][Next]_vars
=============================================================================
