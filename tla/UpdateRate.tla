------------------------------ MODULE UpdateRate ------------------------------
(***************************************************************************)
(* Which cycles of the controller manager update a controller, or read a   *)
(* hardware component, that has a lower rate than the manager: the rate a  *)
(* controller is given when it is configured, and the rule of              *)
(* ControllerManager::update and ResourceManager::read and write.          *)
(*                                                                         *)
(* Time is counted in ticks, Period of which are a cycle; a cycle may      *)
(* begin up to Jitter ticks early or late.                                 *)
(***************************************************************************)
EXTENDS Integers

CONSTANTS ManagerRates, MaxRate, Period, Jitter

ASSUME UpdateRateAssumption ==
    /\ ManagerRates \subseteq Nat \ {0} /\ MaxRate \in Nat
    /\ Period \in Nat \ {0} /\ Jitter \in Nat

VARIABLES manager,     \* update_rate_
          subject,     \* "controller" or "hardware"
          rate,        \* its rate, as it is used
          first,       \* it has not been updated since it was activated
          offset,      \* how late the latest cycle began
          since,       \* ticks from the last update to the latest cycle
          given        \* the period given to the last update; Unknown for a first one

rate_vars == <<manager, subject, rate, first, offset, since, given>>

Unknown == 0
Distance(a) == IF a < 0 THEN -a ELSE a

\* std::round of a quotient
Rounded(a, b) == (2 * a + b) \div (2 * b)

\* ControllerInterfaceBase::configure, where "now" is the rate the controller has.
Configured(managerRate, wanted, now) ==
    IF (now # 0 /\ wanted > now) \/ wanted = 0 THEN now
    ELSE IF managerRate % wanted = 0 THEN wanted
    ELSE managerRate \div Rounded(managerRate, wanted)

\* ResourceManager::load_and_initialize_components
rw_rate(managerRate, wanted) == IF wanted = 0 \/ wanted > managerRate THEN managerRate ELSE wanted

\* Mutant: the update waits until its time has come.
NotBefore(managerRate, r, elapsed) == elapsed * r >= managerRate * Period

\* error_now <= error_if_skipped, in units of which a second has managerRate * Period * r
Goes(managerRate, r, elapsed) ==
    Distance(elapsed * r - managerRate * Period)
        <= Distance((elapsed + Period) * r - managerRate * Period)

\* No rate in use is above the manager's: see RateIsPossible.
AtManagerRate == rate = manager

-----------------------------------------------------------------------------
RateInit ==
    /\ manager \in ManagerRates
    /\ subject \in {"controller", "hardware"}
    /\ \E wanted \in 0..MaxRate :
          rate = IF subject = "controller" THEN Configured(manager, wanted, manager)
                 ELSE rw_rate(manager, wanted)
    /\ first = TRUE /\ offset = 0 /\ since = 0 /\ given = Unknown

\* A cycle begins "late" ticks late.
RateCycle(late) ==
    LET elapsed == since + Period + late - offset
        goes == first \/ AtManagerRate \/ Goes(manager, rate, elapsed)
    IN  /\ first' = (first /\ ~goes)
        /\ since' = IF goes THEN 0 ELSE elapsed
        /\ given' = IF first THEN Unknown ELSE IF goes THEN elapsed ELSE given
        /\ offset' = late
        /\ UNCHANGED <<manager, subject, rate>>

\* last_update_cycle_time is 0 again, last_read_cycle_time_ uninitialized.
Reactivate ==
    /\ first' = TRUE /\ since' = 0 /\ given' = Unknown
    /\ UNCHANGED <<manager, subject, rate, offset>>

\* A controller is configured anew while it is inactive.
Reconfigure(wanted) ==
    /\ subject = "controller" /\ first
    /\ rate' = Configured(manager, wanted, rate)
    /\ UNCHANGED <<manager, subject, first, offset, since, given>>

RateNext ==
    \/ \E late \in -Jitter..Jitter : RateCycle(late)
    \/ Reactivate
    \/ \E wanted \in 0..MaxRate : Reconfigure(wanted)

-----------------------------------------------------------------------------
(* The rate of a controller, or of a component, is one it can have.        *)

RateIsPossible == rate \in 1..manager

(* The period an update is given is off the nominal one by no more than    *)
(* half a cycle, and what the cycles were late or early: no rounding error *)
(* adds up and no update is starved.                                       *)

GivenIsNominal ==
    given # Unknown =>
        2 * Distance(given * rate - manager * Period) <= (Period + 4 * Jitter) * rate
=============================================================================
