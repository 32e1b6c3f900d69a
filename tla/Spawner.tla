-------------------------------- MODULE Spawner --------------------------------
(***************************************************************************)
(* The clients of the controller manager: spawners, which share a file     *)
(* lock and bring their controllers up by a sequence of service calls,     *)
(* unspawners, which take no lock, and the services they call, of which    *)
(* one runs at a time (services_lock_).                                    *)
(*                                                                         *)
(* A call may be lost on its way back, or be answered too late: then it    *)
(* is made again, up to MaxAttempts times, while the earlier ones may      *)
(* still be carried out.  A spawner may be interrupted at any point, and   *)
(* leaves what it has asked for behind.                                    *)
(***************************************************************************)
EXTENDS Integers, Sequences, FiniteSets

CONSTANTS
    Controllers,
    Clients,
    Programs,           \* the command lines: records, see ProgramType
    MaxAttempts,        \* max_attempts of service_caller
    MaxRetries          \* max_retries of the spawner for its lock

ASSUME BoundsAssumption == MaxAttempts \in Nat \ {0} /\ MaxRetries \in Nat \ {0}

VARIABLES
    cm,                 \* the state of each controller, or "none"
    lock,               \* the client that holds the file lock, or none
    program,            \* what each client was started with
    pc,                 \* the place of each client
    at,                 \* the controller its loop has reached
    seen,               \* loaded_state: what it knows of that controller
    attempt,            \* the attempts of its call, 0 before the first
    retries,            \* its attempts to take the lock
    answer,             \* the answer to its call, as a sequence of at most one
    unload_status,      \* no call to unload has failed
    requests,           \* the calls that wait for their service
    meddled             \* the clients whose calls have changed the controllers
                        \* of a client at work, for each client at work

vars == <<cm, lock, program, pc, at, seen, attempt, retries, answer, unload_status,
          requests, meddled>>
call_vars == <<attempt, answer, requests>>
work_vars == <<at, seen, unload_status>>

NoOne == "none"
States == {"none", "unconfigured", "inactive", "active"}
Exits == {"done", "failed", "crashed", "killed", "unloaded"}
Calling == {"list", "params", "load", "cleanup", "configure", "switch", "group",
            "kill_switch", "kill_unload"}
ProgramType ==
    [controllers : Seq(Controllers), load_only : BOOLEAN, inactive : BOOLEAN,
     reconfigure : BOOLEAN, as_group : BOOLEAN, unload_on_kill : BOOLEAN,
     params : BOOLEAN, unspawner : BOOLEAN]

\* A command line names a controller at least.
ASSUME ProgramAssumption ==
    /\ Programs \subseteq ProgramType
    /\ \A p \in Programs : p.controllers /= <<>>
    /\ NoOne \notin Clients

TypeOK ==
    /\ cm \in [Controllers -> States]
    /\ lock \in Clients \cup {NoOne}
    /\ program \in [Clients -> Programs]
    /\ pc \in [Clients -> {"start", "waiting"} \cup Calling \cup Exits]
    /\ at \in [Clients -> Nat]
    /\ seen \in [Clients -> States]
    /\ attempt \in [Clients -> 0 .. MaxAttempts]
    /\ retries \in [Clients -> 0 .. MaxRetries]
    /\ unload_status \in [Clients -> BOOLEAN]
    /\ meddled \in [Clients -> SUBSET Clients]

Init ==
    /\ cm = [c \in Controllers |-> "none"]
    /\ lock = NoOne
    /\ program \in [Clients -> Programs]
    /\ pc = [s \in Clients |-> "start"]
    /\ at = [s \in Clients |-> 1]
    /\ seen = [s \in Clients |-> "none"]
    /\ attempt = [s \in Clients |-> 0]
    /\ retries = [s \in Clients |-> 0]
    /\ answer = [s \in Clients |-> <<>>]
    /\ unload_status = [s \in Clients |-> TRUE]
    /\ requests = {}
    /\ meddled = [s \in Clients |-> {}]

ElementsOf(q) == {q[i] : i \in DOMAIN q}
Mine(s) == ElementsOf(program[s].controllers)
Current(s) == program[s].controllers[at[s]]
IsUnspawner(s) == program[s].unspawner
AtWork(s) == pc[s] \notin {"start", "waiting"} \cup Exits

\* controllers_to_deactivate: not those spawned with --inactive.
ToDeactivate(s) == IF program[s].inactive THEN {} ELSE Mine(s)

-----------------------------------------------------------------------------
(* The services of the controller manager: r is a request, the result is    *)
(* the set of [ok, cm] it may come to.                                      *)

Fails == [ok |-> FALSE, cm |-> cm]
Sets(cs, state) == [ok |-> TRUE, cm |-> [c \in Controllers |-> IF c \in cs THEN state ELSE cm[c]]]

\* Mutant: a strict switch activates those it can.
MovesSome(r, from, to) == {Sets({c \in r.on : cm[c] \in from}, to), Fails}

\* One controller is moved, which may fail, or is in a state to refuse it.
Moves(r, from, to) ==
    IF \A c \in r.on : cm[c] \in from THEN {Sets(r.on, to), Fails} ELSE {Fails}

list_controllers(r) == {[ok |-> TRUE, cm |-> cm]}
set_parameters(r) == {Fails, [ok |-> TRUE, cm |-> cm]}

load_controller(r) == Moves(r, {"none"}, "unconfigured")
configure_controller(r) == Moves(r, {"unconfigured"}, "inactive")

cleanup_controller(r) ==
    IF \A c \in r.on : cm[c] = "unconfigured" THEN {Sets(r.on, "unconfigured")}
    ELSE Moves(r, {"inactive"}, "unconfigured")

unload_controller(r) == Moves(r, {"unconfigured", "inactive"}, "none")

\* A strict switch moves all of its controllers or none.
activate(r) == Moves(r, {"inactive"}, "active")
deactivate(r) == Moves(r, {"active"}, "inactive")

Service(r) ==
    CASE r.op = "list" -> list_controllers(r)
      [] r.op = "params" -> set_parameters(r)
      [] r.op = "load" -> load_controller(r)
      [] r.op = "cleanup" -> cleanup_controller(r)
      [] r.op = "configure" -> configure_controller(r)
      [] r.op \in {"switch", "group"} -> activate(r)
      [] r.op = "kill_switch" -> deactivate(r)
      [] r.op = "kill_unload" -> unload_controller(r)

\* The controllers whose state two views of them do not share.
Changed(view) == {c \in Controllers : view[c] /= cm[c]}

\* The requests of one client for one service are served in their order; an
\* answer may be lost, and only that to the last attempt is waited for.
Serve(r) ==
    /\ r \in requests
    /\ \A q \in requests : q.from = r.from /\ q.op = r.op => q.n >= r.n
    /\ requests' = requests \ {r}
    /\ \E result \in Service(r) :
        /\ cm' = result.cm
        /\ \/ /\ r.live
              /\ answer' = [answer EXCEPT ![r.from] =
                              <<[ok |-> result.ok, cm |-> result.cm]>>]
           \/ UNCHANGED answer
        /\ meddled' = [s \in Clients |->
              IF AtWork(s) /\ Changed(result.cm) \cap Mine(s) /= {} /\ r.from /= s
              THEN meddled[s] \cup {r.from} ELSE meddled[s]]
    /\ UNCHANGED <<lock, program, pc, work_vars, attempt, retries>>

-----------------------------------------------------------------------------
(* A client: the lock, and the calls it makes.                              *)

Arrives(s, place) ==
    /\ pc' = [pc EXCEPT ![s] = place]
    /\ lock' = IF lock = s /\ place \in {"waiting"} \cup Exits THEN NoOne ELSE lock

\* Mutant: each controller manager has a lock of its own.
AcquireOwnLock(s) ==
    /\ pc[s] = "start"
    /\ lock' = s
    /\ pc' = [pc EXCEPT ![s] = IF IsUnspawner(s) THEN "kill_switch" ELSE "list"]
    /\ UNCHANGED <<cm, program, work_vars, call_vars, retries, meddled>>

\* A spawner takes the lock; an unspawner starts without.
AcquireLock(s) ==
    /\ pc[s] = "start"
    /\ IF IsUnspawner(s)
       THEN pc' = [pc EXCEPT ![s] = "kill_switch"] /\ UNCHANGED lock
       ELSE lock = NoOne /\ lock' = s /\ pc' = [pc EXCEPT ![s] = "list"]
    /\ UNCHANGED <<cm, program, work_vars, call_vars, retries, meddled>>

\* lock.acquire times out, and is tried again, but not for ever.
LockTimesOut(s) ==
    /\ pc[s] = "start"
    /\ ~IsUnspawner(s)
    /\ lock /= NoOne
    /\ retries' = [retries EXCEPT ![s] = @ + 1]
    /\ pc' = IF retries[s] + 1 = MaxRetries THEN [pc EXCEPT ![s] = "failed"] ELSE pc
    /\ UNCHANGED <<cm, lock, program, work_vars, call_vars, meddled>>

\* What a call is about.
Target(s) ==
    CASE pc[s] = "group" -> Mine(s)
      [] pc[s] = "kill_switch" -> ToDeactivate(s)
      [] OTHER -> {Current(s)}

\* The requests of s are no longer waited for.
Abandoned(s) == {IF r.from = s THEN [r EXCEPT !.live = FALSE] ELSE r : r \in requests}

\* Mutant: the attempts are not counted.
CallAgain(s) ==
    /\ pc[s] \in Calling
    /\ answer[s] = <<>>
    /\ attempt' = [attempt EXCEPT ![s] = 1]
    /\ requests' = Abandoned(s) \cup
        {[from |-> s, op |-> pc[s], on |-> Target(s), n |-> 1, live |-> TRUE]}
    /\ UNCHANGED <<cm, lock, program, pc, work_vars, retries, answer, meddled>>

\* service_caller: the first attempt, or another when the call has timed out.
Call(s) ==
    /\ pc[s] \in Calling
    /\ answer[s] = <<>>
    /\ attempt[s] < MaxAttempts
    /\ attempt' = [attempt EXCEPT ![s] = @ + 1]
    /\ requests' = Abandoned(s) \cup
        {[from |-> s, op |-> pc[s], on |-> Target(s), n |-> attempt[s] + 1, live |-> TRUE]}
    /\ UNCHANGED <<cm, lock, program, pc, work_vars, retries, answer, meddled>>

\* The last attempt has timed out: an exception ends the program.
GiveUp(s) ==
    /\ pc[s] \in Calling
    /\ answer[s] = <<>>
    /\ attempt[s] = MaxAttempts
    /\ requests' = Abandoned(s)
    /\ Arrives(s, "crashed")
    /\ UNCHANGED <<cm, program, work_vars, attempt, retries, answer, meddled>>

-----------------------------------------------------------------------------
(* The order of the calls: the place after each, for a client s.            *)

End(s) == IF program[s].unload_on_kill THEN "waiting" ELSE "done"

AfterLast(s) ==
    IF program[s].as_group /\ ~program[s].load_only /\ ~program[s].inactive
    THEN "group" ELSE End(s)

AfterController(s) ==
    IF at[s] < Len(program[s].controllers) THEN "list" ELSE AfterLast(s)

AfterConfigured(s) ==
    IF program[s].inactive \/ program[s].as_group THEN AfterController(s) ELSE "switch"

\* known is the state of the controller as the spawner knows it.
AfterCleaned(s, known) ==
    IF program[s].load_only THEN AfterController(s)
    ELSE IF known = "unconfigured" THEN "configure" ELSE AfterConfigured(s)

\* Mutant: what is loaded is taken to be configured.
AfterLoadedAssuming(s, known) ==
    IF program[s].reconfigure /\ known /= "unconfigured" THEN "cleanup"
    ELSE IF program[s].load_only THEN AfterController(s) ELSE AfterConfigured(s)

AfterLoaded(s, known) ==
    IF program[s].reconfigure /\ known /= "unconfigured" THEN "cleanup"
    ELSE AfterCleaned(s, known)

AfterListed(s, known) ==
    IF known /= "none" THEN AfterLoaded(s, known)
    ELSE IF program[s].params THEN "params" ELSE "load"

AfterUnloaded(s) ==
    IF at[s] < Len(program[s].controllers) THEN "kill_unload" ELSE "unloaded"

NextPlace(s, known) ==
    CASE pc[s] = "list" -> AfterListed(s, known)
      [] pc[s] = "params" -> "load"
      [] pc[s] = "load" -> AfterLoaded(s, known)
      [] pc[s] = "cleanup" -> AfterCleaned(s, known)
      [] pc[s] = "configure" -> AfterConfigured(s)
      [] pc[s] = "switch" -> AfterController(s)
      [] pc[s] = "group" -> End(s)
      [] pc[s] = "kill_switch" -> "kill_unload"
      [] pc[s] = "kill_unload" -> AfterUnloaded(s)

\* Mutant: what the spawner knows is not brought up to date after a load.
KnownBefore(s) ==
    CASE pc[s] = "list" -> answer[s][1].cm[Current(s)]
      [] pc[s] = "cleanup" -> "unconfigured"
      [] OTHER -> seen[s]

\* What the client knows of its controller when the call has succeeded.
Known(s) ==
    CASE pc[s] = "list" -> answer[s][1].cm[Current(s)]
      [] pc[s] \in {"load", "cleanup"} -> "unconfigured"
      [] OTHER -> seen[s]

\* The failures that do not end the program: a spawner goes on unloading, and
\* an unspawner ignores the answer to its switch.
Ignored(s) ==
    \/ pc[s] = "kill_unload" /\ ~IsUnspawner(s)
    \/ pc[s] = "kill_switch" /\ IsUnspawner(s)

Proceed(s) ==
    /\ pc[s] \in Calling
    /\ answer[s] /= <<>>
    /\ LET ok == answer[s][1].ok
           fine == ok \/ pc[s] = "kill_switch"
           next == NextPlace(s, Known(s))
           place == IF ~ok /\ ~Ignored(s) THEN "failed"
                    ELSE IF next = "unloaded" /\ ~(ok /\ unload_status[s]) THEN "failed"
                    ELSE next
       IN /\ Arrives(s, place)
          /\ at' = [at EXCEPT ![s] = IF place \in {"list", "kill_unload"} /\ pc[s] /= "kill_switch"
                                     THEN @ + 1 ELSE @]
          /\ seen' = [seen EXCEPT ![s] = Known(s)]
          /\ unload_status' = [unload_status EXCEPT ![s] = @ /\ fine]
    /\ answer' = [answer EXCEPT ![s] = <<>>]
    /\ attempt' = [attempt EXCEPT ![s] = 0]
    /\ UNCHANGED <<cm, program, retries, requests, meddled>>

\* SIGINT or SIGTERM: with --unload-on-kill the controllers are deactivated and
\* unloaded, further signals are ignored, and the lock is kept if it is held.
\* Before it has the lock, a spawner has no node to call the services with.
Interrupt(s) ==
    /\ pc[s] \notin Exits \cup {"kill_switch", "kill_unload"}
    /\ ~IsUnspawner(s)
    /\ Arrives(s, IF ~program[s].unload_on_kill THEN "killed"
                  ELSE IF pc[s] = "start" THEN "crashed"
                  ELSE IF ToDeactivate(s) = {} THEN "unloaded"
                  ELSE "kill_switch")
    /\ at' = [at EXCEPT ![s] = 1]
    /\ answer' = [answer EXCEPT ![s] = <<>>]
    /\ attempt' = [attempt EXCEPT ![s] = 0]
    /\ requests' = Abandoned(s)
    /\ UNCHANGED <<cm, program, seen, retries, unload_status, meddled>>

Client(s) == AcquireLock(s) \/ LockTimesOut(s) \/ Call(s) \/ GiveUp(s) \/ Proceed(s)

Next ==
    \/ \E r \in requests : Serve(r)
    \/ \E s \in Clients : Client(s) \/ Interrupt(s)

Spec == Init /\ [][Next]_vars

\* Clients go on; the lock is tried again and again; requests are served.
Fairness ==
    /\ WF_vars(\E r \in requests : Serve(r))
    /\ \A s \in Clients : WF_vars(Client(s))

-----------------------------------------------------------------------------
(* Properties.                                                              *)

\* Clients that may change the controllers of a spawner at work: those that take
\* no lock, or have ended, or are unloading, with calls left behind.
Outside(s) == IsUnspawner(s) \/ pc[s] \in Exits \cup {"kill_switch", "kill_unload"}

\* Among spawners the lock is enough: whoever changes the controllers of a
\* spawner that brings them up is an outsider, never another spawner at work.
OnlyOutsidersMeddle == \A s \in Clients : ~Outside(s) => \A f \in meddled[s] : Outside(f)

\* What a spawner has learned of a controller still holds when it makes the next
\* call for it, unless somebody has meddled.
SeenIsCurrent ==
    \A s \in Clients :
        pc[s] \in {"params", "load", "cleanup", "configure"} /\ attempt[s] = 0
            /\ meddled[s] = {}
        => cm[Current(s)] = seen[s]

\* The controllers of s are as its command line wants them, or further.
Reached(s) ==
    \A c \in Mine(s) :
        /\ cm[c] /= "none"
        /\ ~program[s].load_only => cm[c] \in {"inactive", "active"}
        /\ ~program[s].load_only /\ ~program[s].inactive => cm[c] = "active"

\* A spawner that reports success has brought up all of its controllers, and one
\* that reports to have unloaded them has, however often its calls were repeated,
\* unless somebody has meddled.
SuccessMeansDone ==
    [][\A s \in Clients :
        meddled[s] = {} =>
            /\ AtWork(s) /\ pc'[s] \in {"done", "waiting"} => Reached(s)
            /\ pc[s] = "kill_unload" /\ pc'[s] = "unloaded" =>
                    \A c \in ToDeactivate(s) : cm[c] = "none"]_vars

\* Every client ends, or waits to be interrupted, whatever is lost.
EveryClientEnds == \A s \in Clients : <>(pc[s] \in Exits \cup {"waiting"})
=============================================================================
