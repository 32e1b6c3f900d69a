----------------------------- MODULE SpawnerProofs -----------------------------
(***************************************************************************)
(* Proofs about Spawner, for any controllers, clients and command lines,   *)
(* and any numbers of attempts.                                            *)
(***************************************************************************)
EXTENDS Spawner, TLAPS

\* The calls that bring controllers up, and those that take them down.
BringingUp == {"list", "params", "load", "cleanup", "configure", "switch", "group"}
TakingDown == {"kill_switch", "kill_unload"}

RequestType ==
    [from : Clients, op : Calling, on : SUBSET Controllers, n : Nat \ {0}, live : BOOLEAN]
AnswerType == [ok : BOOLEAN, cm : [Controllers -> States]]

Name(s, i) == program[s].controllers[i]

\* Types beyond TypeOK; no client is past the end of its list, or its retries, and
\* each starts, and takes down, from the head of its list.
Types ==
    /\ TypeOK
    /\ requests \subseteq RequestType
    /\ answer \in [Clients -> {<<>>} \cup {<<a>> : a \in AnswerType}]
    /\ \A s \in Clients : at[s] \in 1 .. Len(program[s].controllers)
    /\ \A s \in Clients : pc[s] = "start" => retries[s] < MaxRetries /\ answer[s] = <<>>
    /\ \A s \in Clients : pc[s] \in {"start", "kill_switch"} => at[s] = 1

\* A spawner that brings controllers up has the lock; an unspawner never does.
LockIsHeld ==
    \A s \in Clients :
        pc[s] \in BringingUp => ~IsUnspawner(s) /\ lock = s

\* The requests of a client that nobody has interrupted are attempts of its present
\* call, of which the last is waited for, and none is left when it is answered.
IsCurrent(r) ==
    /\ r.live \/ pc[r.from] \notin TakingDown \cup Exits =>
          /\ r.op = pc[r.from] /\ r.on = Target(r.from) /\ answer[r.from] = <<>>
          /\ r.n <= attempt[r.from]
    /\ pc[r.from] \notin TakingDown \cup Exits => (r.live <=> r.n = attempt[r.from])
    /\ r.live => r.n = attempt[r.from]
    /\ IsUnspawner(r.from) => r.op \in TakingDown

RequestsAreCurrent == \A r \in requests : IsCurrent(r)

\* What an answer says of the client's controllers still holds.
AnswerHolds(s) ==
    answer[s] /= <<>> =>
        /\ pc[s] \in BringingUp => \A c \in Mine(s) : answer[s][1].cm[c] = cm[c]
        /\ answer[s][1].ok =>
              /\ pc[s] \in {"load", "cleanup"} => cm[Current(s)] = "unconfigured"
              /\ pc[s] = "configure" => cm[Current(s)] = "inactive"
              /\ pc[s] = "switch" => cm[Current(s)] = "active"
              /\ pc[s] = "group" => \A c \in Mine(s) : cm[c] = "active"
              /\ pc[s] = "kill_unload" => cm[Current(s)] = "none"

\* What is known of the controller the client has reached.
CurrentIsKnown(s) ==
    /\ pc[s] \in {"params", "load", "cleanup", "configure"}
         /\ (attempt[s] = 0 \/ pc[s] = "params") => cm[Current(s)] = seen[s]
    /\ pc[s] \in {"params", "load"} => seen[s] = "none"
    /\ pc[s] = "load" => cm[Current(s)] \in {"none", "unconfigured"}
    /\ pc[s] = "switch" => cm[Current(s)] \in {"inactive", "active"}

\* Controller c is as client s wants it before the last switch.
Wanted(s, c) ==
    /\ cm[c] /= "none"
    /\ ~program[s].load_only => cm[c] \in {"inactive", "active"}
    /\ ~program[s].load_only /\ ~program[s].inactive /\ ~program[s].as_group => cm[c] = "active"

\* The controllers before the present one are as they are wanted, or unloaded.
FormerAreDone(s) ==
    /\ pc[s] \in BringingUp =>
          \A i \in 1 .. at[s] - 1 : Name(s, i) /= Current(s) => Wanted(s, Name(s, i))
    /\ pc[s] = "group" =>
          /\ \A c \in Mine(s) : Wanted(s, c)
          /\ ~program[s].load_only /\ ~program[s].inactive
    /\ pc[s] = "kill_unload" /\ unload_status[s] =>
          \A i \in 1 .. at[s] - 1 : cm[Name(s, i)] = "none"

\* A load that an interrupted spawner has left behind keeps its switch from succeeding:
\* a controller it has not seen loaded is not active.
LateLoads(s) ==
    \A r \in requests :
        r.from = s /\ r.op = "load" /\ pc[s] \in TakingDown =>
            /\ pc[s] = "kill_switch" /\ ~IsUnspawner(s) /\ ~program[s].inactive
            /\ r.on \subseteq Mine(s) /\ r.on /= {}
            /\ \A c \in r.on : cm[c] \in {"none", "unconfigured"}
            /\ \A q \in requests : q.from = s => q.op \in {"load", "kill_switch"}
            /\ answer[s] /= <<>> => ~answer[s][1].ok

\* What client s may rely on as long as nobody has meddled.
Relies(s) == AnswerHolds(s) /\ CurrentIsKnown(s) /\ FormerAreDone(s) /\ LateLoads(s)

Undisturbed == \A s \in Clients : meddled[s] = {} => Relies(s)

IInv ==
    /\ Types
    /\ LockIsHeld
    /\ RequestsAreCurrent
    /\ OnlyOutsidersMeddle
    /\ Undisturbed

-----------------------------------------------------------------------------
(* The services.                                                            *)

\* A service has moved all controllers of r from states of from to state to, or fails
\* and changes nothing.
Moved(r, result, from, to) ==
    \/ /\ result.ok
       /\ \A c \in r.on : cm[c] \in from /\ result.cm[c] = to
       /\ \A c \in Controllers \ r.on : result.cm[c] = cm[c]
    \/ ~result.ok /\ result.cm = cm

LEMMA SetsResult ==
    ASSUME Types, NEW on \in SUBSET Controllers, NEW to \in States
    PROVE  /\ Sets(on, to) \in AnswerType /\ Sets(on, to).ok
           /\ \A c \in on : Sets(on, to).cm[c] = to
           /\ \A c \in Controllers \ on : Sets(on, to).cm[c] = cm[c]
<1> DEFINE f == [c \in Controllers |-> IF c \in on THEN to ELSE cm[c]]
<1>1. f \in [Controllers -> States] /\ (\A c \in on : f[c] = to)
      /\ \A c \in Controllers \ on : f[c] = cm[c]
  BY DEF Types, TypeOK
<1> HIDE DEF f
<1>2. Sets(on, to) = [ok |-> TRUE, cm |-> f]
  BY DEF Sets, f
<1>3. QED
  BY <1>1, <1>2 DEF AnswerType

LEMMA MovesResult ==
    ASSUME Types, NEW r \in RequestType, NEW from, NEW to \in States,
           NEW result \in Moves(r, from, to)
    PROVE  result \in AnswerType /\ Moved(r, result, from, to)
<1>1. r.on \in SUBSET Controllers
  BY DEF RequestType
<1>2. CASE result = Sets(r.on, to) /\ \A c \in r.on : cm[c] \in from
  <2>1. /\ Sets(r.on, to) \in AnswerType /\ Sets(r.on, to).ok
        /\ \A c \in r.on : Sets(r.on, to).cm[c] = to
        /\ \A c \in Controllers \ r.on : Sets(r.on, to).cm[c] = cm[c]
    BY <1>1, SetsResult
  <2>2. QED
    BY <1>2, <2>1 DEF Moved
<1>3. CASE result = Fails
  BY <1>3 DEF Fails, Moved, AnswerType, Types, TypeOK
<1>4. QED
  BY <1>2, <1>3 DEF Moves

\* The states a service moves controllers from, and the state it moves them to.
From(op) ==
    CASE op = "load" -> {"none"}
      [] op = "configure" -> {"unconfigured"}
      [] op = "cleanup" -> {"inactive", "unconfigured"}
      [] op \in {"switch", "group"} -> {"inactive"}
      [] op = "kill_switch" -> {"active"}
      [] op = "kill_unload" -> {"unconfigured", "inactive"}

To(op) ==
    CASE op \in {"load", "cleanup"} -> "unconfigured"
      [] op \in {"configure", "kill_switch"} -> "inactive"
      [] op \in {"switch", "group"} -> "active"
      [] op = "kill_unload" -> "none"

\* What each service does.
LEMMA ServiceResult ==
    ASSUME Types, NEW r \in RequestType, NEW result \in Service(r)
    PROVE  /\ result \in AnswerType
           /\ r.op \in {"list", "params"} => result.cm = cm
           /\ r.op \notin {"list", "params"} => Moved(r, result, From(r.op), To(r.op))
<1>1. r.op \in Calling /\ r.on \in SUBSET Controllers
  BY DEF RequestType
<1>2. CASE r.op \in {"list", "params"}
  <2>1. [ok |-> TRUE, cm |-> cm] \in AnswerType /\ [ok |-> FALSE, cm |-> cm] \in AnswerType
    BY DEF AnswerType, Types, TypeOK
  <2>2. result \in { [ok |-> TRUE, cm |-> cm], [ok |-> FALSE, cm |-> cm] }
    BY <1>2 DEF Service, list_controllers, set_parameters, Fails
  <2>3. result \in AnswerType
    BY <2>1, <2>2
  <2>4. result.cm = cm
    BY <2>2
  <2>5. QED
    BY <1>2, <2>3, <2>4
<1>3. CASE r.op = "load"
  BY <1>3, MovesResult DEF Service, load_controller, From, To, States
<1>4. CASE r.op = "configure"
  BY <1>4, MovesResult DEF Service, configure_controller, From, To, States
<1>5. CASE r.op = "cleanup"
  <2>1. result \in cleanup_controller(r) /\ "unconfigured" \in States
        /\ From(r.op) = {"inactive", "unconfigured"} /\ To(r.op) = "unconfigured"
    BY <1>5 DEF Service, From, To, States
  <2>2. CASE \A c \in r.on : cm[c] = "unconfigured"
    <3>1. result = Sets(r.on, "unconfigured")
      BY <2>1, <2>2 DEF cleanup_controller
    <3>2. /\ Sets(r.on, "unconfigured") \in AnswerType /\ Sets(r.on, "unconfigured").ok
          /\ \A c \in r.on : Sets(r.on, "unconfigured").cm[c] = "unconfigured"
          /\ \A c \in Controllers \ r.on : Sets(r.on, "unconfigured").cm[c] = cm[c]
      BY <1>1, <2>1, SetsResult
    <3>3. QED
      BY <1>5, <2>1, <2>2, <3>1, <3>2 DEF Moved
  <2>3. CASE ~ \A c \in r.on : cm[c] = "unconfigured"
    <3>1. result \in Moves(r, {"inactive"}, "unconfigured")
      BY <2>1, <2>3 DEF cleanup_controller
    <3>2. result \in AnswerType /\ Moved(r, result, {"inactive"}, "unconfigured")
      BY <2>1, <3>1, MovesResult
    <3>3. QED
      BY <1>5, <2>1, <3>2 DEF Moved
  <2>4. QED
    BY <2>2, <2>3
<1>6. CASE r.op \in {"switch", "group"}
  BY <1>6, MovesResult DEF Service, activate, From, To, States
<1>7. CASE r.op = "kill_switch"
  BY <1>7, MovesResult DEF Service, deactivate, From, To, States
<1>8. CASE r.op = "kill_unload"
  BY <1>8, MovesResult DEF Service, unload_controller, From, To, States
<1>9. QED
  BY <1>1, <1>2, <1>3, <1>4, <1>5, <1>6, <1>7, <1>8 DEF Calling

-----------------------------------------------------------------------------
(* Lists of controllers and requests.                                       *)

\* The controllers a client is about are controllers of its list.
LEMMA NamesAreMine ==
    ASSUME Types, NEW s \in Clients
    PROVE  /\ Mine(s) \in SUBSET Controllers
           /\ Current(s) \in Mine(s)
           /\ \A i \in 1 .. Len(program[s].controllers) : Name(s, i) \in Mine(s)
           /\ \A c \in Mine(s) : \E i \in 1 .. Len(program[s].controllers) : c = Name(s, i)
           /\ Target(s) \in SUBSET Mine(s) /\ ToDeactivate(s) \in SUBSET Mine(s)
           /\ Len(program[s].controllers) \in Nat \ {0}
<1>1. program[s].controllers \in Seq(Controllers) /\ program[s].controllers /= <<>>
  BY ProgramAssumption DEF Types, TypeOK, ProgramType
<1>2. at[s] \in 1 .. Len(program[s].controllers)
  BY DEF Types
<1>3. DOMAIN program[s].controllers = 1 .. Len(program[s].controllers)
  BY <1>1
<1>4. Mine(s) = { program[s].controllers[i] : i \in 1 .. Len(program[s].controllers) }
  BY <1>3 DEF Mine, ElementsOf
<1>5. \A i \in 1 .. Len(program[s].controllers) : program[s].controllers[i] \in Controllers
  BY <1>1
<1>6. Len(program[s].controllers) \in Nat \ {0}
  BY <1>1
<1>7. QED
  BY <1>2, <1>4, <1>5, <1>6 DEF Current, Name, Target, ToDeactivate

\* The requests that are left when those of client s are no longer waited for.
LEMMA AbandonedRequests ==
    ASSUME Types, NEW s \in Clients, NEW q \in Abandoned(s)
    PROVE  /\ q \in RequestType
           /\ q.from /= s => q \in requests
           /\ q.from = s => /\ ~q.live
                            /\ \E r \in requests : r.from = s /\ r.op = q.op /\ r.on = q.on /\ r.n = q.n
<1>1. PICK r \in requests : q = IF r.from = s THEN [r EXCEPT !.live = FALSE] ELSE r
  BY DEF Abandoned
<1>2. r \in RequestType
  BY DEF Types
<1>3. CASE r.from = s
  <2>1. q = [from |-> r.from, op |-> r.op, on |-> r.on, n |-> r.n, live |-> FALSE]
    BY <1>1, <1>2, <1>3 DEF RequestType
  <2>2. QED
    BY <1>2, <1>3, <2>1 DEF RequestType
<1>4. CASE r.from /= s
  BY <1>1, <1>2, <1>4
<1>5. QED
  BY <1>3, <1>4

-----------------------------------------------------------------------------
(* Clients that a step leaves alone.                                        *)

Rests(s) ==
    /\ pc'[s] = pc[s] /\ at'[s] = at[s] /\ seen'[s] = seen[s] /\ attempt'[s] = attempt[s]
    /\ answer'[s] = answer[s] /\ (unload_status'[s] <=> unload_status[s])
    /\ program' = program

\* Its controllers are the same.
LEMMA RestingNames ==
    ASSUME NEW s \in Clients, Rests(s)
    PROVE  /\ Mine(s)' = Mine(s) /\ Current(s)' = Current(s) /\ Target(s)' = Target(s)
           /\ ToDeactivate(s)' = ToDeactivate(s) /\ \A i : Name(s, i)' = Name(s, i)
<1>1. Mine(s)' = Mine(s) /\ Current(s)' = Current(s) /\ \A i : Name(s, i)' = Name(s, i)
  BY DEF Rests, Mine, ElementsOf, Current, Name
<1>2. ToDeactivate(s)' = ToDeactivate(s)
  BY <1>1 DEF Rests, ToDeactivate
<1>3. QED
  BY <1>1, <1>2 DEF Rests, Target

\* Its requests stay as current as they were.
LEMMA RestingRequests ==
    ASSUME NEW r \in RequestType, IsCurrent(r), Rests(r.from)
    PROVE  IsCurrent(r)'
<1>1. r.from \in Clients
  BY DEF RequestType
<1>2. Target(r.from)' = Target(r.from)
  BY <1>1, RestingNames
<1>3. QED
  BY <1>2 DEF IsCurrent, Rests, IsUnspawner

\* It may rely on the same as before, if its controllers are left alone.
LEMMA RestingRelies ==
    ASSUME Types, NEW s \in Clients, Rests(s), Relies(s),
           \A c \in Mine(s) : cm'[c] = cm[c],
           \A q \in requests' : q.from = s => q \in requests
    PROVE  Relies(s)'
<1>1. /\ Mine(s)' = Mine(s) /\ Current(s)' = Current(s) /\ \A i : Name(s, i)' = Name(s, i)
      /\ at'[s] = at[s] /\ pc'[s] = pc[s] /\ program' = program /\ seen'[s] = seen[s]
      /\ attempt'[s] = attempt[s] /\ answer'[s] = answer[s]
      /\ unload_status'[s] <=> unload_status[s]
  BY RestingNames DEF Rests
<1>2. /\ Current(s) \in Mine(s) /\ at[s] \in 1 .. Len(program[s].controllers)
      /\ \A i \in 1 .. Len(program[s].controllers) : Name(s, i) \in Mine(s)
      /\ Len(program[s].controllers) \in Nat
  BY NamesAreMine DEF Types
<1>3. \A i \in 1 .. at[s] - 1 : Name(s, i) \in Mine(s)
  BY <1>2
<1>4. AnswerHolds(s)'
  BY <1>1, <1>2 DEF Relies, AnswerHolds
<1>5. CurrentIsKnown(s)'
  BY <1>1, <1>2 DEF Relies, CurrentIsKnown
<1>6. \A c \in Mine(s) : Wanted(s, c)' <=> Wanted(s, c)
  BY <1>1 DEF Wanted
<1>7. FormerAreDone(s)'
  BY <1>1, <1>3, <1>6 DEF Relies, FormerAreDone
<1>8. LateLoads(s)'
  BY <1>1 DEF Relies, LateLoads, IsUnspawner
<1>9. QED
  BY <1>4, <1>5, <1>7, <1>8 DEF Relies

-----------------------------------------------------------------------------
(* A service is carried out.                                                *)

\* What a service does to the client that has asked for it, and to the others.
Serves(r, result) ==
    /\ cm' = result.cm
    /\ \/ /\ r.live
          /\ answer' = [answer EXCEPT ![r.from] = <<[ok |-> result.ok, cm |-> result.cm]>>]
       \/ answer' = answer
    /\ meddled' = [s \in Clients |->
          IF AtWork(s) /\ Changed(result.cm) \cap Mine(s) /= {} /\ r.from /= s
          THEN meddled[s] \cup {r.from} ELSE meddled[s]]
    /\ requests' = requests \ {r}
    /\ lock' = lock /\ program' = program /\ pc' = pc /\ at' = at /\ seen' = seen
    /\ unload_status' = unload_status /\ attempt' = attempt /\ retries' = retries

LEMMA ServeIsServes ==
    ASSUME NEW r \in requests, Serve(r)
    PROVE  \E result \in Service(r) : Serves(r, result)
BY DEF Serve, Serves, work_vars

\* A live request is for the present call of its client.
LEMMA LiveRequest ==
    ASSUME Types, RequestsAreCurrent, NEW r \in requests, r.live
    PROVE  /\ r.from \in Clients /\ pc[r.from] \in Calling
           /\ r.op = pc[r.from] /\ r.on = Target(r.from) /\ answer[r.from] = <<>>
           /\ r.n = attempt[r.from]
BY DEF Types, RequestType, RequestsAreCurrent, IsCurrent

LEMMA ServeTypes ==
    ASSUME Types, RequestsAreCurrent, NEW r \in requests, NEW result \in Service(r),
           Serves(r, result)
    PROVE  Types'
<1>1. r \in RequestType /\ r.from \in Clients
  BY DEF Types, RequestType
<1>2. result \in AnswerType
  BY <1>1, ServiceResult
<1>3. [ok |-> result.ok, cm |-> result.cm] \in AnswerType /\ cm' \in [Controllers -> States]
  BY <1>2 DEF AnswerType, Serves
<1>4. answer' \in [Clients -> {<<>>} \cup {<<a>> : a \in AnswerType}]
  BY <1>3 DEF Types, Serves
<1>5. \A s \in Clients : pc[s] = "start" => answer'[s] = <<>>
  BY <1>1, LiveRequest DEF Types, Serves, Calling
<1>6. meddled' \in [Clients -> SUBSET Clients]
  BY <1>1 DEF Types, TypeOK, Serves
<1>7. /\ requests' \subseteq requests /\ lock' = lock /\ program' = program /\ pc' = pc
      /\ at' = at /\ seen' = seen /\ unload_status' = unload_status
      /\ attempt' = attempt /\ retries' = retries
  BY DEF Serves
<1>8. TypeOK'
  BY <1>3, <1>6, <1>7 DEF Types, TypeOK
<1>9. QED
  BY <1>4, <1>5, <1>7, <1>8 DEF Types

\* The requests that are left are as current as they were.
LEMMA ServeRequests ==
    ASSUME Types, RequestsAreCurrent, NEW r \in requests, NEW result \in Service(r),
           \A q \in requests : q.from = r.from /\ q.op = r.op => q.n >= r.n,
           Serves(r, result)
    PROVE  RequestsAreCurrent'
<1> SUFFICES ASSUME NEW q \in requests, q /= r
             PROVE  IsCurrent(q)'
  BY DEF RequestsAreCurrent, Serves
<1>1. q \in RequestType /\ r \in RequestType
  BY DEF Types
<1>2. IsCurrent(q) /\ IsCurrent(r)
  BY DEF RequestsAreCurrent
<1>3. CASE answer'[q.from] = answer[q.from]
  <2>1. Rests(q.from)
    BY <1>3 DEF Rests, Serves
  <2>2. QED
    BY <1>1, <1>2, <2>1, RestingRequests
<1>4. CASE answer'[q.from] /= answer[q.from]
  <2>1. r.live /\ r.from = q.from
    BY <1>1, <1>4 DEF Serves, Types, RequestType
  <2>2. /\ r.op = pc[r.from] /\ r.on = Target(r.from) /\ r.n = attempt[r.from]
    BY <2>1, LiveRequest
  <2>3. ~q.live
    <3>1. SUFFICES ASSUME q.live PROVE FALSE
      OBVIOUS
    <3>2. q.op = r.op /\ q.on = r.on /\ q.n = r.n
      BY <2>1, <2>2, <3>1, LiveRequest
    <3>3. QED
      BY <1>1, <2>1, <3>1, <3>2 DEF RequestType
  <2>4. pc[q.from] \in TakingDown \cup Exits
    <3>1. SUFFICES ASSUME pc[q.from] \notin TakingDown \cup Exits PROVE FALSE
      OBVIOUS
    <3>2. q.op = r.op /\ q.n <= r.n /\ q.n /= r.n
      BY <1>2, <2>1, <2>2, <2>3, <3>1 DEF IsCurrent
    <3>3. q.n >= r.n /\ q.n \in Nat /\ r.n \in Nat
      BY <1>1, <2>1, <3>2 DEF RequestType
    <3>4. QED
      BY <3>2, <3>3
  <2>5. QED
    BY <1>2, <2>3, <2>4 DEF IsCurrent, Serves, IsUnspawner
<1>5. QED
  BY <1>3, <1>4

\* No spawner at work changes the controllers of another one.
LEMMA ServeMeddles ==
    ASSUME Types, LockIsHeld, RequestsAreCurrent, OnlyOutsidersMeddle,
           NEW r \in requests, NEW result \in Service(r), Serves(r, result)
    PROVE  OnlyOutsidersMeddle'
<1> SUFFICES ASSUME NEW s \in Clients, ~Outside(s), NEW f \in meddled'[s]
             PROVE  Outside(f)
  BY DEF OnlyOutsidersMeddle, Outside, IsUnspawner, Serves
<1>1. r \in RequestType /\ r.from \in Clients
  BY DEF Types, RequestType
<1>2. CASE f \in meddled[s]
  BY <1>2 DEF OnlyOutsidersMeddle
<1>3. CASE f = r.from /\ AtWork(s) /\ r.from /= s
  <2>1. SUFFICES ASSUME ~Outside(f) PROVE FALSE
    OBVIOUS
  <2>2. pc[s] \in BringingUp
    BY <1>3 DEF AtWork, Outside, Types, TypeOK, Calling, BringingUp, Exits
  <2>3. r.op = pc[f]
    BY <1>3, <2>1 DEF RequestsAreCurrent, IsCurrent, Outside, TakingDown
  <2>4. pc[f] \in BringingUp
    BY <1>1, <2>1, <2>3 DEF RequestType, Calling, BringingUp, Outside
  <2>5. QED
    BY <1>1, <1>3, <2>2, <2>4 DEF LockIsHeld
<1>4. QED
  BY <1>2, <1>3 DEF Serves

\* A client that brings controllers up, and has one of its calls carried out, may rely
\* on as much as before.
LEMMA ServeBringingUp ==
    ASSUME Types, RequestsAreCurrent, NEW r \in requests, NEW result \in Service(r),
           Serves(r, result), pc[r.from] \in BringingUp, Relies(r.from)
    PROVE  Relies(r.from)'
<1> DEFINE s == r.from
<1>1. r \in RequestType /\ s \in Clients /\ pc[s] \in BringingUp
  BY DEF Types, RequestType
<1>2. /\ r.op = pc[s] /\ r.on = Target(s) /\ answer[s] = <<>> /\ r.n <= attempt[s]
  BY <1>1 DEF RequestsAreCurrent, IsCurrent, BringingUp, TakingDown, Exits
<1>3. attempt[s] /= 0
  BY <1>1, <1>2 DEF RequestType, Types, TypeOK
<1>4. /\ result \in AnswerType
      /\ r.op \in {"list", "params"} => result.cm = cm
      /\ r.op \notin {"list", "params"} => Moved(r, result, From(r.op), To(r.op))
  BY <1>1, ServiceResult
<1>5. /\ Mine(s) \in SUBSET Controllers /\ Current(s) \in Mine(s)
      /\ \A i \in 1 .. Len(program[s].controllers) : Name(s, i) \in Mine(s)
      /\ Len(program[s].controllers) \in Nat /\ at[s] \in 1 .. Len(program[s].controllers)
  BY <1>1, NamesAreMine DEF Types
<1>6. /\ Mine(s)' = Mine(s) /\ Current(s)' = Current(s) /\ \A i : Name(s, i)' = Name(s, i)
      /\ at'[s] = at[s] /\ pc'[s] = pc[s] /\ program' = program /\ seen'[s] = seen[s]
      /\ attempt'[s] = attempt[s] /\ cm' = result.cm
  BY DEF Serves, Mine, ElementsOf, Current, Name
<1>7. r.on = IF pc[s] = "group" THEN Mine(s) ELSE {Current(s)}
  BY <1>1, <1>2 DEF Target, BringingUp
<1>8. \/ answer'[s] = <<>>
      \/ answer'[s] = <<[ok |-> result.ok, cm |-> result.cm]>>
  BY <1>1, <1>2 DEF Serves, Types
<1> HIDE DEF s
<1>9. answer'[s] /= <<>> => answer'[s][1].ok = result.ok /\ answer'[s][1].cm = result.cm
  BY <1>8
<1>10. /\ pc[s] \in {"list", "params"} => \A c \in Controllers : cm'[c] = cm[c]
       /\ pc[s] \notin {"list", "params", "group"} =>
             /\ \A c \in Controllers \ {Current(s)} : cm'[c] = cm[c]
             /\ \/ result.ok /\ cm[Current(s)] \in From(pc[s]) /\ cm'[Current(s)] = To(pc[s])
                \/ ~result.ok /\ cm'[Current(s)] = cm[Current(s)]
       /\ pc[s] = "group" =>
             \/ result.ok /\ \A c \in Mine(s) : cm'[c] = "active"
             \/ ~result.ok /\ cm' = cm
  <2>1. CASE pc[s] \in {"list", "params"}
    BY <1>2, <1>4, <1>6, <2>1
  <2>2. CASE pc[s] \notin {"list", "params", "group"}
    BY <1>2, <1>4, <1>6, <1>7, <2>2 DEF Moved
  <2>3. CASE pc[s] = "group"
    BY <1>2, <1>4, <1>6, <1>7, <2>3 DEF Moved, To
  <2>4. QED
    BY <2>1, <2>2, <2>3
<1>11. AnswerHolds(s)'
  <2>1. CASE pc[s] \in {"list", "params"}
    BY <1>6, <1>9, <2>1 DEF AnswerHolds
  <2>2. CASE pc[s] \in {"load", "cleanup", "configure", "switch"}
    BY <1>6, <1>9, <1>10, <2>2 DEF AnswerHolds, To
  <2>3. CASE pc[s] = "group"
    BY <1>6, <1>9, <1>10, <2>3 DEF AnswerHolds
  <2>4. QED
    BY <1>1, <2>1, <2>2, <2>3 DEF BringingUp
<1>12. CurrentIsKnown(s)'
  <2>1. CurrentIsKnown(s)
    BY DEF Relies, s
  <2>2. CASE pc[s] \in {"params", "list"}
    BY <1>3, <1>5, <1>6, <1>10, <2>1, <2>2 DEF CurrentIsKnown
  <2>3. CASE pc[s] = "load"
    BY <1>3, <1>5, <1>6, <1>10, <2>1, <2>3 DEF CurrentIsKnown, To
  <2>4. CASE pc[s] \in {"cleanup", "configure", "group"}
    BY <1>3, <1>6, <2>4 DEF CurrentIsKnown
  <2>5. CASE pc[s] = "switch"
    BY <1>3, <1>5, <1>6, <1>10, <2>1, <2>5 DEF CurrentIsKnown, To
  <2>6. QED
    BY <1>1, <2>2, <2>3, <2>4, <2>5 DEF BringingUp
<1>13. FormerAreDone(s)'
  <2>1. FormerAreDone(s) /\ \A i \in 1 .. at[s] - 1 : Name(s, i) \in Controllers
    BY <1>5 DEF Relies, s
  <2>2. \A c : cm'[c] = cm[c] => (Wanted(s, c)' <=> Wanted(s, c))
    BY <1>6 DEF Wanted
  <2>3. CASE pc[s] \notin {"group"}
    <3>1. \A i \in 1 .. at[s] - 1 : Name(s, i) /= Current(s) => cm'[Name(s, i)] = cm[Name(s, i)]
      BY <1>10, <2>1, <2>3
    <3>2. \A i \in 1 .. at'[s] - 1 : Name(s, i)' /= Current(s)' => Wanted(s, Name(s, i))'
      BY <1>1, <1>6, <2>1, <2>2, <3>1 DEF FormerAreDone
    <3>3. pc'[s] /= "group" /\ pc'[s] /= "kill_unload"
      BY <1>1, <1>6, <2>3 DEF BringingUp
    <3>4. QED
      BY <3>2, <3>3 DEF FormerAreDone
  <2>4. CASE pc[s] = "group"
    <3>1. \A c \in Mine(s) : Wanted(s, c)'
      BY <1>1, <1>6, <1>10, <2>1, <2>2, <2>4 DEF FormerAreDone, Wanted
    <3>2. \A i \in 1 .. at'[s] - 1 : Name(s, i)' \in Mine(s)
      BY <1>5, <1>6
    <3>3. QED
      BY <1>6, <2>1, <2>4, <3>1, <3>2 DEF FormerAreDone
  <2>5. QED
    BY <2>3, <2>4
<1>14. LateLoads(s)'
  BY <1>1, <1>6 DEF LateLoads, BringingUp, TakingDown
<1>15. QED
  BY <1>11, <1>12, <1>13, <1>14 DEF Relies, s

\* So does one that takes controllers down, whichever of its calls, old or new, is
\* carried out.
LEMMA ServeTakingDown ==
    ASSUME Types, RequestsAreCurrent, NEW r \in requests, NEW result \in Service(r),
           Serves(r, result), pc[r.from] \in TakingDown, Relies(r.from)
    PROVE  Relies(r.from)'
<1> DEFINE s == r.from
<1>1. r \in RequestType /\ s \in Clients /\ pc[s] \in TakingDown
  BY DEF Types, RequestType
<1>2. /\ result \in AnswerType
      /\ r.op \in {"list", "params"} => result.cm = cm
      /\ r.op \notin {"list", "params"} => Moved(r, result, From(r.op), To(r.op))
  BY <1>1, ServiceResult
<1>3. /\ Mine(s) \in SUBSET Controllers /\ Current(s) \in Mine(s)
      /\ \A i \in 1 .. Len(program[s].controllers) : Name(s, i) \in Mine(s)
      /\ Len(program[s].controllers) \in Nat /\ at[s] \in 1 .. Len(program[s].controllers)
  BY <1>1, NamesAreMine DEF Types
<1>4. /\ Mine(s)' = Mine(s) /\ Current(s)' = Current(s) /\ \A i : Name(s, i)' = Name(s, i)
      /\ at'[s] = at[s] /\ pc'[s] = pc[s] /\ program' = program /\ cm' = result.cm
      /\ unload_status' = unload_status /\ requests' = requests \ {r}
  BY DEF Serves, Mine, ElementsOf, Current, Name
<1>5. r.live => r.op = pc[s] /\ r.on = Target(s) /\ answer[s] = <<>>
  BY LiveRequest
<1>6. \/ answer'[s] = answer[s]
      \/ r.live /\ answer'[s] = <<[ok |-> result.ok, cm |-> result.cm]>>
  BY <1>1 DEF Serves, Types
<1>7. r.op \in Calling /\ r.on \in SUBSET Controllers
  BY <1>1 DEF RequestType
<1>8. AnswerHolds(s) /\ FormerAreDone(s) /\ LateLoads(s)
  BY DEF Relies
<1>9. r \in requests /\ r.from = s
  BY DEF s
<1> HIDE DEF s
<1>10. /\ answer'[s] /= <<>> /\ answer'[s] /= answer[s]
             => r.live /\ answer'[s][1].ok = result.ok
  BY <1>6
\* What is unloaded stays so, unless a call to load is carried out.
<1>11. r.op /= "load" => \A c \in Controllers : cm[c] = "none" => cm'[c] = "none"
  <2>1. SUFFICES ASSUME r.op /= "load", NEW c \in Controllers, cm[c] = "none"
                 PROVE  cm'[c] = "none"
    OBVIOUS
  <2>2. CASE r.op \in {"list", "params"}
    BY <1>2, <1>4, <2>1, <2>2
  <2>3. CASE r.op \notin {"list", "params"}
    <3>1. "none" \notin From(r.op)
      BY <1>7, <2>1, <2>3 DEF From, Calling
    <3>2. Moved(r, result, From(r.op), To(r.op))
      BY <1>2, <2>3
    <3>3. QED
      BY <1>4, <2>1, <3>1, <3>2 DEF Moved
  <2>4. QED
    BY <2>2, <2>3
<1>12. pc[s] = "kill_unload" => r.op /= "load"
  BY <1>1, <1>8, <1>9 DEF LateLoads
<1>13. AnswerHolds(s)'
  <2>1. SUFFICES ASSUME pc[s] = "kill_unload", answer'[s] /= <<>>, answer'[s][1].ok
                 PROVE  cm'[Current(s)] = "none"
    BY <1>1, <1>4 DEF AnswerHolds, TakingDown, BringingUp
  <2>2. CASE answer'[s] = answer[s]
    <3>1. cm[Current(s)] = "none"
      BY <1>8, <2>1, <2>2 DEF AnswerHolds
    <3>2. QED
      BY <1>3, <1>11, <1>12, <2>1, <3>1
  <2>3. CASE answer'[s] /= answer[s]
    <3>1. r.live /\ result.ok
      BY <1>10, <2>1, <2>3
    <3>2. r.op = "kill_unload" /\ r.on = {Current(s)}
      BY <1>5, <2>1, <3>1 DEF Target
    <3>3. Moved(r, result, From(r.op), To(r.op)) /\ To(r.op) = "none"
      BY <1>2, <3>2 DEF To
    <3>4. QED
      BY <1>4, <3>1, <3>2, <3>3 DEF Moved
  <2>4. QED
    BY <2>2, <2>3
<1>14. CurrentIsKnown(s)'
  BY <1>1, <1>4 DEF CurrentIsKnown, TakingDown
<1>15. FormerAreDone(s)'
  <2>1. SUFFICES ASSUME pc[s] = "kill_unload", unload_status[s], NEW i \in 1 .. at[s] - 1
                 PROVE  cm'[Name(s, i)] = "none"
    BY <1>1, <1>4 DEF FormerAreDone, TakingDown, BringingUp
  <2>2. cm[Name(s, i)] = "none"
    BY <1>8, <2>1 DEF FormerAreDone
  <2>3. Name(s, i) \in Controllers
    BY <1>3
  <2>4. QED
    BY <1>11, <1>12, <2>1, <2>2, <2>3
<1>16. LateLoads(s)'
  <2>1. SUFFICES ASSUME NEW q \in requests, q.from = s, q.op = "load"
                 PROVE  /\ \A c \in q.on : cm'[c] \in {"none", "unconfigured"}
                        /\ answer'[s] /= <<>> => ~answer'[s][1].ok
    BY <1>1, <1>4, <1>8 DEF LateLoads, IsUnspawner
  <2>2. /\ pc[s] = "kill_switch" /\ ~program[s].inactive
        /\ q.on \subseteq Mine(s) /\ q.on /= {}
        /\ \A c \in q.on : cm[c] \in {"none", "unconfigured"}
        /\ r.op \in {"load", "kill_switch"}
        /\ answer[s] /= <<>> => ~answer[s][1].ok
    BY <1>1, <1>8, <1>9, <2>1 DEF LateLoads
  <2>3. Moved(r, result, From(r.op), To(r.op))
    BY <1>2, <2>2
  <2>4. \/ r.op = "load" /\ From(r.op) = {"none"} /\ To(r.op) = "unconfigured"
        \/ r.op = "kill_switch" /\ From(r.op) = {"active"}
    BY <2>2 DEF From, To
  <2>5. \A c \in q.on : cm'[c] \in {"none", "unconfigured"}
    BY <1>3, <1>4, <2>2, <2>3, <2>4 DEF Moved
  <2>6. answer'[s] /= <<>> => ~answer'[s][1].ok
    <3>1. SUFFICES ASSUME answer'[s] /= answer[s], answer'[s] /= <<>> PROVE ~result.ok
      BY <1>10, <2>2
    <3>2. r.op = "kill_switch" /\ r.on = Mine(s)
      BY <1>5, <1>10, <2>2, <3>1 DEF Target, ToDeactivate
    <3>3. From(r.op) = {"active"}
      BY <2>4, <3>2
    <3>4. PICK c \in q.on : cm[c] \in {"none", "unconfigured"}
      BY <2>2
    <3>5. c \in r.on /\ cm[c] \notin From(r.op)
      BY <2>2, <3>2, <3>3, <3>4
    <3>6. QED
      BY <2>3, <3>5 DEF Moved
  <2>7. QED
    BY <2>5, <2>6
<1>17. QED
  BY <1>13, <1>14, <1>15, <1>16 DEF Relies, s

LEMMA ServeKeepsIInv ==
    ASSUME IInv, NEW r \in requests, Serve(r)
    PROVE  IInv'
<1>1. PICK result \in Service(r) : Serves(r, result)
  BY ServeIsServes
<1>2. \A q \in requests : q.from = r.from /\ q.op = r.op => q.n >= r.n
  BY DEF Serve
<1>3. r \in RequestType /\ result \in AnswerType
  BY ServiceResult DEF IInv, Types
<1>4. LockIsHeld'
  BY <1>1 DEF IInv, LockIsHeld, Serves, IsUnspawner
<1>5. Undisturbed'
  <2>1. SUFFICES ASSUME NEW s \in Clients, meddled'[s] = {} PROVE Relies(s)'
    BY DEF Undisturbed
  <2>2. meddled[s] = {} /\ (AtWork(s) /\ r.from /= s => Changed(result.cm) \cap Mine(s) = {})
    BY <1>1, <2>1 DEF Serves
  <2>3. Relies(s)
    BY <2>2 DEF IInv, Undisturbed
  <2>4. CASE ~AtWork(s)
    BY <1>1, <2>4 DEF Serves, AtWork, Relies, AnswerHolds, CurrentIsKnown, FormerAreDone,
                      LateLoads, BringingUp, TakingDown, Exits
  <2>5. CASE AtWork(s) /\ r.from /= s
    <3>1. \A c \in Mine(s) : cm'[c] = cm[c]
      BY <1>1, <2>2, <2>5, NamesAreMine DEF Changed, Serves, IInv
    <3>2. Rests(s)
      BY <1>1, <1>3, <2>5 DEF Rests, Serves, IInv, Types
    <3>3. QED
      BY <1>1, <2>3, <3>1, <3>2, RestingRelies DEF IInv, Serves
  <2>6. CASE AtWork(s) /\ r.from = s
    <3>1. pc[s] \in BringingUp \/ pc[s] \in TakingDown
      BY <2>6 DEF AtWork, IInv, Types, TypeOK, Calling, BringingUp, TakingDown, Exits
    <3>2. QED
      BY <1>1, <2>3, <2>6, <3>1, ServeBringingUp, ServeTakingDown DEF IInv
  <2>7. QED
    BY <2>4, <2>5, <2>6
<1>6. QED
  BY <1>1, <1>2, <1>4, <1>5, ServeTypes, ServeRequests, ServeMeddles DEF IInv

-----------------------------------------------------------------------------
(* A client takes a step.                                                   *)

\* The step of a client leaves the controllers, and the other clients, alone.
IsStepOf(s) ==
    /\ cm' = cm /\ program' = program /\ meddled' = meddled
    /\ \A t \in Clients \ {s} : Rests(t)
    /\ \A q \in requests' : q.from /= s => q \in requests
    /\ lock' = lock \/ lock \in {s, NoOne}

\* What is left to show of a step is about its client.
LEMMA ClientStep ==
    ASSUME IInv, NEW s \in Clients, IsStepOf(s), Types',
           pc'[s] \in BringingUp => ~IsUnspawner(s) /\ lock' = s,
           Outside(s) => Outside(s)',
           \A q \in requests' : q.from = s => IsCurrent(q)',
           meddled[s] = {} => Relies(s)'
    PROVE  IInv'
<1>1. LockIsHeld'
  <2>1. SUFFICES ASSUME NEW t \in Clients \ {s}, pc'[t] \in BringingUp
                 PROVE  ~IsUnspawner(t) /\ lock' = t
    BY DEF LockIsHeld, IsStepOf, IsUnspawner
  <2>2. ~IsUnspawner(t) /\ lock = t
    BY <2>1 DEF IInv, LockIsHeld, IsStepOf, Rests
  <2>3. QED
    BY <2>2, ProgramAssumption DEF IsStepOf
<1>2. RequestsAreCurrent'
  <2>1. SUFFICES ASSUME NEW q \in requests', q.from /= s PROVE IsCurrent(q)'
    BY DEF RequestsAreCurrent
  <2>2. q \in requests /\ q \in RequestType /\ q.from \in Clients
    BY <2>1 DEF IsStepOf, IInv, Types, RequestType
  <2>3. QED
    BY <2>1, <2>2, RestingRequests DEF IInv, RequestsAreCurrent, IsStepOf
<1>3. OnlyOutsidersMeddle'
  <2>1. \A t \in Clients \ {s} : Outside(t)' <=> Outside(t)
    BY DEF Outside, IsStepOf, Rests, IsUnspawner
  <2>2. SUFFICES ASSUME NEW t \in Clients, ~Outside(t)', NEW f \in meddled[t]
                 PROVE  Outside(f)'
    BY DEF OnlyOutsidersMeddle, IsStepOf
  <2>3. ~Outside(t)
    BY <2>1, <2>2
  <2>4. f \in Clients /\ Outside(f)
    BY <2>2, <2>3 DEF IInv, OnlyOutsidersMeddle, Types, TypeOK
  <2>5. QED
    BY <2>1, <2>4
<1>4. Undisturbed'
  <2>1. SUFFICES ASSUME NEW t \in Clients \ {s}, meddled[t] = {} PROVE Relies(t)'
    BY DEF Undisturbed, IsStepOf
  <2>2. Relies(t) /\ Rests(t)
    BY <2>1 DEF IInv, Undisturbed, IsStepOf
  <2>3. (\A c \in Mine(t) : cm'[c] = cm[c]) /\ \A q \in requests' : q.from = t => q \in requests
    BY <2>1 DEF IsStepOf
  <2>4. QED
    BY <2>2, <2>3, RestingRelies DEF IInv
<1>5. QED
  BY <1>1, <1>2, <1>3, <1>4 DEF IInv

\* Nothing is asked for before the start, and what is known then is not wrong.
LEMMA NothingAskedYet ==
    ASSUME IInv, NEW s \in Clients, pc[s] = "start", NEW q \in requests
    PROVE  q.from /= s
<1>1. SUFFICES ASSUME q.from = s PROVE FALSE
  OBVIOUS
<1>2. IsCurrent(q) /\ q \in RequestType
  BY DEF IInv, RequestsAreCurrent, Types
<1>3. q.op = "start" /\ q.op \in Calling
  BY <1>1, <1>2 DEF IsCurrent, RequestType, TakingDown, Exits
<1>4. QED
  BY <1>3 DEF Calling

LEMMA AcquireLockKeepsIInv ==
    ASSUME IInv, NEW s \in Clients, AcquireLock(s)
    PROVE  IInv'
<1>1. /\ pc[s] = "start" /\ pc' = [pc EXCEPT ![s] = pc'[s]]
      /\ \/ IsUnspawner(s) /\ pc'[s] = "kill_switch" /\ lock' = lock
         \/ ~IsUnspawner(s) /\ pc'[s] = "list" /\ lock = NoOne /\ lock' = s
  BY DEF AcquireLock, IInv, Types, TypeOK
<1>2. /\ cm' = cm /\ program' = program /\ meddled' = meddled /\ at' = at /\ seen' = seen
      /\ unload_status' = unload_status /\ attempt' = attempt /\ answer' = answer
      /\ requests' = requests /\ retries' = retries
  BY DEF AcquireLock, work_vars, call_vars
<1>3. at[s] = 1 /\ answer[s] = <<>>
  BY <1>1 DEF IInv, Types
<1>4. \A t \in Clients \ {s} : pc'[t] = pc[t]
  BY <1>1 DEF IInv, Types, TypeOK
<1>5. IsStepOf(s)
  BY <1>1, <1>2, <1>4 DEF IsStepOf, Rests
<1>6. TypeOK'
  BY <1>1, <1>2 DEF IInv, Types, TypeOK, Calling
<1>7. Types'
  BY <1>1, <1>2, <1>3, <1>4, <1>6 DEF IInv, Types
<1>8. \A q \in requests' : q.from = s => IsCurrent(q)'
  BY <1>1, <1>2, NothingAskedYet
<1>9. Relies(s)'
  <2>1. AnswerHolds(s)'
    BY <1>2, <1>3 DEF AnswerHolds
  <2>2. CurrentIsKnown(s)'
    BY <1>1 DEF CurrentIsKnown
  <2>3. FormerAreDone(s)'
    BY <1>1, <1>2, <1>3 DEF FormerAreDone
  <2>4. LateLoads(s)'
    BY <1>1, <1>2, NothingAskedYet DEF LateLoads
  <2>5. QED
    BY <2>1, <2>2, <2>3, <2>4 DEF Relies
<1>10. (pc'[s] \in BringingUp => ~IsUnspawner(s) /\ lock' = s) /\ (Outside(s) => Outside(s)')
  BY <1>1, <1>2 DEF BringingUp, Outside, Exits, IsUnspawner
<1>11. QED
  BY <1>5, <1>7, <1>8, <1>9, <1>10, ClientStep

LEMMA LockTimesOutKeepsIInv ==
    ASSUME IInv, NEW s \in Clients, LockTimesOut(s)
    PROVE  IInv'
<1>1. /\ pc[s] = "start" /\ ~IsUnspawner(s)
      /\ retries' = [retries EXCEPT ![s] = retries[s] + 1]
      /\ \/ retries[s] + 1 = MaxRetries /\ pc' = [pc EXCEPT ![s] = "failed"]
         \/ retries[s] + 1 /= MaxRetries /\ pc' = pc
  BY DEF LockTimesOut
<1>2. /\ cm' = cm /\ program' = program /\ meddled' = meddled /\ at' = at /\ seen' = seen
      /\ unload_status' = unload_status /\ attempt' = attempt /\ answer' = answer
      /\ requests' = requests /\ lock' = lock
  BY DEF LockTimesOut, work_vars, call_vars
<1>3. retries[s] \in 0 .. MaxRetries /\ retries[s] < MaxRetries /\ MaxRetries \in Nat
  BY <1>1, BoundsAssumption DEF IInv, Types, TypeOK
<1>4. (\A t \in Clients \ {s} : pc'[t] = pc[t]) /\ pc'[s] \in {"start", "failed"}
  BY <1>1 DEF IInv, Types, TypeOK
<1>5. IsStepOf(s)
  BY <1>2, <1>4 DEF IsStepOf, Rests
<1>6. retries' \in [Clients -> 0 .. MaxRetries]
  BY <1>1, <1>3 DEF IInv, Types, TypeOK
<1>7. TypeOK'
  BY <1>1, <1>2, <1>6 DEF IInv, Types, TypeOK, Exits
<1>8. \A t \in Clients : pc'[t] = "start" => retries'[t] < MaxRetries /\ pc[t] = "start"
  BY <1>1, <1>3 DEF IInv, Types, TypeOK
<1>9. \A t \in Clients : pc'[t] = "kill_switch" => pc[t] = "kill_switch"
  BY <1>4
<1>10. Types'
  BY <1>2, <1>7, <1>8, <1>9 DEF IInv, Types
<1>11. \A q \in requests' : q.from = s => IsCurrent(q)'
  BY <1>1, <1>2, NothingAskedYet
<1>12. Relies(s)'
  BY <1>4 DEF Relies, AnswerHolds, CurrentIsKnown, FormerAreDone, LateLoads, BringingUp, TakingDown
<1>13. (pc'[s] \in BringingUp => ~IsUnspawner(s) /\ lock' = s) /\ (Outside(s) => Outside(s)')
  BY <1>1, <1>4 DEF BringingUp, Outside, Exits
<1>14. QED
  BY <1>5, <1>10, <1>11, <1>12, <1>13, ClientStep

LEMMA CallKeepsIInv ==
    ASSUME IInv, NEW s \in Clients, Call(s)
    PROVE  IInv'
<1> DEFINE new == [from |-> s, op |-> pc[s], on |-> Target(s), n |-> attempt[s] + 1, live |-> TRUE]
<1>1. /\ pc[s] \in Calling /\ answer[s] = <<>> /\ attempt[s] < MaxAttempts
      /\ attempt' = [attempt EXCEPT ![s] = attempt[s] + 1]
      /\ requests' = Abandoned(s) \cup {new}
  BY DEF Call
<1>2. /\ cm' = cm /\ program' = program /\ meddled' = meddled /\ at' = at /\ seen' = seen
      /\ unload_status' = unload_status /\ answer' = answer /\ pc' = pc
      /\ lock' = lock /\ retries' = retries
  BY DEF Call, work_vars
<1>3. /\ attempt[s] \in 0 .. MaxAttempts /\ MaxAttempts \in Nat
      /\ attempt'[s] = attempt[s] + 1 /\ attempt'[s] \in Nat \ {0}
      /\ attempt' \in [Clients -> 0 .. MaxAttempts]
  BY <1>1, BoundsAssumption DEF IInv, Types, TypeOK
<1>4. Target(s) \in SUBSET Controllers
  BY NamesAreMine DEF IInv
<1>5. /\ new \in RequestType /\ new.from = s /\ new.op = pc[s] /\ new.on = Target(s)
      /\ new.n = attempt'[s] /\ new.live
  BY <1>1, <1>3, <1>4 DEF RequestType
<1> HIDE DEF new
<1>6. IsStepOf(s)
  <2>1. \A t \in Clients \ {s} : Rests(t)
    BY <1>1, <1>2 DEF Rests, IInv, Types, TypeOK
  <2>2. \A q \in requests' : q.from /= s => q \in requests
    BY <1>1, <1>5, AbandonedRequests DEF IInv
  <2>3. QED
    BY <1>2, <2>1, <2>2 DEF IsStepOf
<1>7. Types'
  <2>1. TypeOK'
    BY <1>2, <1>3 DEF IInv, Types, TypeOK
  <2>2. requests' \subseteq RequestType
    BY <1>1, <1>5, AbandonedRequests DEF IInv
  <2>3. QED
    BY <1>2, <2>1, <2>2 DEF IInv, Types
<1>8. Target(s)' = Target(s)
  BY <1>2 DEF Target, Mine, ElementsOf, ToDeactivate, Current
<1>9. ASSUME NEW q \in requests', q.from = s
      PROVE  IsCurrent(q)'
  <2>1. CASE q = new
    <3>1. IsUnspawner(s) => pc[s] \in TakingDown
      BY <1>1 DEF IInv, LockIsHeld, Calling, BringingUp, TakingDown
    <3>2. attempt'[s] <= attempt'[s]
      BY <1>3
    <3>3. QED
      BY <1>1, <1>2, <1>5, <1>8, <2>1, <3>1, <3>2 DEF IsCurrent, IsUnspawner
  <2>2. CASE q \in Abandoned(s)
    <3>1. ~q.live
      BY <1>9, <2>2, AbandonedRequests DEF IInv
    <3>2. PICK r \in requests : r.from = s /\ r.op = q.op /\ r.on = q.on /\ r.n = q.n
      BY <1>9, <2>2, AbandonedRequests DEF IInv
    <3>3. IsCurrent(r) /\ r.n \in Nat
      BY DEF IInv, RequestsAreCurrent, Types, RequestType
    <3>4. pc[s] \notin TakingDown \cup Exits => q.n < attempt'[s]
      BY <1>3, <3>2, <3>3 DEF IsCurrent
    <3>5. pc[s] \notin TakingDown \cup Exits => q.n <= attempt'[s] /\ q.n /= attempt'[s]
      BY <1>3, <3>2, <3>3, <3>4
    <3>6. QED
      BY <1>1, <1>2, <1>8, <1>9, <3>1, <3>2, <3>3, <3>5 DEF IsCurrent, IsUnspawner
  <2>3. QED
    BY <1>1, <2>1, <2>2
<1>10. ASSUME meddled[s] = {}
       PROVE  Relies(s)'
  <2>1. Relies(s)
    BY <1>10 DEF IInv, Undisturbed
  <2>2. Mine(s)' = Mine(s) /\ Current(s)' = Current(s) /\ \A i : Name(s, i)' = Name(s, i)
    BY <1>2 DEF Mine, ElementsOf, Current, Name
  <2>3. AnswerHolds(s)'
    BY <1>1, <1>2 DEF AnswerHolds
  <2>4. CurrentIsKnown(s)'
    BY <1>2, <1>3, <2>1, <2>2 DEF Relies, CurrentIsKnown
  <2>5. \A c : Wanted(s, c)' <=> Wanted(s, c)
    BY <1>2 DEF Wanted
  <2>6. FormerAreDone(s)'
    BY <1>2, <2>1, <2>2, <2>5 DEF Relies, FormerAreDone
  <2>7. LateLoads(s)'
    <3>1. SUFFICES ASSUME NEW q \in requests', q.from = s, q.op = "load", pc[s] \in TakingDown
                   PROVE  /\ pc[s] = "kill_switch" /\ ~IsUnspawner(s) /\ ~program[s].inactive
                          /\ q.on \subseteq Mine(s) /\ q.on /= {}
                          /\ \A c \in q.on : cm[c] \in {"none", "unconfigured"}
                          /\ \A t \in requests' : t.from = s => t.op \in {"load", "kill_switch"}
      BY <1>1, <1>2, <2>2 DEF LateLoads, IsUnspawner
    <3>2. q /= new
      BY <1>5, <3>1 DEF TakingDown
    <3>3. PICK r \in requests : r.from = s /\ r.op = "load" /\ r.on = q.on
      BY <1>1, <3>1, <3>2, AbandonedRequests DEF IInv
    <3>4. /\ pc[s] = "kill_switch" /\ ~IsUnspawner(s) /\ ~program[s].inactive
          /\ q.on \subseteq Mine(s) /\ q.on /= {}
          /\ \A c \in q.on : cm[c] \in {"none", "unconfigured"}
          /\ \A t \in requests : t.from = s => t.op \in {"load", "kill_switch"}
      BY <2>1, <3>1, <3>3 DEF Relies, LateLoads
    <3>5. ASSUME NEW t \in requests', t.from = s PROVE t.op \in {"load", "kill_switch"}
      <4>1. CASE t = new
        BY <1>5, <3>4, <4>1
      <4>2. CASE t \in Abandoned(s)
        BY <3>4, <3>5, <4>2, AbandonedRequests DEF IInv
      <4>3. QED
        BY <1>1, <4>1, <4>2
    <3>6. QED
      BY <3>4, <3>5
  <2>8. QED
    BY <2>3, <2>4, <2>6, <2>7 DEF Relies
<1>11. (pc'[s] \in BringingUp => ~IsUnspawner(s) /\ lock' = s) /\ (Outside(s) => Outside(s)')
  BY <1>2 DEF IInv, LockIsHeld, Outside, IsUnspawner
<1>12. QED
  BY <1>6, <1>7, <1>9, <1>10, <1>11, ClientStep

\* A client that ends, or turns to taking its controllers down, from the head of its
\* list, no longer waits for what it has asked.
LEMMA LeavingKeepsIInv ==
    ASSUME IInv, NEW s \in Clients, NEW place \in {"kill_switch"} \cup Exits,
           Arrives(s, place), requests' = Abandoned(s),
           cm' = cm, program' = program, meddled' = meddled, seen' = seen, retries' = retries,
           unload_status' = unload_status,
           \/ at' = at /\ place /= "kill_switch"
           \/ at' = [at EXCEPT ![s] = 1],
           \/ answer' = answer
           \/ answer' = [answer EXCEPT ![s] = <<>>],
           \/ attempt' = attempt
           \/ attempt' = [attempt EXCEPT ![s] = 0],
           place = "kill_switch" =>
                /\ pc[s] \in {"waiting"} \cup BringingUp
                /\ ~IsUnspawner(s) /\ ToDeactivate(s) /= {} /\ answer'[s] = <<>>
    PROVE  IInv'
<1>1. pc' = [pc EXCEPT ![s] = place]
  BY DEF Arrives
<1>2. /\ pc' \in [Clients -> {"start", "waiting"} \cup Calling \cup Exits] /\ pc'[s] = place
      /\ \A t \in Clients \ {s} : pc'[t] = pc[t]
  BY <1>1 DEF IInv, Types, TypeOK, Calling
<1>3. lock' \in {lock, NoOne} /\ (lock' = lock \/ lock = s)
  BY DEF Arrives
<1>4. /\ at' \in [Clients -> Nat] /\ at'[s] \in {at[s], 1}
      /\ (place = "kill_switch" => at'[s] = 1)
      /\ \A t \in Clients \ {s} : at'[t] = at[t]
  <2>1. at \in [Clients -> Nat]
    BY DEF IInv, Types, TypeOK
  <2>2. CASE at' = at /\ place /= "kill_switch"
    BY <2>1, <2>2
  <2>3. CASE at' = [at EXCEPT ![s] = 1]
    BY <2>1, <2>3
  <2>4. QED
    BY <2>2, <2>3
<1>5. /\ attempt' \in [Clients -> 0 .. MaxAttempts]
      /\ \A t \in Clients \ {s} : attempt'[t] = attempt[t]
  <2>1. attempt \in [Clients -> 0 .. MaxAttempts] /\ 0 \in 0 .. MaxAttempts
    BY BoundsAssumption DEF IInv, Types, TypeOK
  <2>2. CASE attempt' = attempt
    BY <2>1, <2>2
  <2>3. CASE attempt' = [attempt EXCEPT ![s] = 0]
    BY <2>1, <2>3
  <2>4. QED
    BY <2>2, <2>3
<1>6. /\ answer' \in [Clients -> {<<>>} \cup {<<a>> : a \in AnswerType}]
      /\ \A t \in Clients \ {s} : answer'[t] = answer[t]
  BY DEF IInv, Types
<1>7. IsStepOf(s)
  <2>1. \A t \in Clients \ {s} : Rests(t)
    BY <1>2, <1>4, <1>5, <1>6 DEF Rests
  <2>2. \A q \in requests' : q.from /= s => q \in requests
    BY AbandonedRequests DEF IInv
  <2>3. QED
    BY <1>3, <2>1, <2>2 DEF IsStepOf
<1>8. Types'
  <2>1. TypeOK'
    BY <1>2, <1>3, <1>4, <1>5 DEF IInv, Types, TypeOK
  <2>2. requests' \subseteq RequestType
    BY AbandonedRequests DEF IInv
  <2>3. \A t \in Clients : at'[t] \in 1 .. Len(program'[t].controllers)
    BY <1>4, NamesAreMine DEF IInv, Types
  <2>4. \A t \in Clients : pc'[t] = "start" => retries'[t] < MaxRetries /\ answer'[t] = <<>>
    BY <1>2, <1>6 DEF IInv, Types, Exits
  <2>5. \A t \in Clients : pc'[t] \in {"start", "kill_switch"} => at'[t] = 1
    BY <1>2, <1>4 DEF IInv, Types, Exits
  <2>6. QED
    BY <1>6, <2>1, <2>2, <2>3, <2>4, <2>5 DEF Types
<1>9. ASSUME NEW q \in requests', q.from = s
      PROVE  IsCurrent(q)'
  <2>1. ~q.live /\ pc'[s] \in TakingDown \cup Exits
    BY <1>2, <1>9, AbandonedRequests DEF IInv, TakingDown
  <2>2. PICK r \in requests : r.from = s /\ r.op = q.op
    BY <1>9, AbandonedRequests DEF IInv
  <2>3. IsUnspawner(s) => q.op \in TakingDown
    BY <2>2 DEF IInv, RequestsAreCurrent, IsCurrent
  <2>4. QED
    BY <1>9, <2>1, <2>3 DEF IsCurrent, IsUnspawner
<1>10. ASSUME meddled[s] = {}
       PROVE  Relies(s)'
  <2>1. Relies(s)
    BY <1>10 DEF IInv, Undisturbed
  <2>2. AnswerHolds(s)' /\ CurrentIsKnown(s)' /\ FormerAreDone(s)'
    BY <1>2 DEF AnswerHolds, CurrentIsKnown, FormerAreDone, BringingUp, Exits
  <2>3. LateLoads(s)'
    <3>1. CASE place \in Exits
      BY <1>2, <3>1 DEF LateLoads, TakingDown, Exits
    <3>2. CASE place = "kill_switch"
      <4>1. /\ ~IsUnspawner(s) /\ ~program[s].inactive /\ pc[s] \notin TakingDown \cup Exits
            /\ answer'[s] = <<>>
        BY <3>2 DEF ToDeactivate, BringingUp, TakingDown, Exits
      <4>2. ASSUME NEW q \in requests', q.from = s
            PROVE  q.op = pc[s] /\ (pc[s] = "load" => q.on = {Current(s)})
        <5>1. PICK r \in requests : r.from = s /\ r.op = q.op /\ r.on = q.on
          BY <4>2, AbandonedRequests DEF IInv
        <5>2. r.op = pc[s] /\ r.on = Target(s)
          BY <4>1, <5>1 DEF IInv, RequestsAreCurrent, IsCurrent
        <5>3. QED
          BY <5>1, <5>2 DEF Target
      <4>3. pc[s] = "load" => cm[Current(s)] \in {"none", "unconfigured"}
        BY <2>1 DEF Relies, CurrentIsKnown
      <4>4. Current(s) \in Mine(s) /\ Mine(s)' = Mine(s)
        BY NamesAreMine DEF IInv, Mine, ElementsOf
      <4>5. QED
        BY <1>2, <3>2, <4>1, <4>2, <4>3, <4>4 DEF LateLoads, IsUnspawner
    <3>3. QED
      BY <3>1, <3>2
  <2>4. QED
    BY <2>2, <2>3 DEF Relies
<1>11. (pc'[s] \in BringingUp => ~IsUnspawner(s) /\ lock' = s) /\ (Outside(s) => Outside(s)')
  BY <1>2 DEF BringingUp, Outside, Exits
<1>12. QED
  BY <1>7, <1>8, <1>9, <1>10, <1>11, ClientStep

LEMMA GiveUpKeepsIInv ==
    ASSUME IInv, NEW s \in Clients, GiveUp(s)
    PROVE  IInv'
BY LeavingKeepsIInv DEF GiveUp, work_vars, Exits

LEMMA InterruptKeepsIInv ==
    ASSUME IInv, NEW s \in Clients, Interrupt(s)
    PROVE  IInv'
<1>1. PICK place \in {"kill_switch"} \cup Exits :
        /\ Arrives(s, place)
        /\ place = "kill_switch" => pc[s] /= "start" /\ ToDeactivate(s) /= {}
  BY DEF Interrupt, Exits
<1>2. /\ pc[s] \notin Exits \cup TakingDown /\ ~IsUnspawner(s)
      /\ at' = [at EXCEPT ![s] = 1] /\ answer' = [answer EXCEPT ![s] = <<>>]
      /\ attempt' = [attempt EXCEPT ![s] = 0] /\ requests' = Abandoned(s)
      /\ cm' = cm /\ program' = program /\ seen' = seen /\ retries' = retries
      /\ unload_status' = unload_status /\ meddled' = meddled
  BY DEF Interrupt, TakingDown
<1>3. pc[s] /= "start" => pc[s] \in {"waiting"} \cup BringingUp
  BY <1>2 DEF IInv, Types, TypeOK, Calling, BringingUp, TakingDown
<1>4. answer'[s] = <<>>
  BY <1>2 DEF IInv, Types
<1>5. QED
  BY <1>1, <1>2, <1>3, <1>4, LeavingKeepsIInv

-----------------------------------------------------------------------------
(* A client goes on after an answer.                                        *)

\* The place after each call.
LEMMA NextPlaces ==
    ASSUME NEW s \in Clients, pc[s] \in Calling, NEW known
    PROVE  /\ pc[s] = "kill_switch" => NextPlace(s, known) = "kill_unload"
           /\ pc[s] = "kill_unload" => NextPlace(s, known) = AfterUnloaded(s)
           /\ pc[s] = "group" => NextPlace(s, known) = End(s)
           /\ pc[s] \in BringingUp \ {"group"} =>
                 \/ NextPlace(s, known) \in {"params", "load", "cleanup", "configure", "switch"}
                 \/ NextPlace(s, known) = AfterController(s)
<1>1. CASE pc[s] \in TakingDown \cup {"group"}
  BY <1>1 DEF NextPlace, TakingDown, BringingUp
<1>2. CASE pc[s] = "list"
  BY <1>2 DEF NextPlace, AfterListed, AfterLoaded, AfterCleaned, AfterConfigured
<1>3. CASE pc[s] = "params"
  BY <1>3 DEF NextPlace
<1>4. CASE pc[s] = "load"
  BY <1>4 DEF NextPlace, AfterLoaded, AfterCleaned, AfterConfigured
<1>5. CASE pc[s] = "cleanup"
  BY <1>5 DEF NextPlace, AfterCleaned, AfterConfigured
<1>6. CASE pc[s] = "configure"
  BY <1>6 DEF NextPlace, AfterConfigured
<1>7. CASE pc[s] = "switch"
  BY <1>7 DEF NextPlace
<1>8. QED
  BY <1>1, <1>2, <1>3, <1>4, <1>5, <1>6, <1>7 DEF Calling, TakingDown

\* Where the loop over the controllers goes on or ends.
LEMMA AfterControllerIs ==
    ASSUME Types, NEW s \in Clients
    PROVE  \/ AfterController(s) = "list" /\ at[s] < Len(program[s].controllers)
           \/ /\ AfterController(s) = "group" /\ at[s] = Len(program[s].controllers)
              /\ program[s].as_group /\ ~program[s].load_only /\ ~program[s].inactive
           \/ /\ AfterController(s) \in {"done", "waiting"} /\ at[s] = Len(program[s].controllers)
              /\ ~(program[s].as_group /\ ~program[s].load_only /\ ~program[s].inactive)
<1>1. at[s] \in 1 .. Len(program[s].controllers) /\ Len(program[s].controllers) \in Nat
  BY NamesAreMine DEF Types
<1>2. at[s] < Len(program[s].controllers) \/ at[s] = Len(program[s].controllers)
  BY <1>1
<1>3. QED
  BY <1>1, <1>2 DEF AfterController, AfterLast, End

\* What a client knows when its call has succeeded is so.
LEMMA KnownIsSo ==
    ASSUME Types, NEW s \in Clients, Relies(s), pc[s] \in BringingUp \ {"group"},
           answer[s] /= <<>>, answer[s][1].ok
    PROVE  /\ cm[Current(s)] \in States
           /\ pc[s] \in {"list", "params", "load", "cleanup"} => cm[Current(s)] = Known(s)
           /\ pc[s] \in {"load", "cleanup"} => Known(s) = "unconfigured"
           /\ pc[s] = "params" => Known(s) = "none"
           /\ pc[s] = "configure" => cm[Current(s)] = "inactive"
           /\ pc[s] = "switch" => cm[Current(s)] = "active"
<1>1. Current(s) \in Mine(s) /\ Mine(s) \in SUBSET Controllers
  BY NamesAreMine
<1>2. cm[Current(s)] \in States
  BY <1>1 DEF Types, TypeOK
<1>3. AnswerHolds(s) /\ CurrentIsKnown(s)
  BY DEF Relies
<1>4. CASE pc[s] = "list"
  BY <1>1, <1>2, <1>3, <1>4 DEF AnswerHolds, Known, BringingUp
<1>5. CASE pc[s] = "params"
  BY <1>2, <1>3, <1>5 DEF CurrentIsKnown, Known
<1>6. CASE pc[s] \in {"load", "cleanup"}
  BY <1>2, <1>3, <1>6 DEF AnswerHolds, Known
<1>7. CASE pc[s] \in {"configure", "switch"}
  BY <1>2, <1>3, <1>7 DEF AnswerHolds
<1>8. QED
  BY <1>4, <1>5, <1>6, <1>7 DEF BringingUp

\* A controller is left behind as it is wanted.
LEMMA LeftAsWanted ==
    ASSUME Types, NEW s \in Clients, Relies(s), pc[s] \in BringingUp \ {"group"},
           answer[s] /= <<>>, answer[s][1].ok,
           NextPlace(s, Known(s)) = AfterController(s)
    PROVE  Wanted(s, Current(s))
<1> DEFINE n == NextPlace(s, Known(s))
<1>1. n \notin {"params", "load", "cleanup", "configure", "switch"}
  BY AfterControllerIs
<1>2. /\ cm[Current(s)] \in States
      /\ pc[s] \in {"list", "params", "load", "cleanup"} => cm[Current(s)] = Known(s)
      /\ pc[s] \in {"load", "cleanup"} => Known(s) = "unconfigured"
      /\ pc[s] = "configure" => cm[Current(s)] = "inactive"
      /\ pc[s] = "switch" => cm[Current(s)] = "active"
  BY KnownIsSo
<1>3. CASE pc[s] = "list"
  BY <1>1, <1>2, <1>3 DEF NextPlace, AfterListed, AfterLoaded, AfterCleaned, AfterConfigured,
                          Wanted, States
<1>4. CASE pc[s] = "params"
  BY <1>1, <1>4 DEF NextPlace
<1>5. CASE pc[s] = "load"
  BY <1>1, <1>2, <1>5 DEF NextPlace, AfterLoaded, AfterCleaned, Wanted
<1>6. CASE pc[s] = "cleanup"
  BY <1>1, <1>2, <1>6 DEF NextPlace, AfterCleaned, Wanted
<1>7. CASE pc[s] = "configure"
  BY <1>1, <1>2, <1>7 DEF NextPlace, AfterConfigured, Wanted
<1>8. CASE pc[s] = "switch"
  BY <1>2, <1>8 DEF Wanted
<1>9. QED
  BY <1>3, <1>4, <1>5, <1>6, <1>7, <1>8 DEF BringingUp

\* What is known of the controller when the next call for it is due.
LEMMA NextIsKnown ==
    ASSUME Types, NEW s \in Clients, Relies(s), pc[s] \in BringingUp \ {"group"},
           answer[s] /= <<>>, answer[s][1].ok,
           NEW n, n = NextPlace(s, Known(s)),
           n \in {"params", "load", "cleanup", "configure", "switch"}
    PROVE  /\ n /= "switch" => cm[Current(s)] = Known(s)
           /\ n \in {"params", "load"} => Known(s) = "none"
           /\ n = "load" => cm[Current(s)] = "none"
           /\ n = "switch" => cm[Current(s)] \in {"inactive", "active"}
<1>1. AfterController(s) \notin {"params", "load", "cleanup", "configure", "switch"}
  BY AfterControllerIs
<1>2. /\ cm[Current(s)] \in States
      /\ pc[s] \in {"list", "params", "load", "cleanup"} => cm[Current(s)] = Known(s)
      /\ pc[s] \in {"load", "cleanup"} => Known(s) = "unconfigured"
      /\ pc[s] = "params" => Known(s) = "none"
      /\ pc[s] = "configure" => cm[Current(s)] = "inactive"
  BY KnownIsSo
<1>3. CASE pc[s] = "list"
  BY <1>1, <1>2, <1>3 DEF NextPlace, AfterListed, AfterLoaded, AfterCleaned, AfterConfigured,
                          States
<1>4. CASE pc[s] = "params"
  BY <1>2, <1>4 DEF NextPlace
<1>5. CASE pc[s] = "load"
  BY <1>1, <1>2, <1>5 DEF NextPlace, AfterLoaded, AfterCleaned
<1>6. CASE pc[s] = "cleanup"
  BY <1>1, <1>2, <1>6 DEF NextPlace, AfterCleaned
<1>7. CASE pc[s] = "configure"
  BY <1>1, <1>2, <1>7 DEF NextPlace, AfterConfigured
<1>8. CASE pc[s] = "switch"
  BY <1>1, <1>8 DEF NextPlace
<1>9. QED
  BY <1>3, <1>4, <1>5, <1>6, <1>7, <1>8 DEF BringingUp

\* A client comes to its next place, unless it has failed.
LEMMA ProceedPlaces ==
    ASSUME Types, NEW s \in Clients, Proceed(s)
    PROVE  /\ pc[s] \in Calling /\ answer[s] /= <<>>
           /\ pc' = [pc EXCEPT ![s] = pc'[s]] /\ Arrives(s, pc'[s])
           /\ \/ pc'[s] = "failed"
              \/ /\ pc'[s] = NextPlace(s, Known(s))
                 /\ answer[s][1].ok \/ Ignored(s)
                 /\ pc'[s] = "unloaded" => answer[s][1].ok /\ unload_status[s]
           /\ at' = [at EXCEPT ![s] =
                        IF pc'[s] \in {"list", "kill_unload"} /\ pc[s] /= "kill_switch"
                        THEN at[s] + 1 ELSE at[s]]
           /\ seen' = [seen EXCEPT ![s] = Known(s)]
           /\ unload_status' = [unload_status EXCEPT ![s] =
                 unload_status[s] /\ (answer[s][1].ok \/ pc[s] = "kill_switch")]
           /\ answer' = [answer EXCEPT ![s] = <<>>] /\ attempt' = [attempt EXCEPT ![s] = 0]
           /\ cm' = cm /\ program' = program /\ retries' = retries /\ requests' = requests
           /\ meddled' = meddled
<1> DEFINE ok == answer[s][1].ok
           next == NextPlace(s, Known(s))
           place == IF ~ok /\ ~Ignored(s) THEN "failed"
                    ELSE IF next = "unloaded" /\ ~(ok /\ unload_status[s]) THEN "failed"
                    ELSE next
<1>1. /\ Arrives(s, place)
      /\ at' = [at EXCEPT ![s] = IF place \in {"list", "kill_unload"} /\ pc[s] /= "kill_switch"
                                 THEN at[s] + 1 ELSE at[s]]
      /\ seen' = [seen EXCEPT ![s] = Known(s)]
      /\ unload_status' = [unload_status EXCEPT ![s] =
            unload_status[s] /\ (ok \/ pc[s] = "kill_switch")]
  BY DEF Proceed
<1>2. /\ pc[s] \in Calling /\ answer[s] /= <<>>
      /\ answer' = [answer EXCEPT ![s] = <<>>] /\ attempt' = [attempt EXCEPT ![s] = 0]
      /\ cm' = cm /\ program' = program /\ retries' = retries /\ requests' = requests
      /\ meddled' = meddled
  BY DEF Proceed
<1>3. \/ place = "failed"
      \/ place = next /\ (ok \/ Ignored(s)) /\ (place = "unloaded" => ok /\ unload_status[s])
  OBVIOUS
<1> HIDE DEF place, next
<1>4. pc' = [pc EXCEPT ![s] = place]
  BY <1>1 DEF Arrives
<1>5. pc'[s] = place
  BY <1>4 DEF Types, TypeOK
<1>6. QED
  BY <1>1, <1>2, <1>3, <1>4, <1>5 DEF next

\* Where a client may go from where.
LEMMA ProceedGoes ==
    ASSUME Types, NEW s \in Clients, Proceed(s)
    PROVE  \/ pc'[s] = "failed"
           \/ /\ pc[s] = "kill_switch" /\ pc'[s] = "kill_unload"
           \/ /\ pc[s] = "kill_unload" /\ pc'[s] = "kill_unload"
              /\ at[s] < Len(program[s].controllers)
           \/ /\ pc[s] = "kill_unload" /\ pc'[s] = "unloaded"
              /\ answer[s][1].ok /\ unload_status[s] /\ at[s] = Len(program[s].controllers)
           \/ /\ pc[s] = "group" /\ pc'[s] \in {"done", "waiting"} /\ answer[s][1].ok
           \/ /\ pc[s] \in BringingUp \ {"group"} /\ answer[s][1].ok
              /\ pc'[s] = NextPlace(s, Known(s))
              /\ pc'[s] \in {"params", "load", "cleanup", "configure", "switch"}
           \/ /\ pc[s] \in BringingUp \ {"group"} /\ answer[s][1].ok
              /\ pc'[s] = NextPlace(s, Known(s))
              /\ pc'[s] = AfterController(s)
<1>1. /\ pc[s] \in Calling
      /\ \/ pc'[s] = "failed"
         \/ /\ pc'[s] = NextPlace(s, Known(s))
            /\ answer[s][1].ok \/ Ignored(s)
            /\ pc'[s] = "unloaded" => answer[s][1].ok /\ unload_status[s]
  BY ProceedPlaces
<1>2. at[s] \in 1 .. Len(program[s].controllers) /\ Len(program[s].controllers) \in Nat
  BY NamesAreMine DEF Types
<1>3. CASE pc'[s] = "failed"
  BY <1>3
<1>4. CASE pc[s] = "kill_switch" /\ pc'[s] /= "failed"
  BY <1>1, <1>4, NextPlaces
<1>5. CASE pc[s] = "kill_unload" /\ pc'[s] /= "failed"
  <2>1. pc'[s] = AfterUnloaded(s)
    BY <1>1, <1>5, NextPlaces
  <2>2. QED
    BY <1>1, <1>2, <1>5, <2>1 DEF AfterUnloaded
<1>6. CASE pc[s] \in BringingUp /\ pc'[s] /= "failed"
  <2>1. answer[s][1].ok /\ pc'[s] = NextPlace(s, Known(s))
    BY <1>1, <1>6 DEF Ignored, BringingUp
  <2>2. CASE pc[s] = "group"
    <3>1. pc'[s] = End(s)
      BY <1>1, <2>1, <2>2, NextPlaces
    <3>2. pc'[s] \in {"done", "waiting"}
      BY <3>1 DEF End
    <3>3. QED
      BY <2>1, <2>2, <3>2
  <2>3. CASE pc[s] /= "group"
    BY <1>1, <1>6, <2>1, <2>3, NextPlaces
  <2>4. QED
    BY <2>2, <2>3
<1>7. QED
  BY <1>1, <1>3, <1>4, <1>5, <1>6 DEF Calling, BringingUp

\* At the end of its list all controllers of a client are as it wants them.
LEMMA AllAsWanted ==
    ASSUME Types, NEW s \in Clients, FormerAreDone(s), pc[s] \in BringingUp,
           Wanted(s, Current(s)), at[s] = Len(program[s].controllers)
    PROVE  \A c \in Mine(s) : Wanted(s, c)
<1> SUFFICES ASSUME NEW c \in Mine(s), c /= Current(s) PROVE Wanted(s, c)
  OBVIOUS
<1>1. PICK i \in 1 .. Len(program[s].controllers) : c = Name(s, i)
  BY NamesAreMine
<1>2. Name(s, at[s]) = Current(s) /\ at[s] \in Nat
  BY DEF Name, Current, Types, TypeOK
<1>3. i \in 1 .. at[s] - 1
  BY <1>1, <1>2
<1>4. QED
  BY <1>1, <1>3 DEF FormerAreDone

LEMMA ProceedTypes ==
    ASSUME IInv, NEW s \in Clients, Proceed(s)
    PROVE  Types' /\ IsStepOf(s)
<1>1. /\ pc' = [pc EXCEPT ![s] = pc'[s]] /\ Arrives(s, pc'[s])
      /\ at' = [at EXCEPT ![s] =
                   IF pc'[s] \in {"list", "kill_unload"} /\ pc[s] /= "kill_switch"
                   THEN at[s] + 1 ELSE at[s]]
      /\ seen' = [seen EXCEPT ![s] = Known(s)]
      /\ unload_status' = [unload_status EXCEPT ![s] =
            unload_status[s] /\ (answer[s][1].ok \/ pc[s] = "kill_switch")]
      /\ answer' = [answer EXCEPT ![s] = <<>>] /\ attempt' = [attempt EXCEPT ![s] = 0]
      /\ cm' = cm /\ program' = program /\ retries' = retries /\ requests' = requests
      /\ meddled' = meddled /\ pc[s] \in Calling /\ answer[s] /= <<>>
  BY ProceedPlaces DEF IInv
<1>2. /\ at[s] \in 1 .. Len(program[s].controllers) /\ Len(program[s].controllers) \in Nat
      /\ Current(s) \in Controllers
  BY NamesAreMine DEF IInv, Types
<1>3. /\ pc'[s] \in Calling \cup Exits \cup {"waiting"}
      /\ pc'[s] \notin {"start", "kill_switch"}
      /\ pc'[s] \in {"list", "kill_unload"} /\ pc[s] /= "kill_switch"
            => at[s] < Len(program[s].controllers)
  <2>1. CASE pc[s] \in BringingUp /\ pc'[s] = AfterController(s)
    BY <2>1, AfterControllerIs DEF IInv, Calling, Exits
  <2>2. CASE ~(pc[s] \in BringingUp /\ pc'[s] = AfterController(s))
    BY <2>2, ProceedGoes DEF IInv, Calling, Exits
  <2>3. QED
    BY <2>1, <2>2
<1>4. pc' \in [Clients -> {"start", "waiting"} \cup Calling \cup Exits]
  BY <1>1, <1>3 DEF IInv, Types, TypeOK
<1>5. /\ at' \in [Clients -> Nat]
      /\ \A t \in Clients : at'[t] \in 1 .. Len(program[t].controllers)
  <2>1. at'[s] \in 1 .. Len(program[s].controllers)
    BY <1>1, <1>2, <1>3 DEF IInv, Types, TypeOK
  <2>2. \A t \in Clients : at'[t] \in 1 .. Len(program[t].controllers)
    BY <1>1, <2>1 DEF IInv, Types, TypeOK
  <2>3. at'[s] \in Nat
    BY <1>2, <2>1
  <2>4. at' \in [Clients -> Nat]
    BY <1>1, <2>3 DEF IInv, Types, TypeOK
  <2>5. QED
    BY <2>2, <2>4
<1>6. Known(s) \in States
  <2>1. answer[s] \in {<<a>> : a \in AnswerType}
    BY <1>1 DEF IInv, Types
  <2>2. answer[s][1].cm \in [Controllers -> States]
    BY <2>1 DEF AnswerType
  <2>3. answer[s][1].cm[Current(s)] \in States /\ seen[s] \in States
    BY <1>2, <2>2 DEF IInv, Types, TypeOK
  <2>4. QED
    BY <2>3 DEF Known, States
<1>7. seen' \in [Clients -> States]
  BY <1>1, <1>6 DEF IInv, Types, TypeOK
<1>8. unload_status' \in [Clients -> BOOLEAN]
  <2>1. (unload_status[s] /\ (answer[s][1].ok \/ pc[s] = "kill_switch")) \in BOOLEAN
    OBVIOUS
  <2>2. QED
    BY <1>1, <2>1 DEF IInv, Types, TypeOK
<1>9. attempt' \in [Clients -> 0 .. MaxAttempts]
  BY <1>1, BoundsAssumption DEF IInv, Types, TypeOK
<1>10. lock' \in Clients \cup {NoOne} /\ (lock' = lock \/ lock = s)
  BY <1>1 DEF Arrives, IInv, Types, TypeOK
<1>11. TypeOK'
  BY <1>1, <1>4, <1>5, <1>7, <1>8, <1>9, <1>10 DEF IInv, Types, TypeOK
<1>12. answer' \in [Clients -> {<<>>} \cup {<<a>> : a \in AnswerType}]
  BY <1>1 DEF IInv, Types
<1>13. \A t \in Clients \ {s} : pc'[t] = pc[t] /\ at'[t] = at[t] /\ answer'[t] = answer[t]
  BY <1>1 DEF IInv, Types, TypeOK
<1>14. \A t \in Clients : pc'[t] = "start" => retries'[t] < MaxRetries /\ answer'[t] = <<>>
  BY <1>1, <1>3, <1>13 DEF IInv, Types
<1>15. \A t \in Clients : pc'[t] \in {"start", "kill_switch"} => at'[t] = 1
  BY <1>3, <1>13 DEF IInv, Types
<1>16. Types'
  BY <1>1, <1>5, <1>11, <1>12, <1>14, <1>15 DEF IInv, Types
<1>17. \A t \in Clients \ {s} : Rests(t)
  BY <1>1, <1>13 DEF IInv, Types, TypeOK, Rests
<1>18. IsStepOf(s)
  BY <1>1, <1>10, <1>17 DEF IsStepOf
<1>19. QED
  BY <1>16, <1>18

\* A client that goes on may rely on what it has learned and left behind.
LEMMA ProceedRelies ==
    ASSUME IInv, NEW s \in Clients, Proceed(s), Relies(s)
    PROVE  Relies(s)'
<1>1. /\ pc[s] \in Calling /\ answer[s] /= <<>>
      /\ at'[s] = IF pc'[s] \in {"list", "kill_unload"} /\ pc[s] /= "kill_switch"
                  THEN at[s] + 1 ELSE at[s]
      /\ seen'[s] = Known(s)
      /\ unload_status'[s] => unload_status[s] /\ (answer[s][1].ok \/ pc[s] = "kill_switch")
      /\ answer'[s] = <<>> /\ attempt'[s] = 0
      /\ cm' = cm /\ program' = program /\ requests' = requests
  <2>1. /\ pc[s] \in Calling /\ answer[s] /= <<>>
        /\ at' = [at EXCEPT ![s] = IF pc'[s] \in {"list", "kill_unload"} /\ pc[s] /= "kill_switch"
                                   THEN at[s] + 1 ELSE at[s]]
        /\ seen' = [seen EXCEPT ![s] = Known(s)]
        /\ unload_status' = [unload_status EXCEPT ![s] =
              unload_status[s] /\ (answer[s][1].ok \/ pc[s] = "kill_switch")]
        /\ answer' = [answer EXCEPT ![s] = <<>>] /\ attempt' = [attempt EXCEPT ![s] = 0]
        /\ cm' = cm /\ program' = program /\ requests' = requests
    BY ProceedPlaces DEF IInv
  <2>2. unload_status'[s] => unload_status[s] /\ (answer[s][1].ok \/ pc[s] = "kill_switch")
    BY <2>1 DEF IInv, Types, TypeOK
  <2>3. QED
    BY <2>1, <2>2 DEF IInv, Types, TypeOK
<1>2. /\ at[s] \in 1 .. Len(program[s].controllers) /\ at[s] \in Nat
      /\ Name(s, at[s]) = Current(s)
  BY DEF IInv, Types, TypeOK, Name, Current
<1>3. /\ Mine(s)' = Mine(s) /\ (\A i : Name(s, i)' = Name(s, i))
      /\ (at'[s] = at[s] => Current(s)' = Current(s))
  BY <1>1 DEF Mine, ElementsOf, Name, Current
<1>4. \A c : Wanted(s, c)' <=> Wanted(s, c)
  BY <1>1 DEF Wanted
<1>5. AnswerHolds(s)'
  BY <1>1 DEF AnswerHolds
<1>6. AnswerHolds(s) /\ FormerAreDone(s) /\ LateLoads(s)
  BY DEF Relies
<1>7. CASE pc'[s] \in Exits \cup {"waiting"}
  BY <1>5, <1>7 DEF Relies, CurrentIsKnown, FormerAreDone, LateLoads, Exits, BringingUp, TakingDown
<1>8. CASE pc[s] = "kill_switch" /\ pc'[s] = "kill_unload"
  <2>1. at[s] = 1
    BY <1>8 DEF IInv, Types
  <2>2. answer[s][1].ok \/ IsUnspawner(s)
    BY <1>8, ProceedPlaces DEF IInv, Ignored
  <2>3. \A q \in requests : ~(q.from = s /\ q.op = "load")
    BY <1>1, <1>6, <1>8, <2>2 DEF LateLoads, TakingDown
  <2>4. CurrentIsKnown(s)' /\ FormerAreDone(s)' /\ LateLoads(s)'
    BY <1>1, <1>8, <2>1, <2>3 DEF CurrentIsKnown, FormerAreDone, LateLoads, BringingUp
  <2>5. QED
    BY <1>5, <2>4 DEF Relies
<1>9. CASE pc[s] = "kill_unload" /\ pc'[s] = "kill_unload"
  <2>1. \A q \in requests : ~(q.from = s /\ q.op = "load")
    BY <1>6, <1>9 DEF LateLoads, TakingDown
  <2>2. unload_status'[s] => cm[Current(s)] = "none"
    BY <1>1, <1>6, <1>9 DEF AnswerHolds
  <2>3. at'[s] = at[s] + 1
    BY <1>1, <1>9
  <2>4. ASSUME unload_status'[s], NEW i \in 1 .. at'[s] - 1
        PROVE  cm[Name(s, i)] = "none"
    <3>1. CASE i = at[s]
      BY <1>2, <2>2, <2>4, <3>1
    <3>2. CASE i \in 1 .. at[s] - 1
      BY <1>1, <1>6, <1>9, <2>4, <3>2 DEF FormerAreDone
    <3>3. QED
      BY <1>2, <2>3, <2>4, <3>1, <3>2
  <2>5. FormerAreDone(s)'
    BY <1>1, <1>3, <1>9, <2>4 DEF FormerAreDone, BringingUp
  <2>6. CurrentIsKnown(s)' /\ LateLoads(s)'
    BY <1>1, <1>9, <2>1 DEF CurrentIsKnown, LateLoads
  <2>7. QED
    BY <1>5, <2>5, <2>6 DEF Relies
<1>10. CASE /\ pc[s] \in BringingUp \ {"group"} /\ answer[s][1].ok
            /\ pc'[s] = NextPlace(s, Known(s))
            /\ pc'[s] \in {"params", "load", "cleanup", "configure", "switch"}
  <2>1. /\ pc'[s] /= "switch" => cm[Current(s)] = Known(s)
        /\ pc'[s] \in {"params", "load"} => Known(s) = "none"
        /\ pc'[s] = "load" => cm[Current(s)] = "none"
        /\ pc'[s] = "switch" => cm[Current(s)] \in {"inactive", "active"}
    BY <1>1, <1>10, NextIsKnown DEF IInv
  <2>2. at'[s] = at[s] /\ Current(s)' = Current(s)
    BY <1>1, <1>3, <1>10
  <2>3. CurrentIsKnown(s)'
    BY <1>1, <1>10, <2>1, <2>2 DEF CurrentIsKnown
  <2>4. FormerAreDone(s)'
    BY <1>3, <1>4, <1>6, <1>10, <2>2 DEF FormerAreDone
  <2>5. LateLoads(s)'
    BY <1>10 DEF LateLoads, TakingDown
  <2>6. QED
    BY <1>5, <2>3, <2>4, <2>5 DEF Relies
<1>11. CASE /\ pc[s] \in BringingUp \ {"group"} /\ answer[s][1].ok
            /\ pc'[s] = NextPlace(s, Known(s))
            /\ pc'[s] = AfterController(s) /\ pc'[s] \notin Exits \cup {"waiting"}
  <2>1. Wanted(s, Current(s))
    BY <1>1, <1>11, LeftAsWanted DEF IInv
  <2>2. /\ pc'[s] \in {"list", "group"}
        /\ pc'[s] = "group" => /\ at[s] = Len(program[s].controllers)
                               /\ ~program[s].load_only /\ ~program[s].inactive
    BY <1>11, AfterControllerIs DEF IInv, Exits
  <2>3. ASSUME NEW i \in 1 .. at[s] PROVE Wanted(s, Name(s, i))
    <3>1. CASE i = at[s] \/ Name(s, i) = Current(s)
      BY <1>2, <2>1, <3>1
    <3>2. CASE i \in 1 .. at[s] - 1 /\ Name(s, i) /= Current(s)
      BY <1>6, <1>11, <3>2 DEF FormerAreDone
    <3>3. QED
      BY <1>2, <2>3, <3>1, <3>2
  <2>4. at'[s] \in {at[s], at[s] + 1}
    BY <1>1
  <2>5. \A i \in 1 .. at'[s] - 1 : Wanted(s, Name(s, i))'
    BY <1>2, <1>3, <1>4, <2>3, <2>4
  <2>6. pc'[s] = "group" => \A c \in Mine(s) : Wanted(s, c)
    BY <1>6, <1>11, <2>1, <2>2, AllAsWanted DEF IInv
  <2>7. FormerAreDone(s)'
    BY <1>1, <1>3, <1>4, <2>2, <2>5, <2>6 DEF FormerAreDone
  <2>8. CurrentIsKnown(s)' /\ LateLoads(s)'
    BY <2>2 DEF CurrentIsKnown, LateLoads, TakingDown
  <2>9. QED
    BY <1>5, <2>7, <2>8 DEF Relies
<1>12. QED
  BY <1>7, <1>8, <1>9, <1>10, <1>11, ProceedGoes DEF IInv, Exits

LEMMA ProceedKeepsIInv ==
    ASSUME IInv, NEW s \in Clients, Proceed(s)
    PROVE  IInv'
<1>1. /\ pc[s] \in Calling /\ answer[s] /= <<>> /\ requests' = requests
      /\ Arrives(s, pc'[s]) /\ program' = program
  BY ProceedPlaces DEF IInv
<1>2. Types' /\ IsStepOf(s)
  BY ProceedTypes
<1>3. pc[s] \in TakingDown => pc'[s] \in TakingDown \cup Exits
  BY ProceedGoes DEF IInv, TakingDown, BringingUp, Exits
<1>4. pc'[s] \in BringingUp => ~IsUnspawner(s) /\ lock' = s
  <2>1. SUFFICES ASSUME pc'[s] \in BringingUp PROVE ~IsUnspawner(s) /\ lock' = s
    OBVIOUS
  <2>2. pc[s] \in BringingUp
    BY <1>1, <1>3, <2>1 DEF Calling, BringingUp, TakingDown, Exits
  <2>3. ~IsUnspawner(s) /\ lock = s
    BY <2>2 DEF IInv, LockIsHeld
  <2>4. QED
    BY <1>1, <2>1, <2>3 DEF Arrives, BringingUp, Exits
<1>5. Outside(s) => Outside(s)'
  BY <1>1, <1>3 DEF Outside, Calling, Exits, TakingDown, IsUnspawner
<1>6. ASSUME NEW q \in requests', q.from = s
      PROVE  IsCurrent(q)'
  <2>1. q \in requests /\ IsCurrent(q)
    BY <1>1, <1>6 DEF IInv, RequestsAreCurrent
  <2>2. ~q.live /\ pc[s] \in TakingDown \cup Exits
    BY <1>1, <1>6, <2>1 DEF IsCurrent
  <2>3. pc'[s] \in TakingDown \cup Exits
    BY <1>1, <1>3, <2>2 DEF Calling, Exits
  <2>4. QED
    BY <1>1, <1>6, <2>1, <2>2, <2>3 DEF IsCurrent, IsUnspawner
<1>7. meddled[s] = {} => Relies(s)'
  BY ProceedRelies DEF IInv, Undisturbed
<1>8. QED
  BY <1>2, <1>4, <1>5, <1>6, <1>7, ClientStep

-----------------------------------------------------------------------------
(* The theorems.                                                            *)

LEMMA InitGivesIInv == Init => IInv
<1> SUFFICES ASSUME Init PROVE IInv
  OBVIOUS
<1>1. /\ requests = {} /\ meddled = [s \in Clients |-> {}] /\ answer = [s \in Clients |-> <<>>]
      /\ at = [s \in Clients |-> 1] /\ retries = [s \in Clients |-> 0]
      /\ pc = [s \in Clients |-> "start"] /\ program \in [Clients -> Programs]
  BY DEF Init
<1>2. TypeOK
  BY BoundsAssumption DEF Init, TypeOK, States
<1>3. \A s \in Clients : Len(program[s].controllers) \in Nat \ {0}
  BY <1>1, ProgramAssumption DEF ProgramType
<1>4. Types
  BY <1>1, <1>2, <1>3, BoundsAssumption DEF Types
<1>5. LockIsHeld /\ RequestsAreCurrent /\ OnlyOutsidersMeddle
  BY <1>1 DEF LockIsHeld, RequestsAreCurrent, OnlyOutsidersMeddle, BringingUp
<1>6. Undisturbed
  BY <1>1 DEF Undisturbed, Relies, AnswerHolds, CurrentIsKnown, FormerAreDone, LateLoads,
              BringingUp
<1>7. QED
  BY <1>4, <1>5, <1>6 DEF IInv

LEMMA NextKeepsIInv == IInv /\ [Next]_vars => IInv'
<1> SUFFICES ASSUME IInv, [Next]_vars PROVE IInv'
  OBVIOUS
<1>1. ASSUME NEW r \in requests, Serve(r) PROVE IInv'
  BY <1>1, ServeKeepsIInv
<1>2. ASSUME NEW s \in Clients, Client(s) PROVE IInv'
  BY <1>2, AcquireLockKeepsIInv, LockTimesOutKeepsIInv, CallKeepsIInv, GiveUpKeepsIInv,
     ProceedKeepsIInv DEF Client
<1>3. ASSUME NEW s \in Clients, Interrupt(s) PROVE IInv'
  BY <1>3, InterruptKeepsIInv
<1>4. CASE UNCHANGED vars
  <2>1. /\ cm' = cm /\ lock' = lock /\ program' = program /\ pc' = pc /\ at' = at
        /\ seen' = seen /\ attempt' = attempt /\ retries' = retries /\ answer' = answer
        /\ unload_status' = unload_status /\ requests' = requests /\ meddled' = meddled
    BY <1>4 DEF vars
  <2>2. Types' /\ LockIsHeld' /\ OnlyOutsidersMeddle'
    BY <2>1 DEF IInv, Types, TypeOK, LockIsHeld, OnlyOutsidersMeddle, Outside, IsUnspawner
  <2>3. \A s \in Clients : Rests(s)
    BY <2>1 DEF Rests
  <2>4. RequestsAreCurrent'
    <3>1. SUFFICES ASSUME NEW q \in requests PROVE IsCurrent(q)'
      BY <2>1 DEF RequestsAreCurrent
    <3>2. IsCurrent(q) /\ q \in RequestType /\ q.from \in Clients
      BY DEF IInv, RequestsAreCurrent, Types, RequestType
    <3>3. QED
      BY <2>3, <3>2, RestingRequests
  <2>5. Undisturbed'
    <3>1. SUFFICES ASSUME NEW s \in Clients, meddled[s] = {} PROVE Relies(s)'
      BY <2>1 DEF Undisturbed
    <3>2. Relies(s)
      BY <3>1 DEF IInv, Undisturbed
    <3>3. QED
      BY <2>1, <2>3, <3>2, RestingRelies DEF IInv
  <2>6. QED
    BY <2>2, <2>4, <2>5 DEF IInv
<1>5. QED
  BY <1>1, <1>2, <1>3, <1>4 DEF Next

LEMMA AlwaysIInv == Spec => []IInv
BY InitGivesIInv, NextKeepsIInv, PTL DEF Spec

\* The variables have their types (spawner.py, unspawner.py, service_caller).
THEOREM SpawnerTypes == Spec => []TypeOK
<1>1. IInv => TypeOK
  BY DEF IInv, Types
<1>2. QED
  BY <1>1, AlwaysIInv, PTL

\* Among any number of spawners, whatever is lost or repeated, nobody changes the
\* controllers of one that brings them up but clients that take no lock, or have ended,
\* or take theirs down (the file lock of spawner.py).
THEOREM LockKeepsSpawnersApart == Spec => []OnlyOutsidersMeddle
<1>1. IInv => OnlyOutsidersMeddle
  BY DEF IInv
<1>2. QED
  BY <1>1, AlwaysIInv, PTL

\* What a spawner has read of a controller holds when it makes its next call for it,
\* unless somebody has meddled (loaded_state in spawner.py).
THEOREM WhatIsSeenHolds == Spec => []SeenIsCurrent
<1>1. IInv => SeenIsCurrent
  BY DEF IInv, Undisturbed, Relies, CurrentIsKnown, SeenIsCurrent
<1>2. QED
  BY <1>1, AlwaysIInv, PTL

\* Only an answer brings a client at work to success.
LEMMA SuccessIsAnswered ==
    ASSUME IInv, Next, NEW s \in Clients, AtWork(s), pc'[s] /= pc[s],
           \/ pc'[s] \in {"done", "waiting"}
           \/ pc[s] = "kill_unload"  /\ pc'[s] = "unloaded"
    PROVE  Proceed(s)
<1>1. ASSUME NEW r \in requests, Serve(r) PROVE FALSE
  BY <1>1 DEF Serve
<1>2. ASSUME NEW t \in Clients, Client(t) \/ Interrupt(t) PROVE t = s
  <2>1. \E place : pc' = pc \/ pc' = [pc EXCEPT ![t] = place]
    BY <1>2, ProceedPlaces DEF Client, AcquireLock, LockTimesOut, Call, GiveUp, Interrupt, Arrives, IInv
  <2>2. QED
    BY <2>1 DEF IInv, Types, TypeOK
<1>3. CASE AcquireLock(s) \/ LockTimesOut(s)
  BY <1>3 DEF AcquireLock, LockTimesOut, AtWork
<1>4. CASE Call(s)
  BY <1>4 DEF Call
<1>5. CASE GiveUp(s)
  BY <1>5 DEF GiveUp, Arrives, IInv, Types, TypeOK
<1>6. CASE Interrupt(s)
  <2>1. \E place \in Exits \cup {"kill_switch"} : place /= "done" /\ pc' = [pc EXCEPT ![s] = place]
    BY <1>6 DEF Interrupt, Arrives, Exits
  <2>2. pc'[s] \notin {"done", "waiting"}
    BY <2>1 DEF IInv, Types, TypeOK, Exits
  <2>3. QED
    BY <1>6, <2>2 DEF Interrupt
<1>7. QED
  BY <1>1, <1>2, <1>3, <1>4, <1>5, <1>6 DEF Next, Client

LEMMA BroughtUp ==
    ASSUME IInv, NEW s \in Clients, meddled[s] = {}, Proceed(s), pc'[s] \in {"done", "waiting"}
    PROVE  Reached(s)
<1>1. Relies(s) /\ Types /\ answer[s] /= <<>>
  BY ProceedPlaces DEF IInv, Undisturbed
<1>2. CASE pc[s] = "group" /\ answer[s][1].ok
  BY <1>1, <1>2 DEF Relies, AnswerHolds, Reached
<1>3. CASE /\ pc[s] \in BringingUp \ {"group"} /\ answer[s][1].ok
           /\ pc'[s] = NextPlace(s, Known(s)) /\ pc'[s] = AfterController(s)
  <2>1. /\ at[s] = Len(program[s].controllers)
        /\ ~(program[s].as_group /\ ~program[s].load_only /\ ~program[s].inactive)
    BY <1>1, <1>3, AfterControllerIs
  <2>2. \A c \in Mine(s) : Wanted(s, c)
    BY <1>1, <1>3, <2>1, LeftAsWanted, AllAsWanted DEF Relies
  <2>3. QED
    BY <2>1, <2>2 DEF Wanted, Reached
<1>4. QED
  BY <1>1, <1>2, <1>3, ProceedGoes

LEMMA TakenDown ==
    ASSUME IInv, NEW s \in Clients, meddled[s] = {}, Proceed(s),
           pc[s] = "kill_unload", pc'[s] = "unloaded"
    PROVE  \A c \in ToDeactivate(s) : cm[c] = "none"
<1>1. Relies(s) /\ Types /\ answer[s] /= <<>>
  BY ProceedPlaces DEF IInv, Undisturbed
<1>2. answer[s][1].ok /\ unload_status[s] /\ at[s] = Len(program[s].controllers)
  BY <1>1, ProceedGoes DEF BringingUp
<1>3. cm[Current(s)] = "none" /\ \A i \in 1 .. at[s] - 1 : cm[Name(s, i)] = "none"
  BY <1>1, <1>2 DEF Relies, AnswerHolds, FormerAreDone
<1>4. \A i \in 1 .. at[s] : cm[Name(s, i)] = "none"
  <2>1. at[s] \in Nat /\ Name(s, at[s]) = Current(s)
    BY <1>1 DEF Types, TypeOK, Name, Current
  <2>2. QED
    BY <1>3, <2>1
<1>5. QED
  BY <1>1, <1>2, <1>4, NamesAreMine

\* A spawner that reports success has brought up all of its controllers as its command
\* line wants them, and one that reports to have unloaded them has, however often its
\* calls were repeated and whichever answers were lost, unless somebody has meddled.
THEOREM SuccessIsEarned == Spec => SuccessMeansDone
<1>1. ASSUME IInv, Next, NEW s \in Clients, meddled[s] = {}
      PROVE  /\ AtWork(s) /\ pc'[s] \in {"done", "waiting"} => Reached(s)
             /\ pc[s] = "kill_unload" /\ pc'[s] = "unloaded" =>
                     \A c \in ToDeactivate(s) : cm[c] = "none"
  <2>1. ASSUME AtWork(s), pc'[s] \in {"done", "waiting"} PROVE Reached(s)
    <3>1. pc'[s] /= pc[s]
      BY <2>1 DEF AtWork, Exits
    <3>2. QED
      BY <1>1, <2>1, <3>1, SuccessIsAnswered, BroughtUp
  <2>2. ASSUME pc[s] = "kill_unload", pc'[s] = "unloaded"
        PROVE  \A c \in ToDeactivate(s) : cm[c] = "none"
    <3>1. AtWork(s) /\ pc'[s] /= pc[s]
      BY <2>2 DEF AtWork, Exits
    <3>2. QED
      BY <1>1, <2>2, <3>1, SuccessIsAnswered, TakenDown
  <2>3. QED
    BY <2>1, <2>2
<1>2. IInv /\ [Next]_vars =>
        [\A s \in Clients :
            meddled[s] = {} =>
                /\ AtWork(s) /\ pc'[s] \in {"done", "waiting"} => Reached(s)
                /\ pc[s] = "kill_unload" /\ pc'[s] = "unloaded" =>
                        \A c \in ToDeactivate(s) : cm[c] = "none"]_vars
  BY <1>1
<1>3. QED
  BY <1>2, AlwaysIInv, PTL DEF Spec, SuccessMeansDone
=============================================================================
