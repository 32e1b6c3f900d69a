----------------------- MODULE ControllerManagerProofs -----------------------
(***************************************************************************)
(* What holds of the controller manager for any controllers, hardware,     *)
(* interfaces and requests.  In four parts:                                *)
(*   - the loops of the checks: a recursive function over 0 .. n keeps     *)
(*     what each of its turns keeps (LoopRuns, LoopInvariant);             *)
(*   - what switch_controller_cb has checked of a request when it hands it *)
(*     over (RequestsAreChecked);                                          *)
(*   - the claims of command interfaces (IInv), which do not depend on     *)
(*     what is checked, since activation claims again what it gives to a   *)
(*     controller, and hold whatever fails;                                *)
(*   - the switches (ListInv, SwitchInv, LinksInv, CacheInv, StrictInv,    *)
(*     ModeInv): what was checked when a request was made holds, or does   *)
(*     no harm any more, when the switch begins; what the loop takes away  *)
(*     beside a switch that the service performs is noted (stopped).       *)
(***************************************************************************)
EXTENDS ControllerManager, SequenceTheorems, WellFoundedInduction, TLAPS

-----------------------------------------------------------------------------
(* Loops over sequences.                                                    *)

\* Induction over the natural numbers, for a set instead of a predicate.
LEMMA NatSetInduction ==
    ASSUME NEW S, 0 \in S, \A n \in Nat : n \in S => n + 1 \in S
    PROVE  \A n \in Nat : n \in S
  <1> DEFINE T == Nat \ S
  <1>1. SUFFICES ASSUME T /= {} PROVE FALSE
    OBVIOUS
  <1>2. \E x \in T : \A y \in T : ~ (<<y, x>> \in OpToRel(<, Nat))
    BY <1>1, NatLessThanWellFounded, WFMin
  <1>3. PICK x \in T : \A y \in T : ~ (<<y, x>> \in OpToRel(<, Nat))
    BY <1>2
  <1>4. \A y \in T : ~ (y < x)
    BY <1>3 DEF OpToRel
  <1>5. x /= 0 /\ x - 1 \in Nat /\ x - 1 \notin T
    BY <1>4
  <1> QED
    BY <1>5

\* A loop over n elements: "F" is one turn of it, on values of V, and g[k] the value
\* after k turns.
IsTurn(F, n, V) == F \in [(1 .. n) \X V -> V]
IsRun(g, n, V, a, F) ==
    g \in [0 .. n -> V] /\ g[0] = a /\ \A k \in 1 .. n : g[k] = F[<<k, g[k - 1]>>]

\* The values of a loop exist: they are built turn by turn.
LEMMA LoopRuns ==
    ASSUME NEW V, NEW a \in V, NEW n \in Nat, NEW F, IsTurn(F, n, V)
    PROVE  \E g : IsRun(g, n, V, a, F)
  <1> DEFINE Runs == { k \in Nat : k <= n => \E g \in [0 .. k -> V] :
                                     g[0] = a /\ \A j \in 1 .. k : g[j] = F[<<j, g[j - 1]>>] }
  <1>0. F \in [(1 .. n) \X V -> V]
    BY DEF IsTurn
  <1>1. 0 \in Runs
    <2> DEFINE g == [k \in 0 .. 0 |-> a]
    <2>1. g \in [0 .. 0 -> V] /\ g[0] = a /\ \A j \in 1 .. 0 : g[j] = F[<<j, g[j - 1]>>]
      OBVIOUS
    <2> QED
      BY <2>1
  <1>2. ASSUME NEW k \in Nat, k \in Runs PROVE k + 1 \in Runs
    <2> SUFFICES ASSUME k + 1 <= n
                 PROVE  \E g \in [0 .. k + 1 -> V] :
                           g[0] = a /\ \A j \in 1 .. k + 1 : g[j] = F[<<j, g[j - 1]>>]
      OBVIOUS
    <2>1. PICK g \in [0 .. k -> V] : g[0] = a /\ \A j \in 1 .. k : g[j] = F[<<j, g[j - 1]>>]
      BY <1>2
    <2> DEFINE h == [j \in 0 .. k + 1 |-> IF j = k + 1 THEN F[<<k + 1, g[k]>>] ELSE g[j]]
    <2>2. h[k + 1] = F[<<k + 1, g[k]>>] /\ \A j \in 0 .. k : h[j] = g[j]
      OBVIOUS
    <2>3. h \in [0 .. k + 1 -> V]
      <3>1. F[<<k + 1, g[k]>>] \in V
        BY <1>0
      <3> QED
        BY <3>1
    <2> HIDE DEF h
    <2>4. ASSUME NEW j \in 1 .. k + 1 PROVE h[j] = F[<<j, h[j - 1]>>]
      <3>1. CASE j = k + 1
        BY <2>2, <3>1
      <3>2. CASE j \in 1 .. k
        <4>1. j - 1 \in 0 .. k /\ j \in 0 .. k
          BY <3>2
        <4> QED
          BY <2>1, <2>2, <3>2, <4>1
      <3> QED
        BY <3>1, <3>2
    <2>5. h[0] = a
      BY <2>1, <2>2
    <2> QED
      BY <2>3, <2>4, <2>5
  <1>3. \A k \in Nat : k \in Runs
    BY <1>1, <1>2, NatSetInduction
  <1>4. \E g \in [0 .. n -> V] : g[0] = a /\ \A k \in 1 .. n : g[k] = F[<<k, g[k - 1]>>]
    BY <1>3
  <1> QED
    BY <1>4 DEF IsRun

\* What the turns of a loop keep holds at its end.
LEMMA LoopInvariant ==
    ASSUME NEW n \in Nat, NEW g, NEW W, g[0] \in W[0],
           \A k \in 1 .. n : g[k - 1] \in W[k - 1] => g[k] \in W[k]
    PROVE  \A k \in 0 .. n : g[k] \in W[k]
  <1> DEFINE Keeps == { k \in Nat : k <= n => g[k] \in W[k] }
  <1>1. 0 \in Keeps
    OBVIOUS
  <1>2. ASSUME NEW k \in Nat, k \in Keeps PROVE k + 1 \in Keeps
    <2>1. k + 1 <= n => k + 1 \in 1 .. n /\ (k + 1) - 1 = k
      OBVIOUS
    <2> QED
      BY <1>2, <2>1
  <1>3. \A k \in Nat : k \in Keeps
    BY <1>1, <1>2, NatSetInduction
  <1> QED
    BY <1>3

\* Appending adds one element.
LEMMA RangeOfAppend ==
    ASSUME NEW T, NEW s \in Seq(T), NEW e \in T
    PROVE  Range(Append(s, e)) = Range(s) \cup {e}
  <1> DEFINE t == <<e>>
  <1>1. Append(s, e) = s \o t /\ t \in Seq(T)
    BY AppendIsConcat
  <1>2. Range(t) = {e}
    BY DEF Range
  <1> HIDE DEF t
  <1>3. Range(s \o t) = Range(s) \cup Range(t)
    BY <1>1, RangeConcatenation
  <1> QED
    BY <1>1, <1>2, <1>3

\* One more turn adds one element to those seen.
LEMMA PrefixGrows ==
    ASSUME NEW s, NEW k, k \in Nat \ {0}
    PROVE  { s[j] : j \in 1 .. k } = { s[j] : j \in 1 .. k - 1 } \cup { s[k] }
  <1>1. 1 .. k = (1 .. k - 1) \cup {k}
    OBVIOUS
  <1>2. ASSUME NEW x PROVE x \in { s[j] : j \in 1 .. k } <=> x \in { s[j] : j \in 1 .. k - 1 } \cup { s[k] }
    BY <1>1, Zenon
  <1> QED
    BY <1>2, Zenon

\* Those selects the elements in S.
LEMMA ThoseAre ==
    ASSUME NEW T, NEW s \in Seq(T), NEW S
    PROVE  /\ Those(s, S) \in Seq(T)
           /\ Range(Those(s, S)) = Range(s) \cap S
  <1> DEFINE n == Len(s)
             Turn(k, x) == IF s[k] \in S THEN Append(x, s[k]) ELSE x
             Loop_(g) == [k \in 0 .. n |-> IF k = 0 THEN <<>> ELSE Turn(k, g[k - 1])]
             F == [p \in (1 .. n) \X Seq(T) |-> Turn(p[1], p[2])]
  <1>1. n \in Nat /\ \A k \in 1 .. n : s[k] \in T
    OBVIOUS
  <1>2. Those(s, S) = (CHOOSE g : g = Loop_(g))[n]
    BY DEF Those
  <1>3. F \in [(1 .. n) \X Seq(T) -> Seq(T)]
    BY <1>1
  <1>4. ASSUME NEW k \in 1 .. n, NEW x \in Seq(T) PROVE F[<<k, x>>] = Turn(k, x)
    OBVIOUS
  <1> HIDE DEF n, Turn, F
  <1>5. PICK g \in [0 .. n -> Seq(T)] : g[0] = <<>> /\ \A k \in 1 .. n : g[k] = F[<<k, g[k - 1]>>]
    <2>1. <<>> \in Seq(T) /\ IsTurn(F, n, Seq(T))
      BY <1>3 DEF IsTurn
    <2>2. \E g : IsRun(g, n, Seq(T), <<>>, F)
      BY <1>1, <2>1, LoopRuns
    <2> QED
      BY <2>2 DEF IsRun
  <1>6. g = Loop_(g)
    <2>1. ASSUME NEW k \in 0 .. n PROVE g[k] = IF k = 0 THEN <<>> ELSE Turn(k, g[k - 1])
      <3>1. k = 0 \/ (k \in 1 .. n /\ k - 1 \in 0 .. n)
        BY <1>1
      <3> QED
        BY <1>1, <1>4, <1>5, <3>1
    <2> QED
      BY <2>1
  <1>7. PICK kept : kept = Loop_(kept) /\ Those(s, S) = kept[n]
    BY <1>2, <1>6
  <1>8. ASSUME NEW f, NEW h, f = Loop_(h)
        PROVE  f[0] = <<>> /\ \A k \in 1 .. n : f[k] = Turn(k, h[k - 1])
    BY <1>1, <1>8
  <1>9. kept[0] = <<>> /\ \A k \in 1 .. n : kept[k] = Turn(k, kept[k - 1])
    BY <1>7, <1>8
  <1> DEFINE W == [k \in 0 .. n |-> { x \in Seq(T) : Range(x) = { s[j] : j \in 1 .. k } \cap S }]
  <1>10. kept[0] \in W[0]
    <2>1. Range(<<>>) = {} /\ { s[j] : j \in 1 .. 0 } = {} /\ <<>> \in Seq(T)
      BY DEF Range
    <2> QED
      BY <1>1, <1>9, <2>1
  <1>11. ASSUME NEW k \in 1 .. n, kept[k - 1] \in W[k - 1] PROVE kept[k] \in W[k]
    <2>1. k - 1 \in 0 .. n /\ k \in 0 .. n
      BY <1>1
    <2>2. kept[k - 1] \in Seq(T) /\ Range(kept[k - 1]) = { s[j] : j \in 1 .. k - 1 } \cap S
      BY <1>11, <2>1
    <2>3. { s[j] : j \in 1 .. k } = { s[j] : j \in 1 .. k - 1 } \cup { s[k] }
      BY <1>11, PrefixGrows
    <2>4. CASE s[k] \in S
      <3>1. kept[k] = Append(kept[k - 1], s[k])
        BY <1>9, <2>4 DEF Turn
      <3>2. s[k] \in T /\ kept[k] \in Seq(T)
        BY <1>1, <2>2, <3>1
      <3>3. Range(kept[k]) = Range(kept[k - 1]) \cup { s[k] }
        BY <2>2, <3>1, <3>2, RangeOfAppend
      <3>4. Range(kept[k]) = { s[j] : j \in 1 .. k } \cap S
        BY <2>2, <2>3, <2>4, <3>3
      <3> QED
        BY <2>1, <3>2, <3>4
    <2>5. CASE s[k] \notin S
      BY <1>9, <2>1, <2>2, <2>3, <2>5 DEF Turn
    <2> QED
      BY <2>4, <2>5
  <1>12. kept[n] \in W[n]
    <2> HIDE DEF W
    <2>1. \A k \in 0 .. n : kept[k] \in W[k]
      BY <1>1, <1>10, <1>11, LoopInvariant
    <2> QED
      BY <1>1, <2>1
  <1>13. Range(s) = { s[j] : j \in 1 .. n }
    BY DEF Range, n
  <1> QED
    BY <1>1, <1>7, <1>12, <1>13

-----------------------------------------------------------------------------
(* The checks of a request.                                                 *)

\* A request as the checks pass it on.
Statuses == {"ok", "error", "exception", "done"}
Requests == [act : Seq(Controllers), deact : Seq(Controllers), to : SUBSET Controllers,
             from : SUBSET Controllers, available : SUBSET Interfaces,
             users : SUBSET Controllers, status : Statuses]

\* The steps of the check of the following controllers.
Steps(m) == {"check", "prepare"} \X { i \in Interfaces : ChainedInterface(m, i) }

\* The exporter of interface i is switched to chained mode, or is in it and left in it.
Prepared(m, r, i) == Exporter[i] \in r.to \/ (m.chained[Exporter[i]] /\ Exporter[i] \notin r.from)

\* What a step of the check changes, and what has been checked when it does not fail.
LEMMA FollowingStepDoes ==
    ASSUME NEW m, m.list \in Seq(Controllers), NEW r \in Requests, NEW step \in Steps(m)
    PROVE  LET q == FollowingStep(m, r, step) IN
           /\ q \in Requests
           /\ q.act = r.act /\ q.deact = r.deact /\ q.users = r.users
           /\ r.available \subseteq q.available
           /\ r.to \subseteq q.to /\ q.from \subseteq r.from
           /\ q.status = "ok" =>
                 /\ r.status = "ok"
                 /\ step[1] = "check" => WillBeActive(m, r, Exporter[step[2]])
                 /\ step[1] = "prepare" /\ step[2] \in CommandInterfaces => Prepared(m, q, step[2])
  <1> DEFINE i == step[2]
             f == Exporter[i]
  <1>1. i \in Interfaces /\ f \in Controllers /\ step[1] \in {"check", "prepare"}
    <2>1. i \in Interfaces /\ f \in Range(m.list)
      BY DEF Steps, ChainedInterface, Loaded
    <2>2. Range(m.list) \subseteq Controllers
      BY DEF Range
    <2> QED
      BY <2>1, <2>2 DEF Steps
  <1>2. Exports(f) \subseteq Interfaces
    BY DEF Exports
  <1>3. ASSUME NEW s \in Statuses
        PROVE  /\ [r EXCEPT !.status = s] \in Requests
               /\ [r EXCEPT !.status = s].act = r.act /\ [r EXCEPT !.status = s].deact = r.deact
               /\ [r EXCEPT !.status = s].users = r.users
               /\ [r EXCEPT !.status = s].available = r.available
               /\ [r EXCEPT !.status = s].to = r.to /\ [r EXCEPT !.status = s].from = r.from
               /\ [r EXCEPT !.status = s].status = s
    BY DEF Requests
  <1>4. CASE r.status /= "ok"
    BY <1>4 DEF FollowingStep
  <1>5. CASE r.status = "ok" /\ step[1] = "check"
    <2>1. FollowingStep(m, r, step) = IF WillBeActive(m, r, f) THEN r ELSE [r EXCEPT !.status = "error"]
      BY <1>5 DEF FollowingStep
    <2> HIDE DEF f, i
    <2> QED
      BY <1>3, <1>5, <2>1 DEF Statuses, f, i
  <1>6. CASE r.status = "ok" /\ step[1] = "prepare"
    <2>1. FollowingStep(m, r, step) = PrepareFollowing(m, r, i)
      BY <1>6 DEF FollowingStep
    <2> DEFINE q == PrepareFollowing(m, r, i)
    <2>2. \/ q = [r EXCEPT !.status = "exception"]
          \/ m.chained[f] /\ q = [r EXCEPT !.from = @ \ {f}]
          \/ f \in r.to /\ q = r
          \/ q = [r EXCEPT !.available = @ \cup Exports(f), !.to = @ \cup {f}]
          \/ i \notin CommandInterfaces /\ q = [r EXCEPT !.available = @ \cup (Exports(f) \ CommandInterfaces)]
      BY DEF PrepareFollowing
    <2>3. Prepared(m, q, i) <=> f \in q.to \/ (m.chained[f] /\ f \notin q.from)
      BY DEF Prepared
    <2> HIDE DEF f, i, q
    <2>4. /\ q \in Requests
          /\ q.act = r.act /\ q.deact = r.deact /\ q.users = r.users
          /\ r.available \subseteq q.available
          /\ r.to \subseteq q.to /\ q.from \subseteq r.from
          /\ q.status = "ok" => (i \in CommandInterfaces => Prepared(m, q, i))
      <3>1. CASE q = [r EXCEPT !.status = "exception"]
        BY <1>3, <3>1 DEF Statuses
      <3>2. CASE m.chained[f] /\ q = [r EXCEPT !.from = @ \ {f}]
        BY <2>3, <3>2 DEF Requests
      <3>3. CASE f \in r.to /\ q = r
        BY <2>3, <3>3
      <3>4. CASE q = [r EXCEPT !.available = @ \cup Exports(f), !.to = @ \cup {f}]
        <4>1. f \in Controllers
          BY <1>1 DEF f
        <4> QED
          BY <1>2, <2>3, <3>4, <4>1 DEF Requests
      <3>5. CASE i \notin CommandInterfaces /\ q = [r EXCEPT !.available = @ \cup (Exports(f) \ CommandInterfaces)]
        BY <1>2, <3>5 DEF Requests
      <3> QED
        BY <2>2, <3>1, <3>2, <3>3, <3>4, <3>5
    <2> QED
      BY <1>6, <2>1, <2>4 DEF q, i
  <1> QED
    BY <1>1, <1>4, <1>5, <1>6

\* The pieces of a flattened sequence are in it.
LEMMA FlatIsWhole ==
    ASSUME NEW T, NEW ss \in Seq(Seq(T))
    PROVE  /\ FlattenSeq(ss) \in Seq(T)
           /\ \A k \in DOMAIN ss : Range(ss[k]) \subseteq Range(FlattenSeq(ss))
  <1> DEFINE n == Len(ss)
             Loop_(g) == [k \in 1 .. n |-> IF k = 1 THEN ss[k] ELSE g[k - 1] \o ss[k]]
             F == [p \in (1 .. n) \X Seq(T) |-> IF p[1] = 1 THEN ss[1] ELSE p[2] \o ss[p[1]]]
  <1>1. n \in Nat /\ DOMAIN ss = 1 .. n /\ \A k \in 1 .. n : ss[k] \in Seq(T)
    OBVIOUS
  <1>2. CASE n = 0
    <2>1. ss = <<>> /\ FlattenSeq(ss) = ss
      BY <1>2 DEF FlattenSeq
    <2>2. DOMAIN ss = {} /\ <<>> \in Seq(T)
      BY <1>1, <1>2
    <2> QED
      BY <2>1, <2>2
  <1>3. CASE n /= 0
    <2>1. FlattenSeq(ss) = (CHOOSE g : g = Loop_(g))[n]
      BY <1>3 DEF FlattenSeq
    <2>2. <<>> \in Seq(T) /\ IsTurn(F, n, Seq(T))
      <3>1. ASSUME NEW k \in 1 .. n, NEW x \in Seq(T)
            PROVE  (IF k = 1 THEN ss[1] ELSE x \o ss[k]) \in Seq(T)
        BY <1>1
      <3> QED
        BY <3>1 DEF IsTurn
    <2>3. ASSUME NEW k \in 1 .. n, NEW x \in Seq(T) PROVE F[<<k, x>>] = IF k = 1 THEN ss[1] ELSE x \o ss[k]
      OBVIOUS
    <2> HIDE DEF n, F
    <2>4. PICK g : IsRun(g, n, Seq(T), <<>>, F)
      BY <1>1, <2>2, LoopRuns
    <2> DEFINE h == [k \in 1 .. n |-> g[k]]
    <2>5. h = Loop_(h)
      <3>1. ASSUME NEW k \in 1 .. n PROVE h[k] = IF k = 1 THEN ss[k] ELSE h[k - 1] \o ss[k]
        <4>1. g[k] = F[<<k, g[k - 1]>>] /\ k - 1 \in 0 .. n
          BY <1>1, <2>4 DEF IsRun
        <4>2. g[k] = IF k = 1 THEN ss[1] ELSE g[k - 1] \o ss[k]
          BY <2>3, <2>4, <4>1 DEF IsRun
        <4>3. k = 1 \/ k - 1 \in 1 .. n
          BY <1>1
        <4> QED
          BY <4>2, <4>3
      <3> QED
        BY <3>1
    <2>6. PICK flat : flat = Loop_(flat) /\ FlattenSeq(ss) = flat[n]
      BY <2>1, <2>5
    <2>7. ASSUME NEW f, NEW e, f = Loop_(e)
          PROVE  \A k \in 1 .. n : f[k] = IF k = 1 THEN ss[k] ELSE e[k - 1] \o ss[k]
      BY <1>1, <2>7
    <2>8. \A k \in 1 .. n : flat[k] = IF k = 1 THEN ss[k] ELSE flat[k - 1] \o ss[k]
      BY <2>6, <2>7
    <2> DEFINE W == [k \in 0 .. n - 1 |-> { x \in Seq(T) : \A j \in 1 .. k + 1 : Range(ss[j]) \subseteq Range(x) }]
               late == [k \in 0 .. n - 1 |-> flat[k + 1]]
    <2>9. late[0] \in W[0]
      BY <1>1, <1>3, <2>8
    <2>10. ASSUME NEW k \in 1 .. n - 1, late[k - 1] \in W[k - 1] PROVE late[k] \in W[k]
      <3>1. k - 1 \in 0 .. n - 1 /\ k \in 0 .. n - 1 /\ k + 1 \in 1 .. n /\ k + 1 /= 1 /\ (k - 1) + 1 = k
        BY <1>1
      <3>2. late[k - 1] = flat[k] /\ late[k] = flat[k + 1]
        BY <3>1
      <3>3. flat[k] \in Seq(T) /\ \A j \in 1 .. k : Range(ss[j]) \subseteq Range(flat[k])
        BY <2>10, <3>1, <3>2
      <3>4. flat[k + 1] = flat[k] \o ss[k + 1] /\ ss[k + 1] \in Seq(T)
        <4>1. flat[k + 1] = flat[(k + 1) - 1] \o ss[k + 1]
          BY <2>8, <3>1
        <4> QED
          BY <1>1, <3>1, <4>1
      <3>5. /\ flat[k + 1] \in Seq(T)
            /\ Range(flat[k + 1]) = Range(flat[k]) \cup Range(ss[k + 1])
        BY <3>3, <3>4, RangeConcatenation
      <3>6. \A j \in 1 .. k + 1 : Range(ss[j]) \subseteq Range(flat[k + 1])
        BY <1>1, <3>3, <3>5
      <3> QED
        BY <3>1, <3>2, <3>5, <3>6
    <2>11. late[n - 1] \in W[n - 1]
      <3>1. n - 1 \in Nat
        BY <1>1, <1>3
      <3> HIDE DEF W, late
      <3>2. \A k \in 0 .. n - 1 : late[k] \in W[k]
        BY <2>9, <2>10, <3>1, LoopInvariant
      <3> QED
        BY <3>1, <3>2
    <2>12. /\ flat[n] \in Seq(T)
           /\ \A j \in 1 .. n : Range(ss[j]) \subseteq Range(flat[n])
      BY <1>1, <1>3, <2>11
    <2> QED
      BY <1>1, <2>6, <2>12
  <1> QED
    BY <1>2, <1>3

\* The checks of a controller are steps, and check every chained interface it requires and
\* prepare its exporter.
LEMMA FollowingStepsAre ==
    ASSUME NEW m, m.list \in Seq(Controllers), NEW c \in Controllers
    PROVE  /\ FollowingSteps(m)[c] \in Seq(Steps(m))
           /\ \A i \in Range(Uses[c]) : ChainedInterface(m, i) =>
                 {<<"check", i>>, <<"prepare", i>>} \subseteq Range(FollowingSteps(m)[c])
  <1> DEFINE n == Len(m.list)
             T == Steps(m)
             V == [Controllers -> Seq(T)]
             a == [d \in Controllers |-> <<>>]
             Pieces(x, d) == [k \in DOMAIN Uses[d] |-> StepsFor(m, x, Uses[d][k])]
             Turn(x) == StepsOfLonger(m, x)
             Loop_(g) == [k \in 0 .. n |-> IF k = 0 THEN a ELSE Turn(g[k - 1])]
             F == [p \in (1 .. n) \X V |-> Turn(p[2])]
  <1>1. n \in Nat /\ Range(m.list) \subseteq Controllers
    BY RangeOfSeq
  <1>2. FollowingSteps(m) = (CHOOSE g : g = Loop_(g))[n]
    BY DEF FollowingSteps
  <1>3. ASSUME NEW d \in Controllers
        PROVE  Uses[d] \in Seq(Interfaces) /\ \A k \in DOMAIN Uses[d] : Uses[d][k] \in Interfaces
    BY InterfaceAssumption
  <1>4. ASSUME NEW x \in V, NEW i \in Interfaces
        PROVE  /\ StepsFor(m, x, i) \in Seq(T)
               /\ ChainedInterface(m, i) => {<<"check", i>>, <<"prepare", i>>} \subseteq Range(StepsFor(m, x, i))
    <2>1. CASE ~ChainedInterface(m, i)
      BY <2>1 DEF StepsFor
    <2>2. CASE ChainedInterface(m, i)
      <3> DEFINE check == <<<<"check", i>>>>
                 rest == x[Exporter[i]]
                 prepare == <<<<"prepare", i>>>>
      <3>1. Exporter[i] \in Controllers
        BY <1>1, <2>2 DEF ChainedInterface, Loaded
      <3>2. <<"check", i>> \in T /\ <<"prepare", i>> \in T
        BY <2>2 DEF Steps
      <3>3. check \in Seq(T) /\ prepare \in Seq(T) /\ rest \in Seq(T)
        BY <3>1, <3>2
      <3>4. <<"check", i>> \in Range(check) /\ <<"prepare", i>> \in Range(prepare)
        BY DEF Range
      <3>5. StepsFor(m, x, i) = check \o rest \o prepare
        BY <2>2 DEF StepsFor
      <3> HIDE DEF check, rest, prepare
      <3>6. check \o rest \in Seq(T) /\ (check \o rest) \o prepare \in Seq(T)
        BY <3>3
      <3>7. Range(check \o rest) = Range(check) \cup Range(rest)
        BY <3>3, RangeConcatenation
      <3>8. Range((check \o rest) \o prepare) = Range(check \o rest) \cup Range(prepare)
        <4> DEFINE front == check \o rest
        <4> HIDE DEF front
        <4>1. front \in Seq(T)
          BY <3>6 DEF front
        <4>2. Range(front \o prepare) = Range(front) \cup Range(prepare)
          BY <3>3, <4>1, RangeConcatenation
        <4> QED
          BY <4>2 DEF front
      <3>9. {<<"check", i>>, <<"prepare", i>>} \subseteq Range((check \o rest) \o prepare)
        BY <3>4, <3>7, <3>8
      <3> QED
        BY <3>5, <3>6, <3>9
    <2> QED
      BY <2>1, <2>2
  <1> HIDE DEF T
  <1>5. ASSUME NEW x \in V, NEW d \in Controllers
        PROVE  /\ Turn(x)[d] \in Seq(T)
               /\ \A i \in Range(Uses[d]) : ChainedInterface(m, i) =>
                     {<<"check", i>>, <<"prepare", i>>} \subseteq Range(Turn(x)[d])
    <2>1. Pieces(x, d) \in Seq(Seq(T)) /\ DOMAIN Pieces(x, d) = DOMAIN Uses[d]
      <3>1. \A k \in DOMAIN Uses[d] : StepsFor(m, x, Uses[d][k]) \in Seq(T)
        BY <1>3, <1>4
      <3>2. Len(Uses[d]) \in Nat /\ DOMAIN Uses[d] = 1 .. Len(Uses[d])
        BY <1>3
      <3> HIDE DEF V
      <3> QED
        BY <3>1, <3>2
    <2>2. \A k \in DOMAIN Uses[d] : Pieces(x, d)[k] = StepsFor(m, x, Uses[d][k])
      OBVIOUS
    <2>3. Turn(x)[d] = FlattenSeq(Pieces(x, d))
      BY DEF StepsOfLonger
    <2> HIDE DEF Pieces, Turn
    <2>4. /\ FlattenSeq(Pieces(x, d)) \in Seq(T)
          /\ \A k \in DOMAIN Pieces(x, d) : Range(Pieces(x, d)[k]) \subseteq Range(FlattenSeq(Pieces(x, d)))
      BY <2>1, FlatIsWhole
    <2>5. ASSUME NEW i \in Range(Uses[d]), ChainedInterface(m, i)
          PROVE  {<<"check", i>>, <<"prepare", i>>} \subseteq Range(FlattenSeq(Pieces(x, d)))
      <3>1. PICK k \in DOMAIN Uses[d] : i = Uses[d][k]
        BY DEF Range
      <3>2. {<<"check", i>>, <<"prepare", i>>} \subseteq Range(StepsFor(m, x, i))
        BY <1>3, <1>4, <2>5, <3>1
      <3> QED
        BY <2>1, <2>2, <2>4, <3>1, <3>2
    <2> QED
      BY <2>3, <2>4, <2>5
  <1>0. ASSUME NEW x \in V PROVE Turn(x) \in V
    BY <1>5 DEF StepsOfLonger
  <1>6. a \in V /\ IsTurn(F, n, V) /\ \A k \in 1 .. n, x \in V : F[<<k, x>>] = Turn(x)
    <2>1. a \in V
      OBVIOUS
    <2> HIDE DEF Turn, V
    <2> QED
      BY <1>0, <2>1 DEF IsTurn
  <1>7. ASSUME NEW g, NEW k \in 1 .. n
        PROVE  Loop_(g)[0] = a /\ Loop_(g)[k] = Turn(g[k - 1])
    <2> HIDE DEF a, Turn
    <2> QED
      BY <1>1
  <1>8. \A g : Loop_(g) = [k \in 0 .. n |-> Loop_(g)[k]]
    OBVIOUS
  <1> HIDE DEF n, V, a, Turn, F, Loop_
  <1>9. PICK g : IsRun(g, n, V, a, F)
    BY <1>1, <1>6, LoopRuns
  <1>10. g = Loop_(g)
    <2>1. g = [k \in 0 .. n |-> g[k]]
      BY <1>9 DEF IsRun
    <2>2. ASSUME NEW k \in 0 .. n PROVE g[k] = Loop_(g)[k]
      <3>1. k = 0 \/ (k \in 1 .. n /\ k - 1 \in 0 .. n)
        BY <1>1
      <3>2. CASE k = 0
        BY <1>1, <1>9, <3>2 DEF IsRun, Loop_
      <3>3. CASE k \in 1 .. n /\ k - 1 \in 0 .. n
        <4>1. g[k] = F[<<k, g[k - 1]>>] /\ g[k - 1] \in V
          BY <1>9, <3>3 DEF IsRun
        <4>2. F[<<k, g[k - 1]>>] = Turn(g[k - 1])
          BY <1>6, <3>3, <4>1
        <4> QED
          BY <1>7, <3>3, <4>1, <4>2
      <3> QED
        BY <3>1, <3>2, <3>3
    <2> QED
      BY <1>8, <2>1, <2>2
  <1>11. PICK steps : steps = Loop_(steps) /\ FollowingSteps(m) = steps[n]
    BY <1>2, <1>10
  <1>12. steps[0] = a /\ \A k \in 1 .. n : steps[k] = Turn(steps[k - 1])
    <2>1. ASSUME NEW x, NEW y, x = Loop_(y)
          PROVE  x[0] = a /\ \A k \in 1 .. n : x[k] = Turn(y[k - 1])
      BY <1>1, <2>1 DEF Loop_
    <2> QED
      BY <1>11, <2>1
  <1>13. \A k \in 0 .. n : steps[k] \in V
    <2> DEFINE W == [k \in 0 .. n |-> V]
    <2>1. steps[0] \in W[0] /\ \A k \in 0 .. n : W[k] = V
      BY <1>1, <1>6, <1>12
    <2>2. ASSUME NEW k \in 1 .. n, steps[k - 1] \in W[k - 1] PROVE steps[k] \in W[k]
      <3>1. k - 1 \in 0 .. n /\ k \in 0 .. n
        BY <1>1
      <3>2. steps[k - 1] \in V /\ steps[k] = Turn(steps[k - 1])
        BY <1>12, <2>1, <2>2, <3>1
      <3> QED
        BY <1>0, <2>1, <3>1, <3>2
    <2> HIDE DEF W
    <2> QED
      BY <1>1, <2>1, <2>2, LoopInvariant
  <1>14. CASE n = 0
    <2>1. FollowingSteps(m)[c] = <<>>
      BY <1>11, <1>12, <1>14 DEF a
    <2>2. ASSUME NEW i PROVE ~ChainedInterface(m, i)
      <3>1. Range(m.list) = {}
        BY <1>14 DEF n, Range
      <3> QED
        BY <3>1 DEF ChainedInterface, Loaded
    <2> QED
      BY <2>1, <2>2
  <1>15. CASE n /= 0
    <2>1. n \in 1 .. n /\ n - 1 \in 0 .. n
      BY <1>1, <1>15
    <2>2. steps[n - 1] \in V /\ FollowingSteps(m) = Turn(steps[n - 1])
      BY <1>11, <1>12, <1>13, <2>1
    <2> QED
      BY <1>5, <2>2 DEF T
  <1> QED
    BY <1>14, <1>15

\* What the checks of a request r may do to it: q is r with fewer controllers to switch, more
\* interfaces available, and more controllers switched to and left in chained mode.
Narrows(r, q) ==
    /\ q \in Requests
    /\ Range(q.act) \subseteq Range(r.act) /\ Range(q.deact) \subseteq Range(r.deact)
    /\ r.available \subseteq q.available
    /\ r.to \subseteq q.to /\ q.from \subseteq r.from

\* The controllers that c commands will be in chained mode, and those that are active go on.
IsReady(m, r, c) ==
    \A i \in Commands(c) : ChainedInterface(m, i) =>
       Prepared(m, r, i) /\ (m.state[Exporter[i]] = "active" => Exporter[i] \notin Range(r.deact))

\* Those of an inactive controller that is activated.
ReadyIfInactive(m, r, c) == m.state[c] = "inactive" => IsReady(m, r, c)

\* Later checks do not undo this.
LEMMA StaysReady ==
    ASSUME NEW m, NEW r, NEW q, NEW c, Narrows(r, q), ReadyIfInactive(m, r, c)
    PROVE  ReadyIfInactive(m, q, c)
  BY DEF Narrows, ReadyIfInactive, IsReady, Prepared

\* What a strict switch demands of a controller to activate.
MayActivate(m, r, c) ==
    \/ m.state[c] = "active" /\ c \in Range(r.deact)
    \/ /\ m.state[c] = "inactive"
       /\ \A i \in Range(Uses[c]) : ChainedInterface(m, i) => WillBeActive(m, r, Exporter[i])

\* The check of the following controllers: only if each of them is going to be active
\* does it not fail.
LEMMA FollowingAreChecked ==
    ASSUME NEW m, m.list \in Seq(Controllers), NEW r \in Requests, NEW c \in Controllers
    PROVE  LET q == check_following_controllers_for_activate(m, r, c) IN
           /\ q \in Requests
           /\ q.act = r.act /\ q.deact = r.deact /\ q.users = r.users
           /\ r.available \subseteq q.available
           /\ r.to \subseteq q.to /\ q.from \subseteq r.from
           /\ q.status = "ok" =>
                 /\ r.status = "ok"
                 /\ \A i \in Range(Uses[c]) : ChainedInterface(m, i) => WillBeActive(m, r, Exporter[i])
                 /\ IsReady(m, q, c)
  <1> DEFINE steps == FollowingSteps(m)[c]
             n == Len(steps)
             Turn(k, x) == FollowingStep(m, x, steps[k])
             Loop_(g) == [k \in 0 .. n |-> IF k = 0 THEN r ELSE Turn(k, g[k - 1])]
             F == [p \in (1 .. n) \X Requests |-> Turn(p[1], p[2])]
             Same(q) == /\ q \in Requests
                        /\ q.act = r.act /\ q.deact = r.deact /\ q.users = r.users
                        /\ r.available \subseteq q.available
                        /\ r.to \subseteq q.to /\ q.from \subseteq r.from
             Good(q, k) == q.status = "ok" =>
                              /\ r.status = "ok"
                              /\ \A j \in 1 .. k :
                                    /\ steps[j][1] = "check" => WillBeActive(m, r, Exporter[steps[j][2]])
                                    /\ steps[j][1] = "prepare" /\ steps[j][2] \in CommandInterfaces =>
                                          Prepared(m, q, steps[j][2])
  <1>1. /\ n \in Nat /\ \A k \in 1 .. n : steps[k] \in Steps(m)
        /\ Range(steps) = { steps[k] : k \in 1 .. n }
        /\ \A i \in Range(Uses[c]) : ChainedInterface(m, i) =>
              {<<"check", i>>, <<"prepare", i>>} \subseteq Range(steps)
    BY FollowingStepsAre, RangeEquality
  <1>2. check_following_controllers_for_activate(m, r, c) = (CHOOSE g : g = Loop_(g))[n]
    BY DEF check_following_controllers_for_activate
  <1> HIDE DEF steps, n
  <1>3. ASSUME NEW k \in 1 .. n, NEW x \in Requests
        PROVE  /\ Turn(k, x) \in Requests /\ F[<<k, x>>] = Turn(k, x)
               /\ Turn(k, x).act = x.act /\ Turn(k, x).deact = x.deact /\ Turn(k, x).users = x.users
               /\ x.available \subseteq Turn(k, x).available
               /\ x.to \subseteq Turn(k, x).to /\ Turn(k, x).from \subseteq x.from
               /\ Turn(k, x).status = "ok" =>
                     /\ x.status = "ok"
                     /\ steps[k][1] = "check" => WillBeActive(m, x, Exporter[steps[k][2]])
                     /\ steps[k][1] = "prepare" /\ steps[k][2] \in CommandInterfaces =>
                           Prepared(m, Turn(k, x), steps[k][2])
    BY <1>1, FollowingStepDoes
  <1>4. IsTurn(F, n, Requests)
    BY <1>3 DEF IsTurn
  <1> HIDE DEF Turn, F
  <1>5. PICK g : IsRun(g, n, Requests, r, F)
    BY <1>1, <1>4, LoopRuns
  <1>6. g = Loop_(g)
    <2>1. ASSUME NEW k \in 0 .. n PROVE g[k] = IF k = 0 THEN r ELSE Turn(k, g[k - 1])
      <3>1. k = 0 \/ (k \in 1 .. n /\ k - 1 \in 0 .. n)
        BY <1>1
      <3>2. CASE k \in 1 .. n /\ k - 1 \in 0 .. n
        <4>1. g[k] = F[<<k, g[k - 1]>>] /\ g[k - 1] \in Requests
          BY <1>5, <3>2 DEF IsRun
        <4> QED
          BY <1>1, <1>3, <3>2, <4>1
      <3> QED
        BY <1>5, <3>1, <3>2 DEF IsRun
    <2> QED
      BY <1>5, <2>1 DEF IsRun
  <1>7. PICK after : after = Loop_(after) /\ check_following_controllers_for_activate(m, r, c) = after[n]
    BY <1>2, <1>6
  <1>8. after[0] = r /\ \A k \in 1 .. n : after[k] = Turn(k, after[k - 1])
    <2>1. ASSUME NEW h, NEW e, h = Loop_(e)
          PROVE  h[0] = r /\ \A k \in 1 .. n : h[k] = Turn(k, e[k - 1])
      BY <1>1, <2>1
    <2> QED
      BY <1>7, <2>1
  <1> DEFINE W == [k \in 0 .. n |-> { q \in Requests : Same(q) /\ Good(q, k) }]
  <1>9. after[0] \in W[0]
    BY <1>1, <1>8
  <1>10. ASSUME NEW k \in 1 .. n, after[k - 1] \in W[k - 1] PROVE after[k] \in W[k]
    <2>1. k - 1 \in 0 .. n /\ k \in 0 .. n /\ \A j \in 1 .. k : j = k \/ j \in 1 .. k - 1
      BY <1>1
    <2>2. Same(after[k - 1]) /\ Good(after[k - 1], k - 1)
      BY <1>10, <2>1
    <2> DEFINE x == after[k - 1]
               y == after[k]
    <2>3. /\ y \in Requests
          /\ y.act = x.act /\ y.deact = x.deact /\ y.users = x.users
          /\ x.available \subseteq y.available
          /\ x.to \subseteq y.to /\ y.from \subseteq x.from
          /\ y.status = "ok" =>
                /\ x.status = "ok"
                /\ steps[k][1] = "check" => WillBeActive(m, x, Exporter[steps[k][2]])
                /\ steps[k][1] = "prepare" /\ steps[k][2] \in CommandInterfaces => Prepared(m, y, steps[k][2])
      <3>1. x \in Requests /\ y = Turn(k, x)
        BY <1>8, <2>2
      <3> HIDE DEF x, y
      <3> QED
        BY <1>3, <3>1
    <2> HIDE DEF x, y
    <2>4. Same(x) /\ Good(x, k - 1)
      BY <2>2 DEF x
    <2>5. WillBeActive(m, x, Exporter[steps[k][2]]) <=> WillBeActive(m, r, Exporter[steps[k][2]])
      BY <2>4 DEF WillBeActive
    <2>6. Same(y)
      BY <2>3, <2>4
    <2>8. ASSUME NEW i, Prepared(m, x, i) PROVE Prepared(m, y, i)
      BY <2>3, <2>8 DEF Prepared
    <2>7. Good(y, k)
      BY <2>1, <2>3, <2>4, <2>5, <2>8
    <2> QED
      BY <2>1, <2>6, <2>7 DEF y
  <1>11. Same(after[n]) /\ Good(after[n], n)
    <2>1. \A k \in 0 .. n : W[k] = { q \in Requests : Same(q) /\ Good(q, k) }
      OBVIOUS
    <2> HIDE DEF W, Same, Good
    <2>2. \A k \in 0 .. n : after[k] \in W[k]
      BY <1>1, <1>9, <1>10, LoopInvariant
    <2> QED
      BY <1>1, <2>1, <2>2
  <1>12. ASSUME after[n].status = "ok", NEW i \in Range(Uses[c]), ChainedInterface(m, i)
         PROVE  WillBeActive(m, r, Exporter[i])
    <2>1. PICK k \in 1 .. n : steps[k] = <<"check", i>>
      BY <1>1, <1>12
    <2> QED
      BY <1>11, <1>12, <2>1
  <1>13. ASSUME after[n].status = "ok" PROVE IsReady(m, after[n], c)
    <2> SUFFICES ASSUME NEW i \in Commands(c), ChainedInterface(m, i)
                 PROVE  /\ Prepared(m, after[n], i)
                        /\ m.state[Exporter[i]] = "active" => Exporter[i] \notin Range(after[n].deact)
      BY DEF IsReady
    <2>1. i \in Range(Uses[c]) /\ i \in CommandInterfaces
      BY DEF Commands
    <2>2. PICK k \in 1 .. n : steps[k] = <<"prepare", i>>
      BY <1>1, <2>1
    <2>3. Prepared(m, after[n], i)
      BY <1>11, <1>13, <2>1, <2>2
    <2>4. WillBeActive(m, r, Exporter[i])
      BY <1>12, <1>13, <2>1
    <2> QED
      BY <1>11, <2>3, <2>4 DEF WillBeActive
  <1> QED
    BY <1>7, <1>11, <1>12, <1>13

\* What a request loses, without an element.
LEMMA WithoutIs ==
    ASSUME NEW s \in Seq(Controllers), NEW c
    PROVE  Without(s, c) \in Seq(Controllers) /\ Range(Without(s, c)) = Range(s) \ {c}
  BY ThoseAre DEF Without

\* What a strict switch demands of a controller to deactivate.
MayDeactivate(m, r, c) ==
    m.state[c] = "active" /\ check_preceding_controllers_for_deactivate(m, r, c)

\* One controller to activate.
LEMMA CheckActivateDoes ==
    ASSUME NEW m, m.list \in Seq(Controllers), NEW r \in Requests, NEW strict \in BOOLEAN,
           NEW c \in Controllers
    PROVE  LET q == CheckActivate(m, r, strict, c) IN
           /\ Narrows(r, q)
           /\ q.status = "ok" => r.status = "ok" /\ (c \in Range(q.act) => ReadyIfInactive(m, q, c))
           /\ strict /\ q.status = "ok" => q.act = r.act /\ q.deact = r.deact /\ MayActivate(m, r, c)
  <1> DEFINE Same(q) == /\ q \in Requests
                        /\ q.act = r.act /\ q.deact = r.deact /\ q.users = r.users
                        /\ r.available \subseteq q.available
                        /\ r.to \subseteq q.to /\ q.from \subseteq r.from
             checked == CheckState(m, r, c)
             ready == CheckFallback(m, checked, c)
  <1>1. CASE r.status /= "ok"
    BY <1>1 DEF CheckActivate, Narrows
  <1>2. CASE r.status = "ok"
    <2>1. Same(checked) /\ (checked.status = "ok" => MayActivate(m, r, c) /\ ReadyIfInactive(m, checked, c))
      <3>1. CASE m.state[c] = "inactive"
        <4>1. checked = check_following_controllers_for_activate(m, r, c)
          BY <3>1 DEF CheckState
        <4> QED
          BY <3>1, <4>1, FollowingAreChecked DEF MayActivate, ReadyIfInactive
      <3>2. CASE m.state[c] = "active" /\ c \in Range(r.deact)
        <4>1. checked = r
          BY <3>2 DEF CheckState
        <4> QED
          BY <3>2, <4>1 DEF MayActivate, ReadyIfInactive
      <3>3. CASE ~(m.state[c] = "inactive" \/ (m.state[c] = "active" /\ c \in Range(r.deact)))
        <4>1. checked = [r EXCEPT !.status = "error"]
          BY <3>3 DEF CheckState
        <4> HIDE DEF checked
        <4> QED
          BY <4>1 DEF Statuses, Requests
      <3> QED
        BY <3>1, <3>2, <3>3
    <2> HIDE DEF checked
    <2>2. Same(ready) /\ (ready.status = "ok" => ready = checked /\ checked.status = "ok")
      <3>1. ready = checked \/ ready = [checked EXCEPT !.status = "error"]
        BY DEF CheckFallback, check_fallback_controllers_state_pre_activation
      <3> HIDE DEF ready
      <3>2. CASE ready = [checked EXCEPT !.status = "error"]
        BY <2>1, <3>2 DEF Statuses, Requests
      <3> QED
        BY <2>1, <3>1, <3>2
    <2>3. CheckActivate(m, r, strict, c) = OrWithout(ready, strict, c)
      BY <1>2 DEF CheckActivate, checked
    <2> HIDE DEF ready
    <2>4. CASE ready.status = "error" /\ ~strict
      <3>1. OrWithout(ready, strict, c) = [ready EXCEPT !.status = "ok", !.act = Without(@, c)]
        BY <2>4 DEF OrWithout
      <3>2. Without(ready.act, c) \in Seq(Controllers) /\ Range(Without(ready.act, c)) = Range(ready.act) \ {c}
        BY <2>2, WithoutIs DEF Requests
      <3>3. Narrows(r, OrWithout(ready, strict, c)) /\ c \notin Range(OrWithout(ready, strict, c).act)
        BY <2>2, <3>1, <3>2 DEF Narrows, Requests, Statuses
      <3> QED
        BY <1>2, <2>3, <2>4, <3>3
    <2>5. CASE ~(ready.status = "error" /\ ~strict)
      <3>1. OrWithout(ready, strict, c) = ready
        BY <2>5 DEF OrWithout
      <3> QED
        BY <1>2, <2>1, <2>2, <2>3, <3>1 DEF Narrows
    <2> QED
      BY <2>4, <2>5
  <1> QED
    BY <1>1, <1>2

\* One controller to deactivate.
LEMMA CheckDeactivateDoes ==
    ASSUME NEW m, NEW r \in Requests, NEW strict \in BOOLEAN, NEW c \in Controllers
    PROVE  LET q == CheckDeactivate(m, r, strict, c) IN
           /\ Narrows(r, q)
           /\ q.status = "ok" => r.status = "ok"
           /\ strict /\ q.status = "ok" => q = r /\ MayDeactivate(m, r, c)
  <1>1. CASE r.status /= "ok" \/ (m.state[c] = "active" /\ check_preceding_controllers_for_deactivate(m, r, c))
    <2>1. CheckDeactivate(m, r, strict, c) = r
      BY <1>1 DEF CheckDeactivate
    <2> QED
      BY <1>1, <2>1 DEF Narrows, MayDeactivate
  <1>2. CASE ~(r.status /= "ok" \/ (m.state[c] = "active" /\ check_preceding_controllers_for_deactivate(m, r, c)))
    <2>1. CASE strict
      <3>1. CheckDeactivate(m, r, strict, c) = [r EXCEPT !.status = "error"]
        BY <1>2, <2>1 DEF CheckDeactivate
      <3> QED
        BY <3>1 DEF Requests, Narrows, Statuses
    <2>2. CASE ~strict
      <3>1. CheckDeactivate(m, r, strict, c) = [r EXCEPT !.deact = Without(@, c)]
        BY <1>2, <2>2 DEF CheckDeactivate
      <3>2. Without(r.deact, c) \in Seq(Controllers) /\ Range(Without(r.deact, c)) \subseteq Range(r.deact)
        BY WithoutIs DEF Requests
      <3> QED
        BY <1>2, <2>2, <3>1, <3>2 DEF Narrows, Requests
    <2> QED
      BY <2>1, <2>2
  <1> QED
    BY <1>1, <1>2

\* One check after the other.
LEMMA NarrowsIsTransitive ==
    ASSUME NEW r, NEW q, NEW p, Narrows(r, q), Narrows(q, p)
    PROVE  Narrows(r, p)
  BY DEF Narrows

\* The loop over the controllers to activate.
LEMMA ActivateListIsChecked ==
    ASSUME NEW m, m.list \in Seq(Controllers), NEW r \in Requests, NEW strict \in BOOLEAN
    PROVE  LET q == CheckActivateList(m, r, strict) IN
           /\ Narrows(r, q)
           /\ q.status = "ok" => r.status = "ok" /\ \A c \in Range(q.act) : ReadyIfInactive(m, q, c)
           /\ strict /\ q.status = "ok" =>
                 /\ q.act = r.act /\ q.deact = r.deact
                 /\ \A c \in Range(r.act) : MayActivate(m, r, c)
  <1> DEFINE n == Len(r.act)
             Turn(k, x) == CheckActivate(m, x, strict, r.act[k])
             Loop_(g) == [k \in 0 .. n |-> IF k = 0 THEN r ELSE Turn(k, g[k - 1])]
             F == [p \in (1 .. n) \X Requests |-> Turn(p[1], p[2])]
             Good(q, k) == strict /\ q.status = "ok" =>
                              /\ q.act = r.act /\ q.deact = r.deact
                              /\ \A j \in 1 .. k : MayActivate(m, r, r.act[j])
             Ready(q, k) == q.status = "ok" =>
                 /\ r.status = "ok"
                 /\ \A j \in 1 .. k : r.act[j] \in Range(q.act) => ReadyIfInactive(m, q, r.act[j])
  <1>1. /\ n \in Nat /\ \A k \in 1 .. n : r.act[k] \in Controllers
        /\ Range(r.act) = { r.act[k] : k \in 1 .. n }
    BY RangeEquality DEF Requests
  <1>2. CheckActivateList(m, r, strict) = (CHOOSE g : g = Loop_(g))[n]
    BY DEF CheckActivateList
  <1> HIDE DEF n
  <1>3. ASSUME NEW k \in 1 .. n, NEW x \in Requests
        PROVE  /\ Turn(k, x) \in Requests /\ F[<<k, x>>] = Turn(k, x)
               /\ Narrows(x, Turn(k, x))
               /\ Turn(k, x).status = "ok" =>
                     /\ x.status = "ok"
                     /\ r.act[k] \in Range(Turn(k, x).act) => ReadyIfInactive(m, Turn(k, x), r.act[k])
               /\ strict /\ Turn(k, x).status = "ok" =>
                     /\ Turn(k, x).act = x.act /\ Turn(k, x).deact = x.deact
                     /\ MayActivate(m, x, r.act[k])
    BY <1>1, CheckActivateDoes DEF Narrows
  <1>4. IsTurn(F, n, Requests)
    BY <1>3 DEF IsTurn
  <1> HIDE DEF Turn, F
  <1>5. PICK g : IsRun(g, n, Requests, r, F)
    BY <1>1, <1>4, LoopRuns
  <1>6. g = Loop_(g)
    <2>1. ASSUME NEW k \in 0 .. n PROVE g[k] = IF k = 0 THEN r ELSE Turn(k, g[k - 1])
      <3>1. k = 0 \/ (k \in 1 .. n /\ k - 1 \in 0 .. n)
        BY <1>1
      <3>2. CASE k \in 1 .. n /\ k - 1 \in 0 .. n
        <4>1. g[k] = F[<<k, g[k - 1]>>] /\ g[k - 1] \in Requests
          BY <1>5, <3>2 DEF IsRun
        <4> QED
          BY <1>1, <1>3, <3>2, <4>1
      <3> QED
        BY <1>5, <3>1, <3>2 DEF IsRun
    <2> QED
      BY <1>5, <2>1 DEF IsRun
  <1>7. PICK after : after = Loop_(after) /\ CheckActivateList(m, r, strict) = after[n]
    BY <1>2, <1>6
  <1>8. after[0] = r /\ \A k \in 1 .. n : after[k] = Turn(k, after[k - 1])
    <2>1. ASSUME NEW h, NEW e, h = Loop_(e)
          PROVE  h[0] = r /\ \A k \in 1 .. n : h[k] = Turn(k, e[k - 1])
      BY <1>1, <2>1
    <2> QED
      BY <1>7, <2>1
  <1> DEFINE W == [k \in 0 .. n |-> { q \in Requests : Narrows(r, q) /\ Good(q, k) /\ Ready(q, k) }]
  <1>9. after[0] \in W[0]
    BY <1>1, <1>8 DEF Narrows
  <1>10. ASSUME NEW k \in 1 .. n, after[k - 1] \in W[k - 1] PROVE after[k] \in W[k]
    <2> DEFINE x == after[k - 1]
               y == after[k]
    <2>1. k - 1 \in 0 .. n /\ k \in 0 .. n /\ \A j \in 1 .. k : j = k \/ j \in 1 .. k - 1
      BY <1>1
    <2>2. x \in Requests /\ Narrows(r, x) /\ Good(x, k - 1) /\ Ready(x, k - 1) /\ y = Turn(k, x)
      BY <1>8, <1>10, <2>1
    <2> HIDE DEF x, y
    <2>3. /\ y \in Requests /\ Narrows(x, y)
          /\ y.status = "ok" =>
                x.status = "ok" /\ (r.act[k] \in Range(y.act) => ReadyIfInactive(m, y, r.act[k]))
          /\ strict /\ y.status = "ok" =>
                y.act = x.act /\ y.deact = x.deact /\ MayActivate(m, x, r.act[k])
      BY <1>3, <2>2
    <2>4. x.act = r.act /\ x.deact = r.deact /\ MayActivate(m, x, r.act[k]) => MayActivate(m, r, r.act[k])
      BY DEF MayActivate, WillBeActive
    <2>5. Narrows(r, y)
      BY <2>2, <2>3, NarrowsIsTransitive
    <2>6. Good(y, k)
      BY <2>1, <2>2, <2>3, <2>4
    <2>7. Ready(y, k)
      <3> SUFFICES ASSUME y.status = "ok", NEW j \in 1 .. k, r.act[j] \in Range(y.act)
                   PROVE  ReadyIfInactive(m, y, r.act[j])
        BY <2>2, <2>3
      <3>1. CASE j = k
        BY <2>3, <3>1
      <3>2. CASE j \in 1 .. k - 1
        <4>1. ReadyIfInactive(m, x, r.act[j])
          BY <2>2, <2>3, <3>2 DEF Narrows
        <4> QED
          BY <2>3, <4>1, StaysReady
      <3> QED
        BY <2>1, <3>1, <3>2
    <2> QED
      BY <2>1, <2>3, <2>5, <2>6, <2>7 DEF y
  <1>11. Narrows(r, after[n]) /\ Good(after[n], n) /\ Ready(after[n], n)
    <2>1. \A k \in 0 .. n : W[k] = { q \in Requests : Narrows(r, q) /\ Good(q, k) /\ Ready(q, k) }
      OBVIOUS
    <2> HIDE DEF W, Good, Ready
    <2>2. \A k \in 0 .. n : after[k] \in W[k]
      BY <1>1, <1>9, <1>10, LoopInvariant
    <2> QED
      BY <1>1, <2>1, <2>2
  <1>12. after[n].status = "ok" => r.status = "ok" /\ \A c \in Range(after[n].act) : ReadyIfInactive(m, after[n], c)
    <2> SUFFICES ASSUME after[n].status = "ok", NEW c \in Range(after[n].act) PROVE ReadyIfInactive(m, after[n], c)
      BY <1>11
    <2>1. PICK j \in 1 .. n : c = r.act[j]
      BY <1>1, <1>11 DEF Narrows
    <2> QED
      BY <1>11, <2>1
  <1> QED
    BY <1>1, <1>7, <1>11, <1>12

\* The loop over the controllers to deactivate.
LEMMA DeactivateListIsChecked ==
    ASSUME NEW m, NEW r \in Requests, NEW strict \in BOOLEAN
    PROVE  LET q == CheckDeactivateList(m, r, strict) IN
           /\ Narrows(r, q)
           /\ q.status = "ok" => r.status = "ok"
           /\ strict /\ q.status = "ok" => q = r /\ \A c \in Range(r.deact) : MayDeactivate(m, r, c)
  <1> DEFINE n == Len(r.deact)
             Turn(k, x) == CheckDeactivate(m, x, strict, r.deact[k])
             Loop_(g) == [k \in 0 .. n |-> IF k = 0 THEN r ELSE Turn(k, g[k - 1])]
             F == [p \in (1 .. n) \X Requests |-> Turn(p[1], p[2])]
             Good(q, k) == /\ q.status = "ok" => r.status = "ok"
                           /\ strict /\ q.status = "ok" =>
                                 q = r /\ \A j \in 1 .. k : MayDeactivate(m, r, r.deact[j])
  <1>1. /\ n \in Nat /\ \A k \in 1 .. n : r.deact[k] \in Controllers
        /\ Range(r.deact) = { r.deact[k] : k \in 1 .. n }
    BY RangeEquality DEF Requests
  <1>2. CheckDeactivateList(m, r, strict) = (CHOOSE g : g = Loop_(g))[n]
    BY DEF CheckDeactivateList
  <1> HIDE DEF n
  <1>3. ASSUME NEW k \in 1 .. n, NEW x \in Requests
        PROVE  /\ Turn(k, x) \in Requests /\ F[<<k, x>>] = Turn(k, x)
               /\ Narrows(x, Turn(k, x))
               /\ Turn(k, x).status = "ok" => x.status = "ok"
               /\ strict /\ Turn(k, x).status = "ok" => Turn(k, x) = x /\ MayDeactivate(m, x, r.deact[k])
    BY <1>1, CheckDeactivateDoes DEF Narrows
  <1>4. IsTurn(F, n, Requests)
    BY <1>3 DEF IsTurn
  <1> HIDE DEF Turn, F
  <1>5. PICK g : IsRun(g, n, Requests, r, F)
    BY <1>1, <1>4, LoopRuns
  <1>6. g = Loop_(g)
    <2>1. ASSUME NEW k \in 0 .. n PROVE g[k] = IF k = 0 THEN r ELSE Turn(k, g[k - 1])
      <3>1. k = 0 \/ (k \in 1 .. n /\ k - 1 \in 0 .. n)
        BY <1>1
      <3>2. CASE k \in 1 .. n /\ k - 1 \in 0 .. n
        <4>1. g[k] = F[<<k, g[k - 1]>>] /\ g[k - 1] \in Requests
          BY <1>5, <3>2 DEF IsRun
        <4> QED
          BY <1>1, <1>3, <3>2, <4>1
      <3> QED
        BY <1>5, <3>1, <3>2 DEF IsRun
    <2> QED
      BY <1>5, <2>1 DEF IsRun
  <1>7. PICK after : after = Loop_(after) /\ CheckDeactivateList(m, r, strict) = after[n]
    BY <1>2, <1>6
  <1>8. after[0] = r /\ \A k \in 1 .. n : after[k] = Turn(k, after[k - 1])
    <2>1. ASSUME NEW h, NEW e, h = Loop_(e)
          PROVE  h[0] = r /\ \A k \in 1 .. n : h[k] = Turn(k, e[k - 1])
      BY <1>1, <2>1
    <2> QED
      BY <1>7, <2>1
  <1> DEFINE W == [k \in 0 .. n |-> { q \in Requests : Narrows(r, q) /\ Good(q, k) }]
  <1>9. after[0] \in W[0]
    BY <1>1, <1>8 DEF Narrows
  <1>10. ASSUME NEW k \in 1 .. n, after[k - 1] \in W[k - 1] PROVE after[k] \in W[k]
    <2> DEFINE x == after[k - 1]
               y == after[k]
    <2>1. k - 1 \in 0 .. n /\ k \in 0 .. n /\ \A j \in 1 .. k : j = k \/ j \in 1 .. k - 1
      BY <1>1
    <2>2. x \in Requests /\ Narrows(r, x) /\ Good(x, k - 1) /\ y = Turn(k, x)
      BY <1>8, <1>10, <2>1
    <2> HIDE DEF x, y
    <2>3. /\ y \in Requests /\ Narrows(x, y)
          /\ y.status = "ok" => x.status = "ok"
          /\ strict /\ y.status = "ok" => y = x /\ MayDeactivate(m, x, r.deact[k])
      BY <1>3, <2>2
    <2>4. Narrows(r, y)
      BY <2>2, <2>3, NarrowsIsTransitive
    <2>5. Good(y, k)
      BY <2>1, <2>2, <2>3
    <2> QED
      BY <2>1, <2>3, <2>4, <2>5 DEF y
  <1>11. Narrows(r, after[n]) /\ Good(after[n], n)
    <2>1. \A k \in 0 .. n : W[k] = { q \in Requests : Narrows(r, q) /\ Good(q, k) }
      OBVIOUS
    <2> HIDE DEF W, Good
    <2>2. \A k \in 0 .. n : after[k] \in W[k]
      BY <1>1, <1>9, <1>10, LoopInvariant
    <2> QED
      BY <1>1, <2>1, <2>2
  <1> QED
    BY <1>1, <1>7, <1>11

\* q is r, or r with c restarted; c is if it is active and changes its chained mode.
Restarts(m, r, q, c) ==
    /\ q.to = r.to /\ q.from = r.from
    /\ c \in r.to \cup r.from /\ m.state[c] = "active" => c \in Range(q.deact)
    /\ \/ q.act = r.act /\ q.deact = r.deact
       \/ /\ Range(q.act) = Range(r.act) \cup {c}
          /\ Range(q.deact) = Range(r.deact) \cup {c}
          /\ m.state[c] = "active" /\ c \in r.to \cup r.from

\* A restart adds the controller to both lists, or does nothing.
LEMMA RestartDoes ==
    ASSUME NEW m, NEW r \in Requests, NEW c \in Controllers
    PROVE  LET q == Restart(m, r, c) IN
           /\ q \in Requests
           /\ q.available = r.available /\ q.users = r.users /\ q.status = r.status
           /\ Restarts(m, r, q, c)
  <1> DEFINE q == [r EXCEPT !.deact = Append(@, c), !.act = Append(@, c)]
             restarts == c \in r.to \cup r.from /\ m.state[c] = "active" /\ c \notin Range(r.deact)
  <1>1. Restart(m, r, c) = IF restarts THEN q ELSE r
    BY DEF Restart
  <1>2. r.act \in Seq(Controllers) /\ r.deact \in Seq(Controllers)
    BY DEF Requests
  <1>3. /\ q \in Requests
        /\ q.available = r.available /\ q.users = r.users /\ q.status = r.status
        /\ q.act = Append(r.act, c) /\ q.deact = Append(r.deact, c)
        /\ q.to = r.to /\ q.from = r.from
    <2>1. Append(r.act, c) \in Seq(Controllers) /\ Append(r.deact, c) \in Seq(Controllers)
      BY <1>2
    <2> QED
      BY <2>1 DEF Requests
  <1>4. /\ Range(Append(r.act, c)) = Range(r.act) \cup {c}
        /\ Range(Append(r.deact, c)) = Range(r.deact) \cup {c}
    BY <1>2, RangeOfAppend
  <1>5. /\ restarts => m.state[c] = "active" /\ c \in r.to \cup r.from
        /\ ~restarts => (c \in r.to \cup r.from /\ m.state[c] = "active" => c \in Range(r.deact))
    OBVIOUS
  <1> HIDE DEF q, restarts
  <1> QED
    BY <1>1, <1>3, <1>4, <1>5 DEF Restarts

\* What is only activated is inactive, and who changes its chained mode is stopped.
IsResolved(m, q, c) ==
    /\ c \in Range(q.act) \ Range(q.deact) => m.state[c] = "inactive"
    /\ c \in q.to \cup q.from /\ m.state[c] = "active" => c \in Range(q.deact)

\* A request q with no other controllers than those of r, but for restarts.
AddsRestarts(m, r, q) ==
    /\ q.to = r.to /\ q.from = r.from
    /\ \A c \in Range(q.act) \ Range(r.act) : m.state[c] = "active"
    /\ \A c \in Range(q.deact) \ Range(r.deact) : c \in r.to \cup r.from

\* What the loop makes of a controller of the list: it may be restarted, it is dropped from
\* the lists, or a strict switch ends.
Resolves(m, r, q, strict, c) ==
    /\ q \in Requests
    /\ q.available = r.available /\ r.users \subseteq q.users
    /\ AddsRestarts(m, r, q)
    /\ \A d : d /= c => (d \in Range(q.act) <=> d \in Range(r.act)) /\ (d \in Range(q.deact) <=> d \in Range(r.deact))
    /\ q.status = "ok" => IsResolved(m, q, c)
    /\ Range(q.act) \subseteq Range(r.act) \cup {c}
    /\ Range(q.deact) \subseteq Range(r.deact) \cup {c}
    /\ q.status = "ok" => r.status = "ok" /\ (c \in Range(q.act) => c \in q.users)
    /\ strict /\ q.status = "ok" => Restarts(m, r, q, c)

\* One controller of the list.
LEMMA ResolveConflictDoes ==
    ASSUME NEW m, NEW r \in Requests, NEW strict \in BOOLEAN, NEW c \in Controllers
    PROVE  Resolves(m, r, ResolveConflict(m, r, strict, c), strict, c)
  <1> DEFINE p == Restart(m, r, c)
             stops == c \in Range(p.deact) /\ m.state[c] = "active"
             double_stop == c \in Range(p.deact) /\ m.state[c] /= "active"
             illegal == c \in Range(p.act) /\ ~stops /\ m.state[c] /= "inactive"
             deact == IF double_stop THEN Without(p.deact, c) ELSE p.deact
             act == IF illegal THEN Without(p.act, c) ELSE p.act
             users == IF c \in Range(p.act) /\ ~illegal THEN p.users \cup {c} ELSE p.users
             dropped == [p EXCEPT !.deact = deact, !.act = act, !.users = users]
  <1>1. CASE r.status /= "ok"
    BY <1>1 DEF ResolveConflict, Resolves, AddsRestarts
  <1>2. CASE r.status = "ok"
    <2>1. /\ p \in Requests
          /\ p.available = r.available /\ p.users = r.users /\ p.status = r.status
          /\ Restarts(m, r, p, c)
      BY RestartDoes
    <2>2. ResolveConflict(m, r, strict, c) =
             IF strict /\ (double_stop \/ illegal) THEN [p EXCEPT !.status = "error"] ELSE dropped
      BY <1>2 DEF ResolveConflict, DropConflicts
    <2> HIDE DEF p
    <2>3. /\ act \in Seq(Controllers) /\ deact \in Seq(Controllers)
          /\ Range(act) = IF illegal THEN Range(p.act) \ {c} ELSE Range(p.act)
          /\ Range(deact) = IF double_stop THEN Range(p.deact) \ {c} ELSE Range(p.deact)
      BY <2>1, WithoutIs DEF Requests
    <2>4. c \in Range(act) => c \in Range(p.act) /\ ~illegal
      <3> HIDE DEF illegal, act
      <3> QED
        BY <2>3
    <2>7. /\ \A d : d /= c => (d \in Range(act) <=> d \in Range(r.act)) /\ (d \in Range(deact) <=> d \in Range(r.deact))
          /\ c \in Range(act) \ Range(r.act) => m.state[c] = "active"
          /\ c \in Range(deact) \ Range(r.deact) => c \in r.to \cup r.from
      <3> HIDE DEF illegal, double_stop, act, deact
      <3> QED
        BY <2>1, <2>3 DEF Restarts
    <2>8. /\ c \in Range(act) \ Range(deact) => m.state[c] = "inactive"
          /\ c \in p.to \cup p.from /\ m.state[c] = "active" => c \in Range(deact)
      <3>1. c \in p.to \cup p.from /\ m.state[c] = "active" => c \in Range(p.deact)
        BY <2>1 DEF Restarts
      <3> HIDE DEF act, deact
      <3> QED
        BY <2>3, <2>4, <3>1
    <2>5. CASE strict /\ (double_stop \/ illegal)
      <3>1. ResolveConflict(m, r, strict, c) = [p EXCEPT !.status = "error"]
        BY <2>2, <2>5
      <3> DEFINE q == [p EXCEPT !.status = "error"]
      <3>2. /\ q \in Requests /\ q.status = "error"
            /\ q.act = p.act /\ q.deact = p.deact /\ q.to = p.to /\ q.from = p.from
            /\ q.available = p.available /\ q.users = p.users
        BY <2>1 DEF Requests, Statuses
      <3> HIDE DEF q
      <3>3. AddsRestarts(m, r, q)
        BY <2>1, <3>2 DEF AddsRestarts, Restarts
      <3> QED
        BY <2>1, <3>1, <3>2, <3>3 DEF Restarts, Resolves, q
    <2>6. CASE ~(strict /\ (double_stop \/ illegal))
      <3>1. ResolveConflict(m, r, strict, c) = dropped
        BY <2>2, <2>6
      <3>2. strict => act = p.act /\ deact = p.deact
        BY <2>6
      <3>3. c \in Range(act) => c \in users
        BY <2>4
      <3>4. users \in SUBSET Controllers /\ p.users \subseteq users
        BY <2>1 DEF Requests
      <3>6. Range(act) \subseteq Range(p.act) /\ Range(deact) \subseteq Range(p.deact)
        BY <2>3
      <3> HIDE DEF act, deact, users
      <3>5. /\ dropped \in Requests
            /\ dropped.act = act /\ dropped.deact = deact /\ dropped.users = users
            /\ dropped.to = p.to /\ dropped.from = p.from
            /\ dropped.available = p.available /\ dropped.status = p.status
        BY <2>1, <2>3, <3>4 DEF Requests
      <3> HIDE DEF dropped
      <3>7. p.to = r.to /\ p.from = r.from
        BY <2>1 DEF Restarts
      <3>8. AddsRestarts(m, r, dropped)
        BY <2>7, <3>5, <3>7 DEF AddsRestarts
      <3>9. IsResolved(m, dropped, c)
        BY <2>8, <3>5 DEF IsResolved
      <3>10. strict => Restarts(m, r, dropped, c)
        BY <2>1, <3>2, <3>5 DEF Restarts
      <3>11. /\ Range(dropped.act) \subseteq Range(r.act) \cup {c}
             /\ Range(dropped.deact) \subseteq Range(r.deact) \cup {c}
        BY <2>1, <3>5, <3>6 DEF Restarts
      <3> QED
        BY <1>2, <2>1, <2>7, <3>1, <3>3, <3>4, <3>5, <3>8, <3>9, <3>10, <3>11 DEF Resolves
    <2> QED
      BY <2>5, <2>6
  <1> QED
    BY <1>1, <1>2

\* The loop over the controllers of the list.
ResolvesAll(m, r, q, strict) ==
    /\ q \in Requests
    /\ q.available = r.available
    /\ Range(q.act) \cup Range(q.deact) \subseteq Range(m.list)
    /\ AddsRestarts(m, r, q)
    /\ q.status = "ok" => /\ r.status = "ok" /\ Range(q.act) \subseteq q.users
                          /\ \A c \in Range(m.list) : IsResolved(m, q, c)
    /\ strict /\ q.status = "ok" =>
          /\ Range(r.act) \subseteq Range(q.act) /\ Range(r.deact) \subseteq Range(q.deact)
          /\ \A c \in (Range(q.act) \ Range(r.act)) \cup (Range(q.deact) \ Range(r.deact)) :
                c \in Range(q.act) /\ c \in Range(q.deact) /\ m.state[c] = "active"

\* The loop over the list: what it adds to a strict request is restarted.
LEMMA ConflictsAreResolved ==
    ASSUME NEW m, m.list \in Seq(Controllers), NEW r \in Requests, NEW strict \in BOOLEAN,
           Range(r.act) \cup Range(r.deact) \subseteq Range(m.list)
    PROVE  ResolvesAll(m, r, ResolveConflicts(m, r, strict), strict)
  <1> DEFINE n == Len(m.list)
             Turn(k, x) == ResolveConflict(m, x, strict, m.list[k])
             Loop_(g) == [k \in 0 .. n |-> IF k = 0 THEN r ELSE Turn(k, g[k - 1])]
             F == [p \in (1 .. n) \X Requests |-> Turn(p[1], p[2])]
             Same(q) == /\ q.available = r.available
                        /\ Range(q.act) \cup Range(q.deact) \subseteq Range(m.list)
                        /\ AddsRestarts(m, r, q)
             Noted(q, k) == q.status = "ok" =>
                               /\ r.status = "ok"
                               /\ \A j \in 1 .. k : m.list[j] \in Range(q.act) => m.list[j] \in q.users
                               /\ \A j \in 1 .. k : IsResolved(m, q, m.list[j])
             Grown(q) == strict /\ q.status = "ok" =>
                 /\ Range(r.act) \subseteq Range(q.act) /\ Range(r.deact) \subseteq Range(q.deact)
                 /\ \A c \in (Range(q.act) \ Range(r.act)) \cup (Range(q.deact) \ Range(r.deact)) :
                       c \in Range(q.act) /\ c \in Range(q.deact) /\ m.state[c] = "active"
  <1>1. /\ n \in Nat /\ \A k \in 1 .. n : m.list[k] \in Controllers
        /\ Range(m.list) = { m.list[k] : k \in 1 .. n }
    BY RangeEquality
  <1>2. ResolveConflicts(m, r, strict) = (CHOOSE g : g = Loop_(g))[n]
    BY DEF ResolveConflicts
  <1> HIDE DEF n
  <1>3. ASSUME NEW k \in 1 .. n, NEW x \in Requests
        PROVE  /\ Turn(k, x) \in Requests /\ F[<<k, x>>] = Turn(k, x)
               /\ Resolves(m, x, Turn(k, x), strict, m.list[k])
    <2> DEFINE c == m.list[k]
               y == Turn(k, x)
    <2>1. F[<<k, x>>] = y
      OBVIOUS
    <2>2. c \in Controllers /\ y = ResolveConflict(m, x, strict, c)
      BY <1>1
    <2> HIDE DEF F, Turn, c, y
    <2>3. Resolves(m, x, y, strict, c)
      BY <2>2, ResolveConflictDoes
    <2>4. y \in Requests
      BY <2>3 DEF Resolves
    <2> QED
      BY <2>1, <2>3, <2>4 DEF c, y
  <1>4. IsTurn(F, n, Requests)
    BY <1>3 DEF IsTurn
  <1> HIDE DEF Turn, F
  <1>5. PICK g : IsRun(g, n, Requests, r, F)
    BY <1>1, <1>4, LoopRuns
  <1>6. g = Loop_(g)
    <2>1. ASSUME NEW k \in 0 .. n PROVE g[k] = IF k = 0 THEN r ELSE Turn(k, g[k - 1])
      <3>1. k = 0 \/ (k \in 1 .. n /\ k - 1 \in 0 .. n)
        BY <1>1
      <3>2. CASE k \in 1 .. n /\ k - 1 \in 0 .. n
        <4>1. g[k] = F[<<k, g[k - 1]>>] /\ g[k - 1] \in Requests
          BY <1>5, <3>2 DEF IsRun
        <4> QED
          BY <1>1, <1>3, <3>2, <4>1
      <3> QED
        BY <1>5, <3>1, <3>2 DEF IsRun
    <2> QED
      BY <1>5, <2>1 DEF IsRun
  <1>7. PICK after : after = Loop_(after) /\ ResolveConflicts(m, r, strict) = after[n]
    BY <1>2, <1>6
  <1>8. after[0] = r /\ \A k \in 1 .. n : after[k] = Turn(k, after[k - 1])
    <2>1. ASSUME NEW h, NEW e, h = Loop_(e)
          PROVE  h[0] = r /\ \A k \in 1 .. n : h[k] = Turn(k, e[k - 1])
      BY <1>1, <2>1
    <2> QED
      BY <1>7, <2>1
  <1> DEFINE W == [k \in 0 .. n |-> { q \in Requests : Same(q) /\ Noted(q, k) /\ Grown(q) }]
  <1>9. after[0] \in W[0]
    BY <1>1, <1>8 DEF AddsRestarts
  <1>10. ASSUME NEW k \in 1 .. n, after[k - 1] \in W[k - 1] PROVE after[k] \in W[k]
    <2> DEFINE x == after[k - 1]
               y == after[k]
               c == m.list[k]
    <2>1. k - 1 \in 0 .. n /\ k \in 0 .. n /\ \A j \in 1 .. k : j = k \/ j \in 1 .. k - 1
      BY <1>1
    <2>2. x \in Requests /\ Same(x) /\ Noted(x, k - 1) /\ Grown(x) /\ y = Turn(k, x)
      BY <1>8, <1>10, <2>1
    <2>0. c \in Range(m.list)
      BY <1>1
    <2> HIDE DEF x, y
    <2>7. Resolves(m, x, y, strict, c)
      BY <1>3, <2>2
    <2>3. /\ y \in Requests
          /\ y.available = x.available /\ x.users \subseteq y.users
          /\ AddsRestarts(m, x, y)
          /\ \A d : d /= c => (d \in Range(y.act) <=> d \in Range(x.act)) /\ (d \in Range(y.deact) <=> d \in Range(x.deact))
          /\ Range(y.act) \subseteq Range(x.act) \cup {c}
          /\ Range(y.deact) \subseteq Range(x.deact) \cup {c}
          /\ y.status = "ok" => x.status = "ok" /\ IsResolved(m, y, c) /\ (c \in Range(y.act) => c \in y.users)
          /\ strict /\ y.status = "ok" => Restarts(m, x, y, c)
      BY <2>7 DEF Resolves
    <2>8. AddsRestarts(m, r, y)
      BY <2>2, <2>3 DEF AddsRestarts
    <2>4. Same(y)
      BY <2>0, <2>2, <2>3, <2>8
    <2>5. Noted(y, k)
      <3> SUFFICES ASSUME y.status = "ok", NEW j \in 1 .. k
                   PROVE  (m.list[j] \in Range(y.act) => m.list[j] \in y.users) /\ IsResolved(m, y, m.list[j])
        BY <2>2, <2>3
      <3>1. CASE m.list[j] = c
        BY <2>3, <3>1
      <3>2. CASE m.list[j] /= c
        <4> DEFINE d == m.list[j]
        <4>1. j \in 1 .. k - 1
          BY <2>1, <3>2
        <4>2. (d \in Range(x.act) => d \in x.users) /\ IsResolved(m, x, d)
          BY <2>2, <2>3, <4>1
        <4> HIDE DEF c, d
        <4>3. d /= c
          BY <3>2 DEF d
        <4>4. IsResolved(m, y, d)
          BY <2>3, <4>2, <4>3 DEF IsResolved, AddsRestarts
        <4> QED
          BY <2>3, <4>2, <4>3, <4>4 DEF d
      <3> QED
        BY <3>1, <3>2
    <2>6. Grown(y)
      <3> HIDE DEF c
      <3> QED
        BY <2>2, <2>3 DEF Restarts
    <2> QED
      BY <2>1, <2>3, <2>4, <2>5, <2>6 DEF y
  <1>11. after[n] \in Requests /\ Same(after[n]) /\ Noted(after[n], n) /\ Grown(after[n])
    <2>1. \A k \in 0 .. n : W[k] = { q \in Requests : Same(q) /\ Noted(q, k) /\ Grown(q) }
      OBVIOUS
    <2> HIDE DEF W, Same, Noted, Grown
    <2>2. \A k \in 0 .. n : after[k] \in W[k]
      BY <1>1, <1>9, <1>10, LoopInvariant
    <2> QED
      BY <1>1, <2>1, <2>2
  <1>12. after[n].status = "ok" => /\ Range(after[n].act) \subseteq after[n].users
                                   /\ \A c \in Range(m.list) : IsResolved(m, after[n], c)
    BY <1>1, <1>11
  <1> QED
    BY <1>7, <1>11, <1>12 DEF ResolvesAll

\* The request switch_controller_cb starts from.
IsRequest(m, offered, r) ==
    /\ r \in Requests
    /\ r.available = offered
    /\ Range(r.act) \cup Range(r.deact) \subseteq Range(m.list)

\* The requested lists have only controllers of the list.
LEMMA RequestedIs ==
    ASSUME NEW m, m.list \in Seq(Controllers), NEW offered \in SUBSET Interfaces,
           NEW deactivate \in Seq(Controllers), NEW activate \in Seq(Controllers),
           NEW strict \in BOOLEAN
    PROVE  IsRequest(m, offered, Requested(m, offered, list_controllers(m, strict, deactivate),
                                                       list_controllers(m, strict, activate)))
  <1> DEFINE d == list_controllers(m, strict, deactivate)
             a == list_controllers(m, strict, activate)
             q == [act |-> a.names, deact |-> d.names, to |-> {}, from |-> {},
                   available |-> offered, users |-> {},
                   status |-> IF d.status = "ok" /\ a.status = "ok" THEN "ok" ELSE "error"]
             r == propagate_deactivation_of_chained_mode(m, q)
  <1>1. ASSUME NEW names \in Seq(Controllers)
        PROVE  /\ list_controllers(m, strict, names).names \in Seq(Controllers)
               /\ Range(list_controllers(m, strict, names).names) \subseteq Range(m.list)
    <2>1. list_controllers(m, strict, names).names = Those(names, Range(m.list))
      BY DEF list_controllers, Loaded
    <2> QED
      BY <2>1, ThoseAre
  <1>2. /\ a.names \in Seq(Controllers) /\ Range(a.names) \subseteq Range(m.list)
        /\ d.names \in Seq(Controllers) /\ Range(d.names) \subseteq Range(m.list)
    BY <1>1
  <1> HIDE DEF a, d
  <1>3. q \in Requests
    BY <1>2 DEF Requests, Statuses
  <1>4. PICK seen : r = [q EXCEPT !.from = { Exporter[i] : i \in { j \in UNION { Range(Uses[c]) : c \in seen } :
                                                            ChainedInterface(m, j) } }]
    BY DEF propagate_deactivation_of_chained_mode
  <1> DEFINE from == { Exporter[i] : i \in { j \in UNION { Range(Uses[c]) : c \in seen } : ChainedInterface(m, j) } }
  <1>5. from \subseteq Controllers
    <2>1. Range(m.list) \subseteq Controllers
      BY RangeEquality
    <2>2. from \subseteq Range(m.list)
      BY DEF ChainedInterface, Loaded
    <2> QED
      BY <2>1, <2>2
  <1>6. r = [q EXCEPT !.from = from]
    BY <1>4
  <1> HIDE DEF from, r
  <1>7. /\ r \in Requests
        /\ r.act = q.act /\ r.deact = q.deact /\ r.available = q.available
    BY <1>3, <1>5, <1>6 DEF Requests
  <1>8. Requested(m, offered, list_controllers(m, strict, deactivate), list_controllers(m, strict, activate)) = r
    BY DEF Requested, r, a, d
  <1> QED
    BY <1>2, <1>7, <1>8 DEF IsRequest

\* A request with nothing to switch is not handed over.
LEMMA SettledIs ==
    ASSUME NEW r \in Requests
    PROVE  /\ Settled(r) \in Requests
           /\ Settled(r).act = r.act /\ Settled(r).deact = r.deact
           /\ Settled(r).available = r.available
           /\ Settled(r).status = "ok" => Settled(r) = r
  <1> DEFINE q == [r EXCEPT !.status = "done"]
  <1>1. /\ q \in Requests /\ q.act = r.act /\ q.deact = r.deact
        /\ q.available = r.available /\ q.status = "done"
    BY DEF Requests, Statuses
  <1>2. Settled(r) = q \/ Settled(r) = r
    BY DEF Settled
  <1> HIDE DEF q
  <1> QED
    BY <1>1, <1>2

\* What has been checked of a strict request before it is handed to the loop: whatever is
\* deactivated or restarted is active; whatever is just activated is inactive, and its
\* following controllers are active and not deactivated, or activated too; and when a
\* controller is just deactivated its active preceding controllers are, too.
StrictlyChecked(m, r) ==
    /\ \A c \in Range(r.deact) : m.state[c] = "active"
    /\ \A c \in Range(r.act) \ Range(r.deact) :
          /\ m.state[c] = "inactive"
          /\ \A i \in Range(Uses[c]) : ChainedInterface(m, i) =>
                \/ Exporter[i] \in Range(r.act)
                \/ m.state[Exporter[i]] = "active" /\ Exporter[i] \notin Range(r.deact)
    /\ \A c \in Range(r.deact) \ Range(r.act) :
          \A p \in Preceding(m, c) : m.state[p] = "active" => p \in Range(r.deact)

\* f will be in chained mode: it is stopped if it is active and switched to chained mode, or it
\* is in chained mode, does not leave it and goes on.
StaysChained(m, r, f) ==
    \/ f \in r.to /\ (m.state[f] = "active" => f \in Range(r.deact))
    \/ m.chained[f] /\ f \notin r.from /\ (m.state[f] = "active" => f \notin Range(r.deact))

\* What has been checked of any request: whatever is just activated is inactive, and the
\* controllers that it commands will be in chained mode.
ChainsChecked(m, r) ==
    \A c \in Range(r.act) \ Range(r.deact) :
       /\ m.state[c] = "inactive"
       /\ \A i \in Commands(c) : ChainedInterface(m, i) => StaysChained(m, r, Exporter[i])

\* The checks of switch_controller_cb, all together.
CheckedIs(m, offered, strict, r) ==
    /\ r \in Requests
    /\ offered \subseteq r.available
    /\ r.status = "ok" => /\ Range(r.act) \cup Range(r.deact) \subseteq Range(m.list)
                          /\ Range(r.act) \subseteq r.users
                          /\ ChainsChecked(m, r)
    /\ strict /\ r.status = "ok" => StrictlyChecked(m, r)

\* Whatever is requested: what comes out of the checks has been checked.
LEMMA RequestsAreChecked ==
    ASSUME NEW m, m.list \in Seq(Controllers), NEW offered \in SUBSET Interfaces,
           NEW deactivate \in Seq(Controllers), NEW activate \in Seq(Controllers),
           NEW strict \in BOOLEAN
    PROVE  CheckedIs(m, offered, strict, Checked(m, offered, deactivate, activate, strict))
  <1> DEFINE q0 == Requested(m, offered, list_controllers(m, strict, deactivate),
                                         list_controllers(m, strict, activate))
             q1 == CheckActivateList(m, q0, strict)
             q2 == CheckDeactivateList(m, q1, strict)
             q3 == Settled(q2)
             q4 == ResolveConflicts(m, q3, strict)
             q5 == Settled(q4)
             r == check_for_interfaces_availability_to_activate(m, q5)
  <1>0. Checked(m, offered, deactivate, activate, strict) = r
    BY DEF Checked
  <1>1. /\ q0 \in Requests /\ q0.available = offered
        /\ Range(q0.act) \cup Range(q0.deact) \subseteq Range(m.list)
    <2> HIDE DEF q1, q2, q3, q4, q5, r
    <2>1. IsRequest(m, offered, q0)
      BY RequestedIs
    <2> QED
      BY <2>1 DEF IsRequest
  <1> HIDE DEF q0
  <1>2. /\ Narrows(q0, q1)
        /\ q1.status = "ok" => \A c \in Range(q1.act) : ReadyIfInactive(m, q1, c)
        /\ strict /\ q1.status = "ok" =>
              /\ q1.act = q0.act /\ q1.deact = q0.deact
              /\ \A c \in Range(q0.act) : MayActivate(m, q0, c)
    BY <1>1, ActivateListIsChecked
  <1> HIDE DEF q1
  <1>3. /\ Narrows(q1, q2)
        /\ q2.status = "ok" => q1.status = "ok"
        /\ strict /\ q2.status = "ok" => q2 = q1 /\ \A c \in Range(q1.deact) : MayDeactivate(m, q1, c)
    BY <1>2, DeactivateListIsChecked DEF Narrows
  <1> HIDE DEF q2
  <1>4. /\ q3 \in Requests
        /\ q3.act = q2.act /\ q3.deact = q2.deact /\ q3.available = q2.available
        /\ q3.status = "ok" => q3 = q2
    BY <1>3, SettledIs DEF Narrows
  <1> HIDE DEF q3
  <1>5. Range(q3.act) \cup Range(q3.deact) \subseteq Range(m.list) /\ offered \subseteq q3.available
    BY <1>1, <1>2, <1>3, <1>4 DEF Narrows
  <1>6. /\ q4 \in Requests
        /\ q4.available = q3.available
        /\ Range(q4.act) \cup Range(q4.deact) \subseteq Range(m.list)
        /\ AddsRestarts(m, q3, q4)
        /\ q4.status = "ok" => /\ q3.status = "ok" /\ Range(q4.act) \subseteq q4.users
                              /\ \A c \in Range(m.list) : IsResolved(m, q4, c)
        /\ strict /\ q4.status = "ok" =>
              /\ Range(q3.act) \subseteq Range(q4.act) /\ Range(q3.deact) \subseteq Range(q4.deact)
              /\ \A c \in (Range(q4.act) \ Range(q3.act)) \cup (Range(q4.deact) \ Range(q3.deact)) :
                    c \in Range(q4.act) /\ c \in Range(q4.deact) /\ m.state[c] = "active"
    <2>1. q3 \in Requests /\ Range(q3.act) \cup Range(q3.deact) \subseteq Range(m.list)
      BY <1>4, <1>5
    <2>2. ResolvesAll(m, q3, q4, strict)
      BY <2>1, ConflictsAreResolved
    <2> HIDE DEF q4
    <2> QED
      BY <2>2 DEF ResolvesAll
  <1> HIDE DEF q4
  <1>7. q5 \in Requests /\ q5.available = q4.available /\ (q5.status = "ok" => q5 = q4)
    BY <1>6, SettledIs
  <1> HIDE DEF q5
  <1>8. r \in Requests /\ r.available = q5.available /\ (r.status = "ok" => r = q5)
    <2>1. r = q5 \/ r = [q5 EXCEPT !.status = "exception"] \/ r = [q5 EXCEPT !.status = "error"]
      BY DEF check_for_interfaces_availability_to_activate
    <2> HIDE DEF r
    <2> QED
      BY <1>7, <2>1 DEF Requests, Statuses
  <1> HIDE DEF r
  <1>9. r.status = "ok" => r = q4 /\ q4.status = "ok" /\ q3.status = "ok" /\ q3 = q2
    BY <1>4, <1>6, <1>7, <1>8
  <1>10. ASSUME strict, r.status = "ok" PROVE StrictlyChecked(m, r)
    <2>1. q3 = q0 \/ (q3.act = q0.act /\ q3.deact = q0.deact)
      BY <1>2, <1>3, <1>9, <1>10
    <2>2. /\ \A c \in Range(q3.act) : MayActivate(m, q3, c)
          /\ \A c \in Range(q3.deact) : MayDeactivate(m, q3, c)
      BY <1>2, <1>3, <1>9, <1>10, <2>1 DEF MayActivate, WillBeActive, MayDeactivate, check_preceding_controllers_for_deactivate
    <2>3. /\ r.act = q4.act /\ r.deact = q4.deact
          /\ Range(q3.act) \subseteq Range(q4.act) /\ Range(q3.deact) \subseteq Range(q4.deact)
          /\ \A c \in (Range(q4.act) \ Range(q3.act)) \cup (Range(q4.deact) \ Range(q3.deact)) :
                c \in Range(q4.act) /\ c \in Range(q4.deact) /\ m.state[c] = "active"
      BY <1>6, <1>9, <1>10
    <2>4. \A c \in Range(r.deact) : m.state[c] = "active"
      BY <2>2, <2>3 DEF MayDeactivate
    <2>5. ASSUME NEW c \in Range(r.act) \ Range(r.deact)
          PROVE  /\ m.state[c] = "inactive"
                 /\ \A i \in Range(Uses[c]) : ChainedInterface(m, i) =>
                       \/ Exporter[i] \in Range(r.act)
                       \/ m.state[Exporter[i]] = "active" /\ Exporter[i] \notin Range(r.deact)
      <3>1. c \in Range(q3.act) /\ c \notin Range(q3.deact)
        BY <2>3
      <3>2. /\ m.state[c] = "inactive"
            /\ \A i \in Range(Uses[c]) : ChainedInterface(m, i) => WillBeActive(m, q3, Exporter[i])
        BY <2>2, <3>1 DEF MayActivate
      <3>3. ASSUME NEW i \in Range(Uses[c]), ChainedInterface(m, i)
            PROVE  \/ Exporter[i] \in Range(r.act)
                   \/ m.state[Exporter[i]] = "active" /\ Exporter[i] \notin Range(r.deact)
        <4> DEFINE f == Exporter[i]
        <4>1. IF m.state[f] = "active" THEN f \notin Range(q3.deact) ELSE f \in Range(q3.act)
          BY <3>2, <3>3 DEF WillBeActive
        <4> HIDE DEF f
        <4> QED
          BY <2>3, <4>1 DEF f
      <3> QED
        BY <3>2, <3>3
    <2>6. ASSUME NEW c \in Range(r.deact) \ Range(r.act), NEW p \in Preceding(m, c), m.state[p] = "active"
          PROVE  p \in Range(r.deact)
      <3>1. c \in Range(q3.deact)
        BY <2>3
      <3>2. p \in Range(q3.deact)
        BY <2>2, <2>6, <3>1 DEF MayDeactivate, check_preceding_controllers_for_deactivate
      <3> QED
        BY <2>3, <3>2
    <2> QED
      BY <2>4, <2>5, <2>6 DEF StrictlyChecked
  <1>11. ASSUME r.status = "ok" PROVE ChainsChecked(m, r)
    <2>1. \A c \in Range(q3.act) : ReadyIfInactive(m, q3, c)
      <3>1. q3 = q2 /\ q1.status = "ok" /\ Range(q2.act) \subseteq Range(q1.act)
        BY <1>3, <1>9, <1>11 DEF Narrows
      <3> QED
        BY <1>2, <1>3, <3>1, StaysReady
    <2>2. /\ r = q4 /\ AddsRestarts(m, q3, q4)
          /\ \A c \in Range(m.list) : IsResolved(m, q4, c)
          /\ Range(q4.act) \subseteq Range(m.list)
      BY <1>6, <1>9, <1>11
    <2>3. ASSUME NEW c \in Range(q4.act) \ Range(q4.deact)
          PROVE  m.state[c] = "inactive" /\ IsReady(m, q3, c)
      <3>1. m.state[c] = "inactive"
        BY <2>2, <2>3 DEF IsResolved
      <3>2. c \in Range(q3.act)
        BY <2>2, <2>3, <3>1 DEF AddsRestarts
      <3> QED
        BY <2>1, <3>1, <3>2 DEF ReadyIfInactive
    <2>4. ASSUME NEW c \in Range(q4.act) \ Range(q4.deact), NEW i \in Commands(c), ChainedInterface(m, i)
          PROVE  StaysChained(m, q4, Exporter[i])
      <3> DEFINE f == Exporter[i]
      <3>1. /\ f \in q3.to \/ (m.chained[f] /\ f \notin q3.from)
            /\ m.state[f] = "active" => f \notin Range(q3.deact)
        BY <2>3, <2>4 DEF IsReady, Prepared
      <3>2. /\ q4.to = q3.to /\ q4.from = q3.from
            /\ f \in Range(q4.deact) => f \in Range(q3.deact) \cup q3.to \cup q3.from
            /\ f \in q4.to \cup q4.from /\ m.state[f] = "active" => f \in Range(q4.deact)
        BY <2>2, <2>4 DEF AddsRestarts, IsResolved, ChainedInterface, Loaded
      <3> QED
        BY <3>1, <3>2 DEF StaysChained
    <2> QED
      BY <2>2, <2>3, <2>4 DEF ChainsChecked
  <1> QED
    BY <1>0, <1>5, <1>6, <1>7, <1>8, <1>9, <1>10, <1>11 DEF CheckedIs

-----------------------------------------------------------------------------
(* The claims of command interfaces.                                        *)

\* The calls of activate_controllers have the parts they have; a controller that has its
\* interfaces is the first of those still to be activated.
JobsInv ==
    /\ DOMAIN jobs = Activators
    /\ \A a \in Activators :
          /\ DOMAIN jobs[a] = DOMAIN Idle
          /\ jobs[a].assigned \in BOOLEAN
          /\ jobs[a].assigned => jobs[a].todo /= <<>> /\ jobs[a].doing \in {"activating", "terminated"}

\* Claims and holders are changed together; References of a controller are never
\* interfaces of the hardware.
IInv ==
    /\ state \in [Controllers -> States]
    /\ holds \in [Controllers -> SUBSET CommandInterfaces]
    /\ JobsInv
    /\ HardwareClaims
    /\ OnlyActiveHold

\* Who waits for on_activate goes on waiting.
StillAssigned == \A a \in Activators : Assigned(a) \subseteq Assigned(a)'

\* The interfaces of the hardware whose claims HardwareClaims is about.
HardwareCommands == { i \in CommandInterfaces : Exporter[i] \in Hardware }

\* The names of the parts of a job are those of Idle.
LEMMA PartsAre ==
    DOMAIN Idle = {"doing", "todo", "act", "strict", "failed", "assigned"}
  BY DEF Idle

\* What a job becomes when activate_controllers goes on with the next controller.
LEMMA ProceedDoes ==
    ASSUME JobsInv, NEW a \in Activators, NEW failed, Proceed(a, failed)
    PROVE  /\ JobsInv'
           /\ jobs'[a].doing = jobs[a].doing /\ jobs'[a].act = jobs[a].act
           /\ jobs'[a].strict = jobs[a].strict
           /\ jobs'[a].todo = Tail(jobs[a].todo) /\ ~jobs'[a].assigned
           /\ jobs'[a].failed = (jobs[a].failed \/ failed)
           /\ \A b \in Activators : b /= a => jobs'[b] = jobs[b]
  <1>1. DOMAIN jobs = Activators /\ DOMAIN jobs[a] = DOMAIN Idle
    BY DEF JobsInv
  <1>2. /\ DOMAIN jobs' = Activators
        /\ DOMAIN jobs'[a] = DOMAIN Idle
        /\ jobs'[a].doing = jobs[a].doing /\ jobs'[a].act = jobs[a].act
        /\ jobs'[a].strict = jobs[a].strict
        /\ jobs'[a].todo = Tail(jobs[a].todo) /\ jobs'[a].assigned = FALSE
        /\ jobs'[a].failed = (jobs[a].failed \/ failed)
        /\ \A b \in Activators : b /= a => jobs'[b] = jobs[b]
    BY <1>1, PartsAre DEF Proceed
  <1>3. JobsInv'
    BY <1>2 DEF JobsInv
  <1> QED
    BY <1>2, <1>3

\* The end of the process leaves the jobs where they are.
LEMMA TerminateDoes ==
    ASSUME JobsInv, Terminate
    PROVE  /\ JobsInv' /\ StillAssigned
           /\ \A a \in Activators : jobs'[a].doing = "terminated"
  <1>1. DOMAIN jobs = Activators /\ \A a \in Activators : DOMAIN jobs[a] = DOMAIN Idle
    BY DEF JobsInv
  <1>2. /\ DOMAIN jobs' = Activators
        /\ \A a \in Activators :
              /\ DOMAIN jobs'[a] = DOMAIN Idle
              /\ jobs'[a].doing = "terminated"
              /\ jobs'[a].todo = jobs[a].todo /\ jobs'[a].assigned = jobs[a].assigned
    BY <1>1, PartsAre DEF Terminate
  <1> QED
    BY <1>2 DEF JobsInv, StillAssigned, Assigned

\* A job that has nothing assigned is replaced by another one.
LEMMA ReplaceJob ==
    ASSUME JobsInv, NEW a \in Activators, ~jobs[a].assigned, NEW job, jobs' = [jobs EXCEPT ![a] = job],
           DOMAIN job = DOMAIN Idle, job.assigned = FALSE
    PROVE  /\ JobsInv' /\ StillAssigned
           /\ jobs'[a] = job /\ \A b \in Activators : b /= a => jobs'[b] = jobs[b]
  <1>1. /\ DOMAIN jobs' = Activators /\ jobs'[a] = job
        /\ \A b \in Activators : b /= a => jobs'[b] = jobs[b]
    BY DEF JobsInv
  <1> QED
    BY <1>1 DEF JobsInv, StillAssigned, Assigned

\* Start begins a job or ends the process.
LEMMA StartDoes ==
    ASSUME JobsInv, NEW a \in Activators, jobs[a].doing \in {"nothing", "publishing"},
           NEW controllers, NEW to, NEW from, NEW activate, NEW strictly,
           Start(a, controllers, to, from, activate, strictly)
    PROVE  /\ JobsInv' /\ StillAssigned
           /\ \/ Terminate
              \/ /\ jobs'[a].doing = "activating" /\ jobs'[a].todo = activate /\ jobs'[a].act = activate
                 /\ jobs'[a].strict = strictly /\ jobs'[a].failed = FALSE /\ jobs'[a].assigned = FALSE
                 /\ \A b \in Activators : b /= a => jobs'[b] = jobs[b]
  <1> DEFINE job == [doing |-> "activating", todo |-> activate, act |-> activate, strict |-> strictly,
                     failed |-> FALSE, assigned |-> FALSE]
  <1>1. jobs' = [jobs EXCEPT ![a] = job] \/ Terminate
    BY DEF Start
  <1>2. CASE jobs' = [jobs EXCEPT ![a] = job]
    <2>1. ~jobs[a].assigned
      BY DEF JobsInv
    <2>2. /\ DOMAIN job = DOMAIN Idle
          /\ job.doing = "activating" /\ job.todo = activate /\ job.act = activate
          /\ job.strict = strictly /\ job.failed = FALSE /\ job.assigned = FALSE
      BY PartsAre
    <2> HIDE DEF job
    <2> QED
      BY <1>2, <2>1, <2>2, ReplaceJob
  <1>3. CASE Terminate
    BY <1>3, TerminateDoes
  <1> QED
    BY <1>1, <1>2, <1>3

\* The end of activate_controllers leaves a job idle, or about to publish.
LEMMA FinishDoes ==
    ASSUME JobsInv, NEW a \in Activators, FinishActivation(a)
    PROVE  /\ JobsInv' /\ StillAssigned
           /\ \/ a = "switch" /\ jobs'[a].doing = "nothing"
              \/ a = "update" /\ jobs'[a].doing = "publishing"
           /\ \A b \in Activators : b /= a => jobs'[b] = jobs[b]
  <1>1. ~jobs[a].assigned
    BY DEF FinishActivation, JobsInv
  <1>2. CASE a = "switch" /\ jobs' = [jobs EXCEPT ![a] = Idle]
    <2>1. Idle.doing = "nothing" /\ Idle.assigned = FALSE
      BY DEF Idle
    <2> QED
      BY <1>1, <1>2, <2>1, ReplaceJob
  <1>3. CASE a = "update" /\ jobs' = [jobs EXCEPT ![a] = [Idle EXCEPT !.doing = "publishing"]]
    <2> DEFINE job == [Idle EXCEPT !.doing = "publishing"]
    <2>1. DOMAIN job = DOMAIN Idle /\ job.doing = "publishing" /\ job.assigned = FALSE
      BY DEF Idle
    <2> HIDE DEF job
    <2> QED
      BY <1>1, <1>3, <2>1, ReplaceJob DEF job
  <1> QED
    BY <1>2, <1>3 DEF FinishActivation

\* The loop has published what has become of the controllers.
LEMMA PublishDoes ==
    ASSUME JobsInv, Publish
    PROVE  /\ JobsInv' /\ StillAssigned
           /\ jobs'["update"].doing = "nothing" /\ jobs'["switch"] = jobs["switch"]
  <1>1. "update" \in Activators /\ "switch" \in Activators /\ ~jobs["update"].assigned
    BY DEF Publish, JobsInv, Activators
  <1>2. Idle.doing = "nothing" /\ Idle.assigned = FALSE /\ jobs' = [jobs EXCEPT !["update"] = Idle]
    BY DEF Idle, Publish
  <1> QED
    BY <1>1, <1>2, ReplaceJob

\* The interfaces of the first controller are claimed and assigned to it.
LEMMA AssignedIs ==
    ASSUME JobsInv, NEW a \in Activators, jobs[a].todo /= <<>>, jobs[a].doing = "activating",
           jobs' = [jobs EXCEPT ![a].assigned = TRUE]
    PROVE  /\ JobsInv' /\ Assigned(a)' = {Head(jobs[a].todo)}
           /\ jobs'[a].doing = jobs[a].doing /\ jobs'[a].act = jobs[a].act
           /\ jobs'[a].strict = jobs[a].strict /\ jobs'[a].failed = jobs[a].failed
           /\ jobs'[a].todo = jobs[a].todo /\ jobs'[a].assigned
           /\ \A b \in Activators : b /= a => jobs'[b] = jobs[b]
  <1>1. DOMAIN jobs = Activators /\ DOMAIN jobs[a] = DOMAIN Idle
    BY DEF JobsInv
  <1>2. /\ DOMAIN jobs' = Activators /\ DOMAIN jobs'[a] = DOMAIN Idle
        /\ jobs'[a].doing = jobs[a].doing /\ jobs'[a].act = jobs[a].act
        /\ jobs'[a].strict = jobs[a].strict /\ jobs'[a].failed = jobs[a].failed
        /\ jobs'[a].todo = jobs[a].todo /\ jobs'[a].assigned = TRUE
        /\ \A b \in Activators : b /= a => jobs'[b] = jobs[b]
    BY <1>1, PartsAre
  <1> QED
    BY <1>2 DEF JobsInv, Assigned

\* A callback ends in a state of the lifecycle.
LEMMA OutcomesAreStates ==
    ASSUME NEW goal \in States, NEW previous \in States, NEW fault
    PROVE  Outcomes(goal, previous, fault) \subseteq States
  BY DEF Outcomes, States

\* Removing the reference interfaces of a controller touches no claim of the hardware.
LEMMA ReferencesAreNotHardware ==
    ASSUME NEW c \in Controllers, NEW i \in HardwareCommands
    PROVE  i \notin References(c)
  BY InterfaceAssumption DEF References, Exports, HardwareCommands

\* The claims after a step that forgets those of reference interfaces at most.
LEMMA ForgetReferences ==
    ASSUME IInv, holds' = holds, NEW c \in Controllers,
           claimed' = claimed \/ claimed' = claimed \ References(c)
    PROVE  HardwareClaims'
  <1> SUFFICES ASSUME NEW i \in CommandInterfaces, Exporter[i] \in Hardware
               PROVE  /\ \A d, e \in Controllers : i \in holds'[d] /\ i \in holds'[e] => d = e
                      /\ i \in claimed' <=> \E d \in Controllers : i \in holds'[d]
    BY DEF HardwareClaims
  <1>1. i \notin References(c)
    BY ReferencesAreNotHardware DEF HardwareCommands
  <1>2. i \in claimed' <=> i \in claimed
    BY <1>1
  <1> QED
    BY <1>2 DEF IInv, HardwareClaims

\* A service that moves one controller without interfaces between the states.
LEMMA MoveIdle ==
    ASSUME IInv, NEW c \in Controllers, NEW s \in States, jobs' = jobs,
           state[c] /= "active", state' = [state EXCEPT ![c] = s], holds' = holds,
           claimed' = claimed \/ claimed' = claimed \ References(c)
    PROVE  IInv'
  <1>1. HardwareClaims'
    BY ForgetReferences
  <1>2. state' \in [Controllers -> States]
    BY DEF IInv
  <1>3. OnlyActiveHold'
    <2> SUFFICES ASSUME NEW d \in Controllers, holds[d] /= {}
                 PROVE  state'[d] = "active" \/ \E a \in Activators : d \in Assigned(a)'
      BY DEF OnlyActiveHold
    <2>1. state[d] = "active" \/ \E a \in Activators : d \in Assigned(a)
      BY DEF IInv, OnlyActiveHold
    <2>2. \A a \in Activators : Assigned(a)' = Assigned(a)
      BY DEF Assigned
    <2>3. state[d] = "active" => state'[d] = "active"
      BY DEF IInv
    <2> QED
      BY <2>1, <2>2, <2>3
  <1> QED
    BY <1>1, <1>2, <1>3 DEF IInv, JobsInv

\* deactivate_controllers frees exactly what the deactivated controllers held.
LEMMA StopKeeps ==
    ASSUME IInv, NEW controllers, NEW out \in Deactivations(controllers), Stop(out),
           JobsInv', StillAssigned
    PROVE  IInv'
  <1> DEFINE off == DOMAIN out
  <1>1. /\ off \subseteq Controllers
        /\ \A c \in off : out[c] \in States
    <2>1. out \in [controllers \cap Active -> Outcomes("inactive", "active", "deactivate")]
      BY DEF Deactivations
    <2>2. Outcomes("inactive", "active", "deactivate") \subseteq States
      BY OutcomesAreStates DEF States
    <2> QED
      BY <2>1, <2>2 DEF Active
  <1>2. /\ state' = [c \in Controllers |-> IF c \in off THEN out[c] ELSE state[c]]
        /\ holds' = [c \in Controllers |-> IF c \in off THEN {} ELSE holds[c]]
        /\ claimed' = claimed \ UNION { holds[c] : c \in off }
    BY DEF Stop, Released
  <1> HIDE DEF off
  <1>3. state' \in [Controllers -> States]
    BY <1>1, <1>2 DEF IInv
  <1>4. holds' \in [Controllers -> SUBSET CommandInterfaces]
    BY <1>2 DEF IInv
  <1>5. HardwareClaims'
    <2> SUFFICES ASSUME NEW i \in CommandInterfaces, Exporter[i] \in Hardware
                 PROVE  /\ \A c, d \in Controllers : i \in holds'[c] /\ i \in holds'[d] => c = d
                        /\ i \in claimed' <=> \E c \in Controllers : i \in holds'[c]
      BY DEF HardwareClaims
    <2>1. /\ \A c, d \in Controllers : i \in holds[c] /\ i \in holds[d] => c = d
          /\ i \in claimed <=> \E c \in Controllers : i \in holds[c]
      BY DEF IInv, HardwareClaims
    <2>2. \A c \in Controllers : i \in holds'[c] <=> c \notin off /\ i \in holds[c]
      BY <1>2
    <2>3. i \in claimed' <=> i \in claimed /\ \A c \in off : i \notin holds[c]
      BY <1>2
    <2> QED
      BY <1>1, <2>1, <2>2, <2>3
  <1>6. OnlyActiveHold'
    <2> SUFFICES ASSUME NEW c \in Controllers, holds'[c] /= {}
                 PROVE  state'[c] = "active" \/ \E a \in Activators : c \in Assigned(a)'
      BY DEF OnlyActiveHold
    <2>1. holds[c] /= {} /\ state'[c] = state[c]
      BY <1>2
    <2> QED
      BY <2>1 DEF IInv, OnlyActiveHold, StillAssigned
  <1> QED
    BY <1>3, <1>4, <1>5, <1>6 DEF IInv

\* What a controller is to activate with is claimed: nobody holds it.
LEMMA ClaimKeeps ==
    ASSUME IInv, NEW a \in Activators, NEW c \in Controllers, CanClaim(c), state' = state,
           holds' = [holds EXCEPT ![c] = Commands(c)],
           claimed' = (claimed \cup Commands(c)) \ holds[c],
           JobsInv', StillAssigned, c \in Assigned(a)'
    PROVE  IInv'
  <1>1. Commands(c) \subseteq CommandInterfaces /\ Commands(c) \cap claimed = {}
    BY DEF Commands, CanClaim
  <1>2. holds' \in [Controllers -> SUBSET CommandInterfaces]
    BY <1>1 DEF IInv
  <1>3. HardwareClaims'
    <2> SUFFICES ASSUME NEW i \in CommandInterfaces, Exporter[i] \in Hardware
                 PROVE  /\ \A d, e \in Controllers : i \in holds'[d] /\ i \in holds'[e] => d = e
                        /\ i \in claimed' <=> \E d \in Controllers : i \in holds'[d]
      BY DEF HardwareClaims
    <2>1. /\ \A d, e \in Controllers : i \in holds[d] /\ i \in holds[e] => d = e
          /\ i \in claimed <=> \E d \in Controllers : i \in holds[d]
      BY DEF IInv, HardwareClaims
    <2>2. \A d \in Controllers : i \in holds'[d] <=> IF d = c THEN i \in Commands(c) ELSE i \in holds[d]
      BY DEF IInv
    <2>3. i \in claimed' <=> (i \in claimed \/ i \in Commands(c)) /\ i \notin holds[c]
      OBVIOUS
    <2>4. i \in Commands(c) => i \notin claimed
      BY <1>1
    <2> QED
      BY <2>1, <2>2, <2>3, <2>4
  <1>4. OnlyActiveHold'
    <2> SUFFICES ASSUME NEW d \in Controllers, holds'[d] /= {}
                 PROVE  state'[d] = "active" \/ \E b \in Activators : d \in Assigned(b)'
      BY DEF OnlyActiveHold
    <2>1. d = c \/ holds'[d] = holds[d]
      BY DEF IInv
    <2> QED
      BY <2>1 DEF IInv, OnlyActiveHold, StillAssigned
  <1> QED
    BY <1>2, <1>3, <1>4 DEF IInv

\* on_activate keeps what was claimed, or gives it back.
LEMMA ActivateKeeps ==
    ASSUME IInv, NEW c \in Controllers, NEW s \in States,
           state' = [state EXCEPT ![c] = s], holds' = [holds EXCEPT ![c] = Held(c, s)],
           claimed' = claimed \ (holds[c] \ Held(c, s)), JobsInv',
           \A b \in Activators : Assigned(b) \subseteq Assigned(b)' \cup {c}
    PROVE  IInv'
  <1>1. state' \in [Controllers -> States]
    BY DEF IInv
  <1>2. Held(c, s) = holds[c] \/ (s /= "active" /\ Held(c, s) = {})
    BY DEF Held
  <1>3. holds' \in [Controllers -> SUBSET CommandInterfaces]
    BY <1>2 DEF IInv
  <1>4. HardwareClaims'
    <2> SUFFICES ASSUME NEW i \in CommandInterfaces, Exporter[i] \in Hardware
                 PROVE  /\ \A d, e \in Controllers : i \in holds'[d] /\ i \in holds'[e] => d = e
                        /\ i \in claimed' <=> \E d \in Controllers : i \in holds'[d]
      BY DEF HardwareClaims
    <2>1. /\ \A d, e \in Controllers : i \in holds[d] /\ i \in holds[e] => d = e
          /\ i \in claimed <=> \E d \in Controllers : i \in holds[d]
      BY DEF IInv, HardwareClaims
    <2>2. \A d \in Controllers : i \in holds'[d] <=> IF d = c THEN i \in Held(c, s) ELSE i \in holds[d]
      BY DEF IInv
    <2>3. i \in claimed' <=> i \in claimed /\ (i \notin holds[c] \/ i \in Held(c, s))
      OBVIOUS
    <2>4. i \in Held(c, s) => i \in holds[c]
      BY <1>2
    <2> QED
      BY <2>1, <2>2, <2>3, <2>4
  <1>5. OnlyActiveHold'
    <2> SUFFICES ASSUME NEW d \in Controllers, holds'[d] /= {}
                 PROVE  state'[d] = "active" \/ \E b \in Activators : d \in Assigned(b)'
      BY DEF OnlyActiveHold
    <2>1. CASE d = c
      <3>1. holds'[c] = Held(c, s) /\ state'[c] = s
        BY DEF IInv
      <3> QED
        BY <2>1, <3>1 DEF Held
    <2>2. CASE d /= c
      <3>1. holds'[d] = holds[d] /\ state'[d] = state[d]
        BY <2>2 DEF IInv
      <3> QED
        BY <2>2, <3>1 DEF IInv, OnlyActiveHold
    <2> QED
      BY <2>1, <2>2
  <1> QED
    BY <1>1, <1>3, <1>4, <1>5 DEF IInv

\* A step that leaves states, holders and claims alone.
LEMMA Untouched ==
    ASSUME IInv, state' = state, holds' = holds, claimed' = claimed, JobsInv', StillAssigned
    PROVE  IInv'
  BY DEF IInv, HardwareClaims, OnlyActiveHold, StillAssigned

\* Jobs that go on as they are.
LEMMA SameJobs ==
    ASSUME JobsInv, jobs' = jobs
    PROVE  JobsInv' /\ StillAssigned
  BY DEF JobsInv, StillAssigned, Assigned

\* on_activate ends in a state of the lifecycle, and leaves no controller that is not inactive.
LEMMA ActivationsAre ==
    ASSUME IInv, NEW c \in Controllers, NEW s \in Activations(c)
    PROVE  s \in States /\ (state[c] /= "inactive" => s = state[c])
  <1>1. state[c] \in States
    BY DEF IInv
  <1> QED
    BY <1>1, OutcomesAreStates DEF Activations, States

\* What a step of activate_controllers does to its job.
LEMMA AssignDoes ==
    ASSUME JobsInv, NEW a \in Activators, NEW c \in Controllers, Assign(a, c)
    PROVE  /\ JobsInv' /\ StillAssigned
           /\ \/ Terminate
              \/ /\ jobs'[a].todo = Tail(jobs[a].todo) /\ ~jobs'[a].assigned
                 /\ c \notin Range(list) \/ jobs'[a].failed
              \/ jobs'[a].todo = jobs[a].todo /\ Assigned(a)' = {c} /\ CanClaim(c) /\ c \in Range(list)
           /\ ~Terminate =>
                 /\ jobs'[a].doing = "activating" /\ jobs'[a].act = jobs[a].act
                 /\ jobs'[a].strict = jobs[a].strict
                 /\ jobs[a].failed => jobs'[a].failed
                 /\ \A b \in Activators : b /= a => jobs'[b] = jobs[b]
  <1>1. /\ jobs[a].doing = "activating" /\ jobs[a].todo /= <<>> /\ ~jobs[a].assigned
        /\ c = Head(jobs[a].todo)
    BY DEF Assign
  <1>2. ASSUME NEW failed, Proceed(a, failed) PROVE StillAssigned
    BY <1>1, <1>2, ProceedDoes DEF StillAssigned, Assigned
  <1>3. CASE c \notin Range(list) /\ Proceed(a, FALSE)
    BY <1>1, <1>2, <1>3, ProceedDoes
  <1>4. CASE Terminate
    BY <1>4, TerminateDoes
  <1>5. CASE c \in Range(list) /\ Proceed(a, TRUE)
    BY <1>1, <1>2, <1>5, ProceedDoes
  <1>6. CASE c \in Range(list) /\ CanClaim(c) /\ jobs' = [jobs EXCEPT ![a].assigned = TRUE]
    <2>1. /\ JobsInv' /\ Assigned(a)' = {c}
          /\ jobs'[a].doing = jobs[a].doing /\ jobs'[a].act = jobs[a].act
          /\ jobs'[a].strict = jobs[a].strict /\ jobs'[a].failed = jobs[a].failed
          /\ jobs'[a].todo = jobs[a].todo
          /\ \A b \in Activators : b /= a => jobs'[b] = jobs[b]
      BY <1>1, <1>6, AssignedIs
    <2>2. StillAssigned
      BY <1>1, <2>1 DEF StillAssigned, Assigned
    <2> QED
      BY <1>1, <1>6, <2>1, <2>2
  <1> QED
    BY <1>3, <1>4, <1>5, <1>6 DEF Assign

\* What on_activate does to its job.
LEMMA OnActivateDoes ==
    ASSUME JobsInv, NEW a \in Activators, NEW c \in Controllers, OnActivate(a, c)
    PROVE  /\ JobsInv' /\ \A b \in Activators : Assigned(b) \subseteq Assigned(b)' \cup {c}
           /\ jobs[a].todo /= <<>> /\ c = Head(jobs[a].todo)
           /\ jobs'[a].todo = Tail(jobs[a].todo) /\ ~jobs'[a].assigned
           /\ jobs'[a].doing = "activating" /\ jobs'[a].act = jobs[a].act
           /\ jobs'[a].strict = jobs[a].strict
           /\ \A b \in Activators : b /= a => jobs'[b] = jobs[b]
           /\ \E s \in Activations(c) :
                 /\ state' = [state EXCEPT ![c] = s] /\ holds' = [holds EXCEPT ![c] = Held(c, s)]
                 /\ claimed' = claimed \ (holds[c] \ Held(c, s))
                 /\ available' = IF s = "active" THEN available \cup Exports(c) ELSE available \ Exports(c)
                 /\ jobs'[a].failed = (jobs[a].failed \/ s /= "active")
  <1>1. jobs[a].doing = "activating" /\ jobs[a].todo /= <<>> /\ c = Head(jobs[a].todo)
    BY DEF OnActivate, JobsInv, Assigned
  <1>2. PICK s \in Activations(c) :
           /\ state' = [state EXCEPT ![c] = s] /\ holds' = [holds EXCEPT ![c] = Held(c, s)]
           /\ claimed' = claimed \ (holds[c] \ Held(c, s))
           /\ available' = IF s = "active" THEN available \cup Exports(c) ELSE available \ Exports(c)
           /\ Proceed(a, s /= "active")
    BY DEF OnActivate
  <1>3. /\ JobsInv'
        /\ jobs'[a].doing = jobs[a].doing /\ jobs'[a].act = jobs[a].act
        /\ jobs'[a].strict = jobs[a].strict
        /\ jobs'[a].todo = Tail(jobs[a].todo) /\ ~jobs'[a].assigned
        /\ jobs'[a].failed = (jobs[a].failed \/ s /= "active")
        /\ \A b \in Activators : b /= a => jobs'[b] = jobs[b]
    BY <1>2, ProceedDoes
  <1>4. \A b \in Activators : Assigned(b) \subseteq Assigned(b)' \cup {c}
    BY <1>1, <1>3 DEF Assigned
  <1> QED
    BY <1>1, <1>2, <1>3, <1>4

\* No service touches the claims of the hardware.
LEMMA ServicesKeep ==
    ASSUME IInv, Services
    PROVE  IInv'
  <1>1. CASE \E c \in Controllers : Load(c)
    <2> PICK c \in Controllers : Load(c)
      BY <1>1
    <2>1. /\ state[c] /= "active" /\ state' = [state EXCEPT ![c] = "unconfigured"]
          /\ holds' = holds /\ claimed' = claimed /\ jobs' = jobs
      BY DEF Load, NotLoaded, rm_vars, switch_vars
    <2> QED
      BY <2>1, MoveIdle DEF States
  <1>2. CASE \E c \in Controllers : Configure(c)
    <2> PICK c \in Controllers : Configure(c)
      BY <1>2
    <2>1. PICK s \in Outcomes("inactive", "unconfigured", "configure") :
             /\ state' = [state EXCEPT ![c] = s]
             /\ claimed' = claimed \ References(c)
      BY DEF Configure, RemoveExports
    <2>2. /\ state[c] /= "active" /\ holds' = holds /\ jobs' = jobs
      BY DEF Configure, switch_vars
    <2>3. s \in States
      BY OutcomesAreStates DEF States
    <2> QED
      BY <2>1, <2>2, <2>3, MoveIdle
  <1>3. CASE \E c \in Controllers : Cleanup(c)
    <2> PICK c \in Controllers : Cleanup(c)
      BY <1>3
    <2>1. PICK s \in States : CleanupTo(c, s) /\ state' = [state EXCEPT ![c] = s]
      BY DEF Cleanup
    <2>2. /\ state[c] /= "active" /\ claimed' = claimed \ References(c) /\ holds' = holds /\ jobs' = jobs
      BY <2>1 DEF Cleanup, CleanupTo, RemoveExports, switch_vars
    <2> QED
      BY <2>1, <2>2, MoveIdle
  <1>4. CASE \E c \in Controllers : Unload(c)
    <2> PICK c \in Controllers : Unload(c)
      BY <1>4
    <2>1. PICK s \in States : state' = [state EXCEPT ![c] = s]
      BY DEF Unload, States
    <2>2. /\ state[c] /= "active" /\ holds' = holds /\ jobs' = jobs
      BY DEF Unload, CleanupTo, switch_vars
    <2>3. claimed' = claimed \/ claimed' = claimed \ References(c)
      BY DEF Unload, CleanupTo, RemoveExports
    <2> QED
      BY <2>1, <2>2, <2>3, MoveIdle
  <1>5. CASE \E activate, deactivate \in Lists(MaxRequest), strict \in BOOLEAN :
                SwitchController(activate, deactivate, strict)
    <2>1. state' = state /\ holds' = holds /\ claimed' = claimed /\ (Terminate \/ jobs' = jobs)
      BY <1>5 DEF SwitchController, ctrl_vars
    <2> QED
      BY <2>1, Untouched, TerminateDoes, SameJobs DEF IInv
  <1>6. CASE SwitchEnds
    <2>1. state' = state /\ holds' = holds /\ claimed' = claimed /\ jobs' = jobs
      BY <1>6 DEF SwitchEnds, ctrl_vars, rm_vars
    <2> QED
      BY <2>1, Untouched, SameJobs DEF IInv
  <1> QED
    BY <1>1, <1>2, <1>3, <1>4, <1>5, <1>6 DEF Services

\* Nor do a switch and the loop do more than claim what is free and release what was held.
LEMMA LoopKeeps ==
    ASSUME IInv, Loop
    PROVE  IInv'
  <1>1. ASSUME NEW a \in Activators, jobs[a].doing = "nothing",
               NEW controllers, NEW to, NEW from, NEW act, NEW strict,
               Start(a, controllers, to, from, act, strict)
        PROVE  IInv'
    <2>1. PICK out \in Deactivations(controllers) : Stop(out)
      BY <1>1 DEF Start
    <2>2. JobsInv' /\ StillAssigned
      BY <1>1, StartDoes DEF IInv
    <2> QED
      BY <2>1, <2>2, StopKeeps
  <1>2. ASSUME NEW controllers, NEW offered, Deactivate(controllers, offered), JobsInv', StillAssigned
        PROVE  IInv'
    <2>1. PICK out \in Deactivations(controllers) : Stop(out)
      BY <1>2 DEF Deactivate
    <2> QED
      BY <1>2, <2>1, StopKeeps
  <1>3. CASE ManageSwitch
    <2>1. "switch" \in Activators
      BY DEF Activators
    <2> QED
      BY <1>1, <1>3, <2>1 DEF ManageSwitch
  <1>4. CASE Publish
    <2>1. state' = state /\ holds' = holds /\ claimed' = claimed
      BY <1>4 DEF Publish, ctrl_vars, rm_vars
    <2> QED
      BY <1>4, <2>1, PublishDoes, Untouched DEF IInv
  <1>5. CASE \E a \in Activators : FinishActivation(a)
    <2> PICK a \in Activators : FinishActivation(a)
      BY <1>5
    <2>1. JobsInv' /\ StillAssigned
      BY FinishDoes DEF IInv
    <2>2. Deactivate(Undone(a), available)
      BY DEF FinishActivation
    <2> QED
      BY <1>2, <2>1, <2>2
  <1>6. CASE \E a \in Activators, c \in Controllers : Assign(a, c)
    <2> PICK a \in Activators, c \in Controllers : Assign(a, c)
      BY <1>6
    <2>1. JobsInv' /\ StillAssigned
      BY AssignDoes DEF IInv
    <2>2. state' = state
      BY DEF Assign
    <2>3. CASE UNCHANGED <<holds, claimed>>
      BY <2>1, <2>2, <2>3, Untouched
    <2>4. CASE /\ CanClaim(c)
               /\ holds' = [holds EXCEPT ![c] = Commands(c)]
               /\ claimed' = (claimed \cup Commands(c)) \ holds[c]
               /\ jobs' = [jobs EXCEPT ![a].assigned = TRUE]
      <3>1. c \in Assigned(a)'
        BY <2>4, AssignedIs DEF Assign, IInv
      <3> QED
        BY <2>1, <2>2, <2>4, <3>1, ClaimKeeps
    <2> QED
      BY <2>3, <2>4 DEF Assign
  <1>7. CASE \E a \in Activators, c \in Controllers : OnActivate(a, c)
    <2> PICK a \in Activators, c \in Controllers : OnActivate(a, c)
      BY <1>7
    <2>1. JobsInv' /\ \A b \in Activators : Assigned(b) \subseteq Assigned(b)' \cup {c}
      BY OnActivateDoes DEF IInv
    <2>2. PICK s \in Activations(c) :
             /\ state' = [state EXCEPT ![c] = s] /\ holds' = [holds EXCEPT ![c] = Held(c, s)]
             /\ claimed' = claimed \ (holds[c] \ Held(c, s))
      BY DEF OnActivate
    <2>3. s \in States
      BY ActivationsAre
    <2> QED
      BY <2>1, <2>2, <2>3, ActivateKeeps
  <1>8. CASE \E failed \in SUBSET Active : UpdateFails(failed)
    <2>1. PICK controllers, act : Start("update", controllers, {}, {}, act, TRUE)
      BY <1>8 DEF UpdateFails
    <2>2. "update" \in Activators /\ jobs["update"].doing = "nothing"
      BY <1>8 DEF UpdateFails, LoopIsFree, Activators
    <2> QED
      BY <1>1, <2>1, <2>2
  <1>9. CASE \E h \in Hardware : HardwareFails(h)
    <2>1. jobs' = jobs
      BY <1>9 DEF HardwareFails
    <2> QED
      BY <1>2, <1>9, <2>1, SameJobs DEF HardwareFails, IInv
  <1>10. CASE \E h \in Hardware : HardwareReturns(h)
    <2>1. state' = state /\ holds' = holds /\ claimed' = claimed /\ jobs' = jobs
      BY <1>10 DEF HardwareReturns, ctrl_vars, switch_vars
    <2> QED
      BY <2>1, Untouched, SameJobs DEF IInv
  <1>11. CASE \E h \in Hardware : HardwareDeactivates(h)
    <2>1. jobs' = jobs
      BY <1>11 DEF HardwareDeactivates, switch_vars
    <2> QED
      BY <1>2, <1>11, <2>1, SameJobs DEF HardwareDeactivates, IInv
  <1> QED
    BY <1>3, <1>4, <1>5, <1>6, <1>7, <1>8, <1>9, <1>10, <1>11 DEF Loop

\* The invariant of the claims holds in every state.
THEOREM ClaimsInvariant == Spec => []IInv
  <1>1. Init => IInv
    <2>1. Init => JobsInv
      <3>1. Idle.assigned = FALSE
        BY DEF Idle
      <3> QED
        BY <3>1 DEF Init, JobsInv
    <2> QED
      BY <2>1 DEF Init, IInv, HardwareClaims, OnlyActiveHold, States
  <1>2. IInv /\ [Next]_vars => IInv'
    <2> SUFFICES ASSUME IInv, [Next]_vars PROVE IInv'
      OBVIOUS
    <2>1. CASE Services
      BY <2>1, ServicesKeep
    <2>2. CASE Loop
      BY <2>2, LoopKeeps
    <2>3. CASE UNCHANGED vars
      <3>1. state' = state /\ holds' = holds /\ claimed' = claimed /\ jobs' = jobs
        BY <2>3 DEF vars
      <3> QED
        BY <3>1, Untouched, SameJobs DEF IInv
    <2> QED
      BY <2>1, <2>2, <2>3 DEF Next
  <1> QED
    BY <1>1, <1>2, PTL DEF Spec

\* No two controllers command the same interface of the hardware, and a command
\* interface of the hardware is claimed exactly as long as a controller holds it,
\* whatever callbacks fail and however services, errors and fallbacks interleave.
THEOREM HardwareIsCommandedOnce == Spec => []HardwareClaims
  BY ClaimsInvariant, PTL DEF IInv

\* No controller holds a command interface when it is neither active nor being activated.
THEOREM InactiveHoldNothing == Spec => []OnlyActiveHold
  BY ClaimsInvariant, PTL DEF IInv

-----------------------------------------------------------------------------
(* The list and the hand-over of a switch.                                  *)

\* What is listed is typed, and what is loaded is listed.
ListInv ==
    /\ list \in Seq(Controllers)
    /\ available \subseteq Interfaces
    /\ \A c \in Controllers : state[c] /= "unloaded" => c \in Range(list)

\* switch_params_ and a switch: what is to be switched is in the list, and a switch under
\* way has the lists of the request, of which those are active that are done, unless the
\* loop has deactivated them again; it does so only beside a switch without activate_asap.
SwitchInv ==
    /\ request \in [pending : BOOLEAN, act : Seq(Controllers), deact : SUBSET Controllers,
                    to : SUBSET Controllers, from : SUBSET Controllers, strict : BOOLEAN, asap : BOOLEAN]
    /\ request.pending => Range(request.act) \cup request.deact \subseteq Range(list)
    /\ jobs["switch"].doing = "nothing" => stopped = {}
    /\ Performing =>
          /\ request.pending
          /\ request.asap => jobs["update"].doing = "nothing" /\ stopped = {}
          /\ jobs["switch"].act = request.act /\ jobs["switch"].strict = request.strict
          /\ jobs["switch"].todo \in Seq(Controllers)
          /\ Range(jobs["switch"].todo) \subseteq Range(request.act)
          /\ \/ jobs["switch"].failed
             \/ \A c \in Range(request.act) :
                   c \in Range(jobs["switch"].todo) \/ state[c] = "active" \/ c \in stopped

\* Exported interfaces are interfaces.
LEMMA ExportsAre == \A c : Exports(c) \subseteq Interfaces
  BY DEF Exports

\* A sequence is its first element and the rest.
LEMMA RangeOfTail ==
    ASSUME NEW T, NEW s \in Seq(T), s /= <<>>
    PROVE  Tail(s) \in Seq(T) /\ Range(s) = {Head(s)} \cup Range(Tail(s))
  <1> DEFINE n == Len(s)
  <1>1. n \in Nat \ {0} /\ Head(s) = s[1] /\ Tail(s) \in Seq(T) /\ Len(Tail(s)) = n - 1
    OBVIOUS
  <1>2. \A k \in 1 .. n - 1 : Tail(s)[k] = s[k + 1]
    OBVIOUS
  <1>3. /\ Range(s) = { s[k] : k \in 1 .. n }
        /\ Range(Tail(s)) = { Tail(s)[k] : k \in 1 .. n - 1 }
    BY <1>1, RangeEquality
  <1> HIDE DEF n
  <1>4. \A k \in 1 .. n : k = 1 \/ (k - 1 \in 1 .. n - 1 /\ Tail(s)[k - 1] = s[k])
    BY <1>1, <1>2
  <1>5. \A k \in 1 .. n - 1 : k + 1 \in 1 .. n /\ 1 \in 1 .. n
    BY <1>1
  <1>6. Range(s) \subseteq {Head(s)} \cup Range(Tail(s))
    BY <1>1, <1>3, <1>4
  <1>7. {Head(s)} \cup Range(Tail(s)) \subseteq Range(s)
    BY <1>1, <1>2, <1>3, <1>5
  <1> QED
    BY <1>1, <1>6, <1>7

\* A request has lists of controllers.
LEMMA ListsAre == ASSUME NEW n, NEW s \in Lists(n) PROVE s \in Seq(Controllers)
  <1>1. PICK k \in 0 .. n : s \in [1 .. k -> Controllers]
    BY DEF Lists
  <1> QED
    BY <1>1

\* What deactivate_controllers does to the states.
LEMMA StopDoes ==
    ASSUME IInv, NEW controllers, NEW out \in Deactivations(controllers), Stop(out)
    PROVE  /\ DOMAIN out = controllers \cap Active
           /\ \A c \in DOMAIN out : out[c] \in Outcomes("inactive", "active", "deactivate")
           /\ \A c \in Controllers : state'[c] = IF c \in DOMAIN out THEN out[c] ELSE state[c]
  BY DEF Deactivations, Stop

\* The list is as it was, and only listed controllers change their states.
LEMMA ListedMove ==
    ASSUME ListInv, list' = list, available' \subseteq Interfaces,
           \A c \in Controllers : c \in Range(list) \/ state'[c] = state[c]
    PROVE  ListInv'
  BY DEF ListInv

\* deactivate_controllers changes the states of listed controllers only.
LEMMA StopKeepsList ==
    ASSUME IInv, ListInv, list' = list, available' \subseteq Interfaces,
           NEW controllers, NEW out \in Deactivations(controllers), Stop(out)
    PROVE  ListInv'
  <1>1. \A c \in Controllers : c \in Range(list) \/ state'[c] = state[c]
    BY StopDoes DEF Active
  <1> QED
    BY <1>1, ListedMove

\* switch_controller_cb checks the request before it hands it over.
LEMMA SwitchControllerDoes ==
    ASSUME ListInv, NEW activate \in Lists(MaxRequest), NEW deactivate \in Lists(MaxRequest),
           NEW strict \in BOOLEAN, SwitchController(activate, deactivate, strict)
    PROVE  \E r : /\ CheckedIs(manager, available, strict, r)
                  /\ available' = r.available
                  /\ cached' = cache_controller_to_hardware(r.users)
                  /\ \/ Terminate /\ request' = request
                     \/ jobs' = jobs /\ request' = request
                     \/ /\ r.status = "ok" /\ jobs' = jobs
                        /\ \E asap \in BOOLEAN :
                              request' = [pending |-> TRUE, act |-> r.act, deact |-> Range(r.deact),
                                          to |-> r.to, from |-> r.from, strict |-> strict, asap |-> asap]
  <1> DEFINE r == Checked(manager, available, deactivate, activate, strict)
  <1>1. CheckedIs(manager, available, strict, r)
    <2>1. manager.list \in Seq(Controllers) /\ available \in SUBSET Interfaces
      BY DEF ListInv, manager
    <2>2. activate \in Seq(Controllers) /\ deactivate \in Seq(Controllers)
      BY ListsAre
    <2> HIDE DEF ListInv
    <2> QED
      BY <2>1, <2>2, RequestsAreChecked
  <1>2. /\ available' = r.available
        /\ cached' = cache_controller_to_hardware(r.users)
        /\ \/ Terminate /\ request' = request
           \/ jobs' = jobs /\ request' = request
           \/ /\ r.status = "ok" /\ jobs' = jobs
              /\ \E asap \in BOOLEAN :
                    request' = [pending |-> TRUE, act |-> r.act, deact |-> Range(r.deact),
                                to |-> r.to, from |-> r.from, strict |-> strict, asap |-> asap]
    BY DEF SwitchController
  <1> HIDE DEF r
  <1> QED
    BY <1>1, <1>2

\* The services add a controller with its state, and remove it with its state.
LEMMA ServicesKeepList ==
    ASSUME IInv, ListInv, Services
    PROVE  ListInv'
  <1>1. CASE \E c \in Controllers : Load(c)
    <2> PICK c \in Controllers : Load(c)
      BY <1>1
    <2>1. /\ list' = Append(list, c) /\ state' = [state EXCEPT ![c] = "unconfigured"]
          /\ available' = available
      BY DEF Load, rm_vars
    <2>2. Range(list') = Range(list) \cup {c} /\ list' \in Seq(Controllers)
      BY <2>1, RangeOfAppend DEF ListInv
    <2> QED
      BY <2>1, <2>2 DEF ListInv, IInv
  <1>2. CASE \E c \in Controllers : Configure(c)
    <2> PICK c \in Controllers : Configure(c)
      BY <1>2
    <2>1. /\ c \in Range(list)
          /\ \E s : state' = [state EXCEPT ![c] = s]
          /\ available' \subseteq available
          /\ list' = list \/ list' = Those(SortedList, Range(list))
      BY DEF Configure
    <2>2. Range(list) \subseteq Controllers
      BY RangeEquality DEF ListInv
    <2>3. /\ Those(SortedList, Range(list)) \in Seq(Controllers)
          /\ Range(Those(SortedList, Range(list))) = Range(list)
      <3>1. SortedList \in Seq(Controllers) /\ Range(SortedList) \cap Range(list) = Range(list)
        BY <2>2, ManagerAssumption
      <3> QED
        BY <3>1, ThoseAre
    <2> QED
      BY <2>1, <2>3 DEF ListInv, IInv
  <1>3. CASE \E c \in Controllers : Cleanup(c)
    <2> PICK c \in Controllers : Cleanup(c)
      BY <1>3
    <2>1. /\ c \in Range(list) /\ list' = list /\ available' = available
          /\ \E s : state' = [state EXCEPT ![c] = s]
      BY DEF Cleanup
    <2> QED
      BY <2>1 DEF ListInv, IInv
  <1>4. CASE \E c \in Controllers : Unload(c)
    <2> PICK c \in Controllers : Unload(c)
      BY <1>4
    <2>1. /\ c \in Range(list) /\ available' = available
          /\ \/ list' = list /\ \E s : state' = [state EXCEPT ![c] = s]
             \/ list' = Without(list, c) /\ state' = [state EXCEPT ![c] = "unloaded"]
      BY DEF Unload
    <2>2. Without(list, c) \in Seq(Controllers) /\ Range(Without(list, c)) = Range(list) \ {c}
      <3>1. Range(list) \cap (Range(list) \ {c}) = Range(list) \ {c}
        OBVIOUS
      <3> QED
        BY <3>1, ThoseAre DEF ListInv, Without
    <2> QED
      BY <2>1, <2>2 DEF ListInv, IInv
  <1>5. CASE \E activate, deactivate \in Lists(MaxRequest), strict \in BOOLEAN :
                SwitchController(activate, deactivate, strict)
    <2> PICK activate \in Lists(MaxRequest), deactivate \in Lists(MaxRequest), strict \in BOOLEAN :
             SwitchController(activate, deactivate, strict)
      BY <1>5
    <2>1. PICK r : CheckedIs(manager, available, strict, r) /\ available' = r.available
      BY SwitchControllerDoes
    <2>2. list' = list /\ state' = state
      BY DEF SwitchController, ctrl_vars
    <2>3. r.available \subseteq Interfaces
      BY <2>1 DEF CheckedIs, Requests
    <2> QED
      BY <2>1, <2>2, <2>3 DEF ListInv
  <1>6. CASE SwitchEnds
    BY <1>6 DEF SwitchEnds, ctrl_vars, rm_vars, ListInv
  <1> QED
    BY <1>1, <1>2, <1>3, <1>4, <1>5, <1>6 DEF Services

\* The loop adds and removes no controllers.
LEMMA LoopKeepsList ==
    ASSUME IInv, ListInv, Loop
    PROVE  ListInv'
  <1>1. ASSUME NEW a, NEW controllers, NEW to, NEW from, NEW act, NEW strict,
               Start(a, controllers, to, from, act, strict)
        PROVE  ListInv'
    <2> DEFINE starting == { c \in Range(act) \cap Range(list) : Chainable(c) }
    <2>1. PICK out \in Deactivations(controllers) :
             /\ Stop(out) /\ list' = list
             /\ available' = (available \ UNION { Exports(c) : c \in DOMAIN out })
                                \cup UNION { Exports(c) : c \in starting \cap exported }
      BY <1>1 DEF Start
    <2>2. available' \subseteq Interfaces
      BY <2>1, ExportsAre DEF ListInv
    <2> QED
      BY <2>1, <2>2, StopKeepsList
  <1>2. ASSUME NEW controllers, NEW offered, Deactivate(controllers, offered),
               offered \subseteq available, list' = list
        PROVE  ListInv'
    <2>1. PICK out \in Deactivations(controllers) :
             Stop(out) /\ available' = offered \ UNION { Exports(c) : c \in DOMAIN out }
      BY <1>2 DEF Deactivate
    <2>2. available' \subseteq Interfaces
      BY <1>2, <2>1 DEF ListInv
    <2> QED
      BY <1>2, <2>1, <2>2, StopKeepsList
  <1>3. CASE ManageSwitch
    BY <1>1, <1>3 DEF ManageSwitch
  <1>4. CASE \E a \in Activators : FinishActivation(a)
    <2> PICK a \in Activators : FinishActivation(a)
      BY <1>4
    <2>1. Deactivate(Undone(a), available) /\ list' = list
      BY DEF FinishActivation
    <2> QED
      BY <1>2, <2>1
  <1>5. CASE Publish \/ \E a \in Activators, c \in Controllers : Assign(a, c)
    <2>1. list' = list /\ state' = state /\ available' = available
      BY <1>5 DEF Publish, Assign, ctrl_vars, rm_vars
    <2> QED
      BY <2>1 DEF ListInv
  <1>6. CASE \E a \in Activators, c \in Controllers : OnActivate(a, c)
    <2> PICK a \in Activators, c \in Controllers : OnActivate(a, c)
      BY <1>6
    <2>1. PICK s \in Activations(c) :
             /\ state' = [state EXCEPT ![c] = s]
             /\ available' = IF s = "active" THEN available \cup Exports(c) ELSE available \ Exports(c)
      BY DEF OnActivate
    <2>2. list' = list /\ available' \subseteq Interfaces
      BY <2>1, ExportsAre DEF ListInv, OnActivate
    <2>3. state[c] = "unloaded" => s = "unloaded"
      BY <2>1, ActivationsAre
    <2> QED
      BY <2>1, <2>2, <2>3 DEF ListInv, IInv
  <1>10. CASE \E failed \in SUBSET Active : UpdateFails(failed)
    <2>1. PICK controllers, act : Start("update", controllers, {}, {}, act, TRUE)
      BY <1>10 DEF UpdateFails
    <2> QED
      BY <1>1, <2>1
  <1>7. CASE \E h \in Hardware : HardwareFails(h)
    <2> PICK h \in Hardware : HardwareFails(h)
      BY <1>7
    <2>1. Deactivate(cached[h], available \ Exports(h)) /\ list' = list
      BY DEF HardwareFails
    <2> QED
      BY <1>2, <2>1
  <1>8. CASE \E h \in Hardware : HardwareReturns(h)
    <2> PICK h \in Hardware : HardwareReturns(h)
      BY <1>8
    <2>1. list' = list /\ state' = state /\ available' = available \cup Exports(h)
      BY DEF HardwareReturns, ctrl_vars
    <2> QED
      BY <2>1, ExportsAre DEF ListInv
  <1>9. CASE \E h \in Hardware : HardwareDeactivates(h)
    <2> PICK h \in Hardware : HardwareDeactivates(h)
      BY <1>9
    <2>1. PICK users : Deactivate(users, available) /\ list' = list
      BY DEF HardwareDeactivates
    <2> QED
      BY <1>2, <2>1
  <1> QED
    BY <1>3, <1>4, <1>5, <1>6, <1>7, <1>8, <1>9, <1>10 DEF Loop

\* The names of the activators are names of activators.
LEMMA ActivatorsAre == "switch" \in Activators /\ "update" \in Activators
  BY DEF Activators

\* What is requested is loaded.
LEMMA RequestedAre ==
    ASSUME ListInv, SwitchInv
    PROVE  /\ Range(list) \subseteq Controllers
           /\ request.pending => Range(request.act) \subseteq Controllers /\ request.deact \subseteq Controllers
  BY RangeEquality DEF ListInv, SwitchInv

\* A step that changes no state, request or switch.
LEMMA RequestIsKept ==
    ASSUME SwitchInv, request' = request, jobs'["switch"] = jobs["switch"], stopped' = stopped,
           state' = state, Range(list) \subseteq Range(list'),
           jobs["update"].doing = "nothing" => jobs'["update"].doing = "nothing"
    PROVE  SwitchInv'
  BY DEF SwitchInv, Performing

\* While there is no request and no switch, controllers come and go.
LEMMA NoSwitch ==
    ASSUME SwitchInv, request' = request, jobs' = jobs, stopped' = stopped, ~request.pending
    PROVE  SwitchInv'
  BY DEF SwitchInv, Performing

\* The end of the process ends a switch.
LEMMA TerminatedSwitch ==
    ASSUME IInv, SwitchInv, Terminate, request' = request, list' = list
    PROVE  SwitchInv'
  <1>1. jobs'["switch"].doing = "terminated"
    BY ActivatorsAre, TerminateDoes DEF IInv
  <1> QED
    BY <1>1 DEF SwitchInv, Performing

\* What the loop deactivates beside a switch it notes.
LEMMA NotedStop ==
    ASSUME IInv, ListInv, SwitchInv, request' = request, list' = list,
           jobs'["switch"] = jobs["switch"], Performing => ~request.asap,
           NEW controllers, Note(controllers), NEW out \in Deactivations(controllers), Stop(out)
    PROVE  SwitchInv'
  <1>1. /\ DOMAIN out = controllers \cap Active
        /\ \A c \in Controllers : state'[c] = IF c \in DOMAIN out THEN out[c] ELSE state[c]
    BY StopDoes
  <1>2. stopped' = IF Performing THEN stopped \cup (controllers \cap Active) ELSE stopped
    BY DEF Note
  <1>3. \A c \in Controllers : state[c] = "active" \/ c \in stopped =>
           state'[c] = "active" \/ c \in stopped' \/ ~Performing
    BY <1>1, <1>2
  <1>4. request.pending => Range(request.act) \subseteq Controllers
    BY RequestedAre
  <1> QED
    BY <1>2, <1>3, <1>4 DEF SwitchInv, Performing

\* Services that change the list wait for the end of a switch.
LEMMA ServicesKeepSwitch ==
    ASSUME IInv, ListInv, SwitchInv, Services
    PROVE  SwitchInv'
  <1>1. CASE \E c \in Controllers : Load(c) \/ Configure(c) \/ Cleanup(c) \/ Unload(c)
    <2>1. request' = request /\ jobs' = jobs /\ stopped' = stopped /\ ~request.pending
      BY <1>1 DEF Load, Configure, Cleanup, Unload, ServiceIsFree, ListIsFree, switch_vars
    <2> QED
      BY <2>1, NoSwitch
  <1>2. CASE \E activate, deactivate \in Lists(MaxRequest), strict \in BOOLEAN :
                SwitchController(activate, deactivate, strict)
    <2> PICK activate \in Lists(MaxRequest), deactivate \in Lists(MaxRequest), strict \in BOOLEAN :
             SwitchController(activate, deactivate, strict)
      BY <1>2
    <2>1. PICK r : /\ CheckedIs(manager, available, strict, r)
                   /\ \/ Terminate /\ request' = request
                      \/ jobs' = jobs /\ request' = request
                      \/ /\ r.status = "ok" /\ jobs' = jobs
                         /\ \E asap \in BOOLEAN :
                               request' = [pending |-> TRUE, act |-> r.act, deact |-> Range(r.deact),
                                           to |-> r.to, from |-> r.from, strict |-> strict, asap |-> asap]
      BY SwitchControllerDoes
    <2>2. list' = list /\ stopped' = stopped /\ ~request.pending /\ jobs["switch"].doing = "nothing"
      BY ActivatorsAre DEF SwitchController, ctrl_vars, ServiceIsFree, ListIsFree
    <2>3. CASE jobs' = jobs /\ request' = request
      BY <2>2, <2>3, NoSwitch
    <2>4. CASE Terminate /\ request' = request
      BY <2>2, <2>4, TerminatedSwitch
    <2>5. CASE /\ r.status = "ok" /\ jobs' = jobs
               /\ \E asap \in BOOLEAN :
                     request' = [pending |-> TRUE, act |-> r.act, deact |-> Range(r.deact),
                                 to |-> r.to, from |-> r.from, strict |-> strict, asap |-> asap]
      <3>1. /\ r.act \in Seq(Controllers) /\ r.deact \in Seq(Controllers)
            /\ r.to \subseteq Controllers /\ r.from \subseteq Controllers
            /\ Range(r.act) \cup Range(r.deact) \subseteq Range(list)
        BY <2>1, <2>5 DEF CheckedIs, Requests, manager
      <3>2. Range(r.deact) \subseteq Controllers
        BY <3>1, RangeEquality
      <3> QED
        BY <2>2, <2>5, <3>1, <3>2 DEF SwitchInv, Performing
    <2> QED
      BY <2>1, <2>3, <2>4, <2>5
  <1>3. CASE SwitchEnds
    <2>1. jobs["switch"].doing = "nothing" /\ jobs' = jobs /\ stopped' = stopped /\ request' = NoRequest
      BY <1>3 DEF SwitchEnds
    <2> QED
      BY <2>1 DEF SwitchInv, NoRequest, Performing
  <1> QED
    BY <1>1, <1>2, <1>3 DEF Services

\* manage_switch takes over the lists of the request.
LEMMA SwitchBegins ==
    ASSUME JobsInv, ManageSwitch
    PROVE  \/ Terminate
           \/ /\ jobs'["switch"].doing = "activating"
              /\ jobs'["switch"].todo = request.act /\ jobs'["switch"].act = request.act
              /\ jobs'["switch"].strict = request.strict /\ ~jobs'["switch"].assigned
              /\ jobs'["update"] = jobs["update"]
  <1> DEFINE job == [doing |-> "activating", todo |-> request.act, act |-> request.act,
                     strict |-> request.strict, failed |-> FALSE, assigned |-> FALSE]
  <1>1. jobs["switch"].doing = "nothing" /\ (jobs' = [jobs EXCEPT !["switch"] = job] \/ Terminate)
    BY DEF ManageSwitch, Start
  <1>2. /\ DOMAIN job = DOMAIN Idle /\ job.assigned = FALSE
        /\ job.doing = "activating" /\ job.todo = request.act /\ job.act = request.act
        /\ job.strict = request.strict
    BY PartsAre
  <1>3. ~jobs["switch"].assigned
    BY <1>1, ActivatorsAre DEF JobsInv
  <1> HIDE DEF job
  <1> QED
    BY <1>1, <1>2, <1>3, ActivatorsAre, ReplaceJob

\* A step of a switch's own activations: the controller is active, or the switch has failed.
LEMMA SwitchProceeds ==
    ASSUME IInv, ListInv, SwitchInv, Performing, request' = request, list' = list, stopped' = stopped,
           jobs'["update"] = jobs["update"],
           jobs'["switch"].doing = "activating", jobs'["switch"].act = jobs["switch"].act,
           jobs'["switch"].strict = jobs["switch"].strict,
           jobs["switch"].todo /= <<>>, jobs'["switch"].todo = Tail(jobs["switch"].todo),
           jobs["switch"].failed => jobs'["switch"].failed,
           NEW c \in Controllers, c = Head(jobs["switch"].todo),
           \A d \in Controllers : d /= c => state'[d] = state[d],
           jobs'["switch"].failed \/ state'[c] = "active"
    PROVE  SwitchInv'
  <1>1. /\ jobs["switch"].todo \in Seq(Controllers)
        /\ Range(jobs["switch"].todo) \subseteq Range(request.act)
        /\ request.pending
    BY DEF SwitchInv
  <1>2. /\ jobs'["switch"].todo \in Seq(Controllers)
        /\ Range(jobs["switch"].todo) = {c} \cup Range(jobs'["switch"].todo)
    BY <1>1, RangeOfTail
  <1>3. ASSUME ~jobs'["switch"].failed, NEW d \in Range(request.act)
        PROVE  d \in Range(jobs'["switch"].todo) \/ state'[d] = "active" \/ d \in stopped
    <2>1. d \in Range(jobs["switch"].todo) \/ state[d] = "active" \/ d \in stopped
      BY <1>3 DEF SwitchInv
    <2>2. d \in Controllers
      BY <1>1, RequestedAre
    <2> QED
      BY <1>2, <1>3, <2>1, <2>2
  <1> QED
    BY <1>1, <1>2, <1>3 DEF SwitchInv, Performing

\* A switch activates what is requested, one controller after the other; the loop may
\* deactivate controllers beside it, and activate others.
LEMMA LoopKeepsSwitch ==
    ASSUME IInv, ListInv, SwitchInv, Loop
    PROVE  SwitchInv'
  <1>0. JobsInv
    BY DEF IInv
  <1>1. CASE ManageSwitch
    <2>1. /\ list' = list /\ request' = request /\ stopped' = stopped /\ request.pending
          /\ jobs["switch"].doing = "nothing" /\ stopped = {}
          /\ request.asap => jobs["update"].doing = "nothing"
      BY <1>1 DEF ManageSwitch, Start, LoopIsFree, SwitchInv
    <2>2. \/ Terminate
          \/ /\ jobs'["switch"].doing = "activating"
             /\ jobs'["switch"].todo = request.act /\ jobs'["switch"].act = request.act
             /\ jobs'["switch"].strict = request.strict
             /\ jobs'["update"] = jobs["update"]
      BY <1>0, <1>1, SwitchBegins
    <2>3. CASE Terminate
      BY <2>1, <2>3, TerminatedSwitch
    <2> QED
      BY <2>1, <2>2, <2>3 DEF SwitchInv, Performing
  <1>2. CASE Publish
    <2>1. /\ list' = list /\ state' = state /\ request' = request /\ stopped' = stopped
          /\ jobs["update"].doing = "publishing"
      BY <1>2 DEF Publish, ctrl_vars
    <2> QED
      BY <1>0, <1>2, <2>1, PublishDoes, RequestIsKept
  <1>3. CASE FinishActivation("switch")
    <2>1. list' = list /\ request' = NoRequest /\ stopped' = {}
      BY <1>3 DEF FinishActivation
    <2>2. jobs'["switch"].doing = "nothing"
      BY <1>0, <1>3, ActivatorsAre, FinishDoes
    <2> QED
      BY <2>1, <2>2 DEF SwitchInv, NoRequest, Performing
  <1>4. CASE FinishActivation("update")
    <2>1. /\ list' = list /\ request' = request /\ Note(Undone("update"))
          /\ jobs["update"].doing = "activating"
      BY <1>4 DEF FinishActivation
    <2>2. PICK out \in Deactivations(Undone("update")) : Stop(out)
      BY <1>4 DEF FinishActivation, Deactivate
    <2>3. jobs'["switch"] = jobs["switch"]
      BY <1>0, <1>4, ActivatorsAre, FinishDoes
    <2>4. Performing => ~request.asap
      BY <2>1 DEF SwitchInv
    <2> QED
      BY <2>1, <2>2, <2>3, <2>4, NotedStop
  <1>5. CASE \E a \in Activators, c \in Controllers : Assign(a, c)
    <2> PICK a \in Activators, c \in Controllers : Assign(a, c)
      BY <1>5
    <2>1. /\ list' = list /\ state' = state /\ request' = request /\ stopped' = stopped
          /\ jobs[a].doing = "activating" /\ jobs[a].todo /= <<>> /\ c = Head(jobs[a].todo)
      BY DEF Assign
    <2>2. CASE Terminate
      BY <2>1, <2>2, TerminatedSwitch
    <2>3. CASE ~Terminate /\ a = "update"
      <3>1. jobs'["switch"] = jobs["switch"]
        BY <1>0, <2>3, ActivatorsAre, AssignDoes
      <3> QED
        BY <2>1, <2>3, <3>1, RequestIsKept
    <2>4. CASE ~Terminate /\ a = "switch"
      <3>1. /\ jobs'["update"] = jobs["update"] /\ jobs'[a].doing = "activating"
            /\ jobs'[a].act = jobs[a].act /\ jobs'[a].strict = jobs[a].strict
            /\ jobs[a].failed => jobs'[a].failed
            /\ \/ jobs'[a].todo = jobs[a].todo
               \/ /\ jobs'[a].todo = Tail(jobs[a].todo)
                  /\ c \notin Range(list) \/ jobs'[a].failed
        BY <1>0, <2>4, ActivatorsAre, AssignDoes
      <3>2. c \in Range(list)
        <4>1. jobs[a].todo \in Seq(Controllers) /\ Range(jobs[a].todo) \subseteq Range(list)
          BY <2>1, <2>4 DEF SwitchInv, Performing
        <4> QED
          BY <2>1, <4>1, RangeOfTail
      <3>3. CASE jobs'[a].todo = jobs[a].todo
        BY <2>1, <2>4, <3>1, <3>3 DEF SwitchInv, Performing
      <3>4. CASE jobs'[a].todo = Tail(jobs[a].todo) /\ jobs'[a].failed
        BY <2>1, <2>4, <3>1, <3>4, SwitchProceeds DEF Performing
      <3> QED
        BY <3>1, <3>2, <3>3, <3>4
    <2> QED
      BY <2>2, <2>3, <2>4 DEF Activators
  <1>6. CASE \E a \in Activators, c \in Controllers : OnActivate(a, c)
    <2> PICK a \in Activators, c \in Controllers : OnActivate(a, c)
      BY <1>6
    <2>1. /\ list' = list /\ request' = request /\ stopped' = stopped
          /\ jobs[a].doing = "activating"
      BY DEF OnActivate
    <2>2. /\ jobs[a].todo /= <<>> /\ c = Head(jobs[a].todo)
          /\ jobs'[a].todo = Tail(jobs[a].todo)
          /\ jobs'[a].doing = "activating" /\ jobs'[a].act = jobs[a].act
          /\ jobs'[a].strict = jobs[a].strict
          /\ \A b \in Activators : b /= a => jobs'[b] = jobs[b]
      BY <1>0, OnActivateDoes
    <2>3. PICK s \in Activations(c) :
             /\ state' = [state EXCEPT ![c] = s]
             /\ jobs'[a].failed = (jobs[a].failed \/ s /= "active")
      BY <1>0, OnActivateDoes
    <2>4. /\ state'[c] = s /\ \A d \in Controllers : d /= c => state'[d] = state[d]
          /\ state[c] = "active" => s = "active"
      BY <2>3, ActivationsAre DEF IInv
    <2>5. CASE a = "switch"
      BY <2>1, <2>2, <2>3, <2>4, <2>5, ActivatorsAre, SwitchProceeds DEF Performing
    <2>6. CASE a = "update"
      <3>1. jobs'["switch"] = jobs["switch"]
        BY <2>2, <2>6, ActivatorsAre
      <3>2. Performing => ~request.asap
        BY <2>1, <2>6 DEF SwitchInv
      <3>3. \A d \in Controllers : state[d] = "active" => state'[d] = "active"
        BY <2>4
      <3>4. request.pending => Range(request.act) \subseteq Controllers
        BY RequestedAre
      <3> QED
        BY <2>1, <3>1, <3>2, <3>3, <3>4 DEF SwitchInv, Performing
    <2> QED
      BY <2>5, <2>6 DEF Activators
  <1>7. CASE \E failed \in SUBSET Active : UpdateFails(failed)
    <2>1. PICK controllers, act : /\ Start("update", controllers, {}, {}, act, TRUE)
                                  /\ Note(controllers)
      BY <1>7 DEF UpdateFails
    <2>2. /\ list' = list /\ request' = request
          /\ jobs["update"].doing = "nothing" /\ (Performing => ~request.asap)
      BY <1>7, <2>1 DEF UpdateFails, LoopIsFree, Start, Performing
    <2>3. PICK out \in Deactivations(controllers) : Stop(out)
      BY <2>1 DEF Start
    <2>4. CASE Terminate
      BY <2>2, <2>4, TerminatedSwitch
    <2>5. CASE ~Terminate
      <3>1. jobs'["switch"] = jobs["switch"]
        BY <1>0, <2>1, <2>2, <2>5, ActivatorsAre, StartDoes
      <3> QED
        BY <2>1, <2>2, <2>3, <3>1, NotedStop
    <2> QED
      BY <2>4, <2>5
  <1>8. CASE \E h \in Hardware : HardwareFails(h)
    <2> PICK h \in Hardware : HardwareFails(h)
      BY <1>8
    <2>1. PICK out \in Deactivations(cached[h]) : Stop(out)
      BY DEF HardwareFails, Deactivate
    <2>2. /\ list' = list /\ request' = request /\ jobs' = jobs /\ Note(cached[h])
          /\ (Performing => ~request.asap)
      BY DEF HardwareFails, LoopIsFree, Performing
    <2> QED
      BY <2>1, <2>2, NotedStop
  <1>9. CASE \E h \in Hardware : HardwareReturns(h)
    BY <1>9, RequestIsKept DEF HardwareReturns, ctrl_vars, switch_vars
  <1>10. CASE \E h \in Hardware : HardwareDeactivates(h)
    BY <1>10, NoSwitch DEF HardwareDeactivates, switch_vars
  <1> QED
    BY <1>1, <1>2, <1>3, <1>4, <1>5, <1>6, <1>7, <1>8, <1>9, <1>10 DEF Loop, Activators

\* The invariant of a switch: the claims, the list and the hand-over.
THEOREM SwitchInvariant == Spec => [](IInv /\ ListInv /\ SwitchInv)
  <1>1. Init => ListInv /\ SwitchInv
    <2>1. Idle.doing = "nothing"
      BY DEF Idle
    <2> QED
      BY <2>1, ActivatorsAre DEF Init, ListInv, Exports, SwitchInv, NoRequest, Performing
  <1>2. IInv /\ ListInv /\ SwitchInv /\ [Next]_vars => (ListInv /\ SwitchInv)'
    <2> SUFFICES ASSUME IInv, ListInv, SwitchInv, [Next]_vars PROVE ListInv' /\ SwitchInv'
      OBVIOUS
    <2>1. CASE Services
      BY <2>1, ServicesKeepList, ServicesKeepSwitch
    <2>2. CASE Loop
      BY <2>2, LoopKeepsList, LoopKeepsSwitch
    <2>3. CASE UNCHANGED vars
      BY <2>3, RequestIsKept DEF vars, ListInv
    <2> QED
      BY <2>1, <2>2, <2>3 DEF Next
  <1> QED
    BY <1>1, <1>2, ClaimsInvariant, PTL DEF Spec

\* Only FinishActivation ends a switch.
LEMMA SwitchIsFinished ==
    ASSUME IInv, SwitchInv, [Next]_vars, SwitchFinishes
    PROVE  FinishActivation("switch")
  <1>0. JobsInv /\ Performing /\ request.pending /\ jobs'["switch"].doing = "nothing"
    BY DEF IInv, SwitchInv, SwitchFinishes
  <1>1. ~Terminate
    BY <1>0, ActivatorsAre, TerminateDoes
  <1>2. jobs'["switch"].doing /= jobs["switch"].doing
    BY <1>0 DEF Performing
  <1>3. ~Services
    BY <1>0, <1>1, <1>2 DEF Services, Load, Configure, Cleanup, Unload, SwitchController, SwitchEnds, ServiceIsFree, ListIsFree
  <1>4. CASE ManageSwitch
    BY <1>0, <1>4 DEF ManageSwitch, Performing
  <1>5. CASE Publish
    BY <1>0, <1>2, <1>5, PublishDoes
  <1>6. CASE \E a \in Activators : FinishActivation(a)
    BY <1>0, <1>2, <1>6, ActivatorsAre, FinishDoes DEF Activators
  <1>7. CASE \E a \in Activators, c \in Controllers : Assign(a, c)
    <2> PICK a \in Activators, c \in Controllers : Assign(a, c)
      BY <1>7
    <2>1. /\ jobs'[a].doing = "activating"
          /\ \A b \in Activators : b /= a => jobs'[b] = jobs[b]
      BY <1>0, <1>1, AssignDoes
    <2> QED
      BY <1>0, <1>2, <2>1, ActivatorsAre
  <1>8. CASE \E a \in Activators, c \in Controllers : OnActivate(a, c)
    <2> PICK a \in Activators, c \in Controllers : OnActivate(a, c)
      BY <1>8
    <2>1. /\ jobs'[a].doing = "activating"
          /\ \A b \in Activators : b /= a => jobs'[b] = jobs[b]
      BY <1>0, OnActivateDoes
    <2> QED
      BY <1>0, <1>2, <2>1, ActivatorsAre
  <1>9. CASE \E failed \in SUBSET Active : UpdateFails(failed)
    <2>1. PICK controllers, act : Start("update", controllers, {}, {}, act, TRUE)
      BY <1>9 DEF UpdateFails
    <2>2. jobs["update"].doing = "nothing"
      BY <1>9 DEF UpdateFails, LoopIsFree
    <2>3. jobs'["switch"] = jobs["switch"]
      BY <1>0, <1>1, <2>1, <2>2, ActivatorsAre, StartDoes
    <2> QED
      BY <1>2, <2>3
  <1>10. CASE \E h \in Hardware : HardwareFails(h) \/ HardwareReturns(h) \/ HardwareDeactivates(h)
    BY <1>2, <1>10 DEF HardwareFails, HardwareReturns, HardwareDeactivates, switch_vars
  <1> QED
    BY <1>2, <1>3, <1>4, <1>5, <1>6, <1>7, <1>8, <1>9, <1>10 DEF Next, Loop, vars

\* How a strict switch ends if on_deactivate does not fail: all the controllers to activate
\* that the loop has not deactivated meanwhile are active, and nothing changes, or none is.
LEMMA StrictEnd ==
    ASSUME "deactivate" \notin Faults, IInv, ListInv, SwitchInv, FinishActivation("switch"),
           request.strict
    PROVE  /\ \A c \in Controllers : state'[c] = "active" => state[c] = "active"
           /\ \/ /\ \A c \in Controllers : state'[c] = state[c]
                 /\ \A c \in Range(request.act) \ Disturbed : state'[c] = "active"
              \/ \A c \in Range(request.act) : state'[c] /= "active"
  <1>0. Performing /\ jobs["switch"].todo = <<>>
    BY DEF FinishActivation, Performing
  <1>1. /\ jobs["switch"].act = request.act /\ jobs["switch"].strict = request.strict
        /\ Range(request.act) \subseteq Range(list)
        /\ request.asap => stopped = {}
        /\ \/ jobs["switch"].failed
           \/ \A c \in Range(request.act) :
                 c \in Range(jobs["switch"].todo) \/ state[c] = "active" \/ c \in stopped
    BY <1>0 DEF SwitchInv
  <1>2. Range(list) \subseteq Controllers /\ Range(<<>>) = {}
    BY RangeEquality DEF ListInv, Range
  <1>3. PICK out \in Deactivations(Undone("switch")) : Stop(out)
    BY DEF FinishActivation, Deactivate
  <1>4. /\ DOMAIN out = Undone("switch") \cap Active
        /\ \A c \in DOMAIN out : out[c] = "inactive"
        /\ \A c \in Controllers : state'[c] = IF c \in DOMAIN out THEN out[c] ELSE state[c]
    <2>1. Outcomes("inactive", "active", "deactivate") = {"inactive"}
      BY DEF Outcomes
    <2> QED
      BY <1>3, <2>1, StopDoes
  <1>5. CASE jobs["switch"].failed
    <2>1. Undone("switch") = Range(request.act)
      BY <1>1, <1>5 DEF Undone
    <2>2. ASSUME NEW c \in Range(request.act) PROVE state'[c] /= "active"
      <3>1. c \in Controllers /\ c \in Range(list)
        BY <1>1, <1>2
      <3>2. c \in DOMAIN out \/ state[c] /= "active"
        BY <1>4, <2>1, <3>1 DEF Active
      <3> QED
        BY <1>4, <3>1, <3>2
    <2> QED
      BY <1>4, <2>2
  <1>6. CASE ~jobs["switch"].failed
    <2>1. Undone("switch") = {}
      BY <1>6 DEF Undone
    <2>2. \A c \in Controllers : state'[c] = state[c]
      BY <1>4, <2>1
    <2>3. \A c \in Range(request.act) \ Disturbed : c \notin stopped
      BY <1>1 DEF Disturbed
    <2> QED
      BY <1>0, <1>1, <1>2, <1>6, <2>2, <2>3
  <1> QED
    BY <1>5, <1>6

\* Unless a controller refuses to be deactivated, a strict switch is all or nothing: of the
\* controllers to activate none is active when it ends, or all but those the loop has
\* deactivated meanwhile: none if the loop itself performs the switch (activate_asap), and
\* those of failed hardware or failed chains if the service does.
THEOREM StrictSwitchesAreAtomic ==
    ASSUME "deactivate" \notin Faults
    PROVE  Spec => StrictIsAtomic
  <1>1. IInv /\ ListInv /\ SwitchInv /\ [Next]_vars =>
          (request.strict /\ SwitchFinishes =>
             \/ \A c \in Range(request.act) \ Disturbed : state'[c] = "active"
             \/ \A c \in Range(request.act) : state'[c] /= "active")
    BY SwitchIsFinished, StrictEnd
  <1> QED
    BY <1>1, SwitchInvariant, PTL DEF Spec, StrictIsAtomic

-----------------------------------------------------------------------------
(* Chains, and the hardware that controllers use.                           *)

\* configure_controller has succeeded, and the controller has not been cleaned up.
IsConfigured(c) == state[c] \in {"inactive", "active"}

\* The chains of the configured controllers are known.
LinksInv ==
    \A p, f \in Range(list) : IsConfigured(p) /\ IsConfigured(f) /\ f \in Followers(p) => <<p, f>> \in links

\* A step that configures no controller.
LEMMA LinksAreKept ==
    ASSUME LinksInv, list' \in Seq(Controllers), links' = links, Range(list') \subseteq Range(list),
           \A c \in Controllers : IsConfigured(c)' => IsConfigured(c)
    PROVE  LinksInv'
  <1> SUFFICES ASSUME NEW p \in Range(list'), NEW f \in Range(list'),
                      IsConfigured(p)', IsConfigured(f)', f \in Followers(p)'
               PROVE  <<p, f>> \in links
    BY DEF LinksInv
  <1>1. p \in Controllers /\ f \in Controllers
    BY RangeEquality
  <1>2. f \in Followers(p)
    BY DEF Followers
  <1> QED
    BY <1>1, <1>2 DEF LinksInv

\* deactivate_controllers configures no controller.
LEMMA StopConfiguresNone ==
    ASSUME IInv, NEW controllers, NEW out \in Deactivations(controllers), Stop(out)
    PROVE  \A c \in Controllers : IsConfigured(c)' => IsConfigured(c)
  BY StopDoes DEF IsConfigured, Active

\* configure_controller finds all the chains of the configured controllers again.
LEMMA ServicesKeepLinks ==
    ASSUME IInv, ListInv, LinksInv, ListInv', Services
    PROVE  LinksInv'
  <1>0. Range(list) \subseteq Controllers /\ list' \in Seq(Controllers)
    BY RangeEquality DEF ListInv
  <1>1. CASE \E c \in Controllers : Load(c)
    <2> PICK c \in Controllers : Load(c)
      BY <1>1
    <2>1. /\ list' = Append(list, c) /\ state' = [state EXCEPT ![c] = "unconfigured"] /\ links' = links
      BY DEF Load
    <2>2. Range(list') = Range(list) \cup {c}
      BY <2>1, RangeOfAppend DEF ListInv
    <2> SUFFICES ASSUME NEW p \in Range(list'), NEW f \in Range(list'),
                        IsConfigured(p)', IsConfigured(f)', f \in Followers(p)'
                 PROVE  <<p, f>> \in links
      BY <2>1 DEF LinksInv
    <2>3. p /= c /\ f /= c
      BY <2>1 DEF IsConfigured, IInv
    <2>4. p \in Range(list) /\ f \in Range(list) /\ f \in Followers(p)
      BY <2>2, <2>3 DEF Followers
    <2> QED
      BY <1>0, <2>1, <2>3, <2>4 DEF LinksInv, IsConfigured, IInv
  <1>2. CASE \E c \in Controllers : Configure(c)
    <2> PICK c \in Controllers : Configure(c)
      BY <1>2
    <2>1. PICK s \in Outcomes("inactive", "unconfigured", "configure") :
             /\ state' = [state EXCEPT ![c] = s]
             /\ IF s /= "inactive" THEN list' = list /\ links' = links
                ELSE links' = Topology(c) /\ list' = Those(SortedList, Range(list))
      BY DEF Configure
    <2>2. c \in Range(list) /\ state[c] = "unconfigured"
      BY DEF Configure
    <2>3. CASE s /= "inactive"
      <3>1. s \in {"unconfigured", "finalized"}
        BY <2>1, <2>3 DEF Outcomes
      <3>2. \A d \in Controllers : IsConfigured(d)' => IsConfigured(d)
        BY <2>1, <3>1 DEF IsConfigured, IInv
      <3> QED
        BY <1>0, <2>1, <2>3, <3>2, LinksAreKept
    <2>4. CASE s = "inactive"
      <3>1. Range(list') = Range(list)
        <4>1. SortedList \in Seq(Controllers) /\ Range(SortedList) \cap Range(list) = Range(list)
          BY <1>0, ManagerAssumption
        <4>2. Range(Those(SortedList, Range(list))) = Range(SortedList) \cap Range(list)
          BY <4>1, ThoseAre
        <4> QED
          BY <2>1, <2>4, <4>1, <4>2
      <3> SUFFICES ASSUME NEW p \in Range(list), NEW f \in Range(list),
                          IsConfigured(p)', f \in Followers(p)'
                   PROVE  <<p, f>> \in links'
        BY <3>1 DEF LinksInv
      <3>2. state[p] /= "unconfigured" \/ p = c
        BY <1>0, <2>1 DEF IsConfigured, IInv
      <3>3. \E i \in Range(Uses[p]) : Exporter[i] = f
        BY DEF Followers
      <3>4. <<p, f>> \in Topology(c)
        BY <3>2, <3>3 DEF Topology
      <3> QED
        BY <2>1, <2>4, <3>4
    <2> QED
      BY <2>3, <2>4
  <1>3. CASE \E c \in Controllers : Cleanup(c)
    <2> PICK c \in Controllers : Cleanup(c)
      BY <1>3
    <2>1. state[c] = "inactive" /\ list' = list /\ links' = links /\ \E s : state' = [state EXCEPT ![c] = s]
      BY DEF Cleanup, CleanupTo
    <2>2. \A d \in Controllers : IsConfigured(d)' => IsConfigured(d)
      BY <2>1 DEF IsConfigured, IInv
    <2> QED
      BY <1>0, <2>1, <2>2, LinksAreKept
  <1>4. CASE \E c \in Controllers : Unload(c)
    <2> PICK c \in Controllers : Unload(c)
      BY <1>4
    <2>1. /\ links' = links
          /\ \/ /\ state[c] = "inactive" /\ list' = list
                /\ \E s : state' = [state EXCEPT ![c] = s]
             \/ list' = Without(list, c) /\ state' = [state EXCEPT ![c] = "unloaded"]
      BY DEF Unload, CleanupTo
    <2>2. \A d \in Controllers : IsConfigured(d)' => IsConfigured(d)
      BY <2>1 DEF IsConfigured, IInv
    <2>3. Range(list') \subseteq Range(list)
      BY <2>1, WithoutIs DEF ListInv
    <2> QED
      BY <1>0, <2>1, <2>2, <2>3, LinksAreKept
  <1>5. CASE \/ \E activate, deactivate \in Lists(MaxRequest), strict \in BOOLEAN :
                   SwitchController(activate, deactivate, strict)
             \/ SwitchEnds
    <2>1. list' = list /\ links' = links /\ state' = state
      BY <1>5 DEF SwitchController, SwitchEnds, ctrl_vars
    <2> QED
      BY <1>0, <2>1, LinksAreKept DEF IsConfigured
  <1> QED
    BY <1>1, <1>2, <1>3, <1>4, <1>5 DEF Services

\* The loop changes no chain.
LEMMA LoopKeepsLinks ==
    ASSUME IInv, ListInv, LinksInv, Loop
    PROVE  LinksInv'
  <1>1. ASSUME list' = list, links' = links, \A c \in Controllers : IsConfigured(c)' => IsConfigured(c)
        PROVE  LinksInv'
    BY <1>1, LinksAreKept DEF ListInv
  <1>2. ASSUME NEW a, NEW controllers, NEW to, NEW from, NEW act, NEW strict,
               Start(a, controllers, to, from, act, strict)
        PROVE  LinksInv'
    <2>1. PICK out \in Deactivations(controllers) : Stop(out) /\ list' = list /\ links' = links
      BY <1>2 DEF Start
    <2> QED
      BY <1>1, <2>1, StopConfiguresNone
  <1>3. ASSUME NEW controllers, NEW offered, Deactivate(controllers, offered), list' = list, links' = links
        PROVE  LinksInv'
    <2>1. PICK out \in Deactivations(controllers) : Stop(out)
      BY <1>3 DEF Deactivate
    <2> QED
      BY <1>1, <1>3, <2>1, StopConfiguresNone
  <1>4. CASE ManageSwitch
    BY <1>2, <1>4 DEF ManageSwitch
  <1>5. CASE \E a \in Activators : FinishActivation(a)
    <2> PICK a \in Activators : FinishActivation(a)
      BY <1>5
    <2>1. Deactivate(Undone(a), available) /\ list' = list /\ links' = links
      BY DEF FinishActivation
    <2> QED
      BY <1>3, <2>1
  <1>6. CASE Publish \/ \E a \in Activators, c \in Controllers : Assign(a, c)
    <2>1. list' = list /\ links' = links /\ state' = state
      BY <1>6 DEF Publish, Assign, ctrl_vars
    <2> QED
      BY <1>1, <2>1 DEF IsConfigured
  <1>10. CASE \E a \in Activators, c \in Controllers : OnActivate(a, c)
    <2> PICK a \in Activators, c \in Controllers : OnActivate(a, c)
      BY <1>10
    <2>1. PICK s \in Activations(c) : state' = [state EXCEPT ![c] = s]
      BY DEF OnActivate
    <2>2. list' = list /\ links' = links
      BY DEF OnActivate
    <2>3. s \in States /\ (state[c] /= "inactive" => s = state[c])
      BY ActivationsAre
    <2>4. \A d \in Controllers : IsConfigured(d)' => IsConfigured(d)
      BY <2>1, <2>3 DEF IsConfigured, IInv
    <2> QED
      BY <1>1, <2>2, <2>4
  <1>7. CASE \E failed \in SUBSET Active : UpdateFails(failed)
    <2>1. PICK controllers, act : Start("update", controllers, {}, {}, act, TRUE)
      BY <1>7 DEF UpdateFails
    <2> QED
      BY <1>2, <2>1
  <1>8. CASE \E h \in Hardware : HardwareFails(h) \/ HardwareDeactivates(h)
    <2>1. PICK users, offered : Deactivate(users, offered) /\ list' = list /\ links' = links
      BY <1>8 DEF HardwareFails, HardwareDeactivates
    <2> QED
      BY <1>3, <2>1
  <1>9. CASE \E h \in Hardware : HardwareReturns(h)
    BY <1>1, <1>9 DEF HardwareReturns, ctrl_vars, IsConfigured
  <1> QED
    BY <1>4, <1>5, <1>6, <1>7, <1>8, <1>9, <1>10 DEF Loop

\* Controller c requires an interface of hardware h.
UsesHardware(c, h) == Range(Uses[c]) \cap Exports(h) /= {}

\* The hardware an active controller uses, or one that is to be activated, remembers it;
\* only what is requested is activated.
CacheInv ==
    /\ jobs["update"].doing \notin {"activating", "publishing"}
    /\ cached \in [Hardware -> SUBSET Controllers]
    /\ \A h \in Hardware, c \in Controllers :
          /\ UsesHardware(c, h)
          /\ state[c] = "active" \/ (request.pending /\ c \in Range(request.act))
          => c \in cached[h]

\* A step that makes no controller active and requests nothing.
LEMMA CacheIsKept ==
    ASSUME CacheInv, cached' = cached, request' \in {request, NoRequest},
           jobs'["update"].doing \notin {"activating", "publishing"},
           \A c \in Controllers : state'[c] = "active" => state[c] = "active"
    PROVE  CacheInv'
  BY DEF CacheInv, NoRequest

\* deactivate_controllers activates no controller.
LEMMA StopActivatesNone ==
    ASSUME IInv, NEW controllers, NEW out \in Deactivations(controllers), Stop(out)
    PROVE  \A c \in Controllers : state'[c] = "active" => state[c] = "active"
  BY StopDoes DEF Active

\* A request is remembered by the hardware before the loop comes to it.
LEMMA ServicesKeepCache ==
    ASSUME IInv, ListInv, SwitchInv, CacheInv, Services
    PROVE  CacheInv'
  <1>1. CASE \E c \in Controllers : Load(c) \/ Configure(c) \/ Cleanup(c) \/ Unload(c)
    <2>0. PICK c \in Controllers : Load(c) \/ Configure(c) \/ Cleanup(c) \/ Unload(c)
      BY <1>1
    <2>1. cached' = cached /\ request' = request /\ jobs' = jobs
      BY <2>0 DEF Load, Configure, Cleanup, Unload, rm_vars, switch_vars
    <2>2. ASSUME NEW s, s /= "active", state' = [state EXCEPT ![c] = s]
          PROVE  \A d \in Controllers : state'[d] = "active" => state[d] = "active"
      BY <2>2 DEF IInv
    <2>3. \A d \in Controllers : state'[d] = "active" => state[d] = "active"
      <3>1. CASE Load(c)
        BY <2>2, <3>1 DEF Load
      <3>2. CASE Configure(c)
        BY <2>2, <3>2 DEF Configure, Outcomes
      <3>3. CASE Cleanup(c)
        BY <2>2, <3>3 DEF Cleanup, CleanupTo, Outcomes
      <3>4. CASE Unload(c)
        BY <2>2, <3>4 DEF Unload, CleanupTo, Outcomes
      <3> QED
        BY <2>0, <3>1, <3>2, <3>3, <3>4
    <2> QED
      BY <2>1, <2>3, CacheIsKept DEF CacheInv
  <1>2. CASE \E activate, deactivate \in Lists(MaxRequest), strict \in BOOLEAN :
                SwitchController(activate, deactivate, strict)
    <2> PICK activate \in Lists(MaxRequest), deactivate \in Lists(MaxRequest), strict \in BOOLEAN :
             SwitchController(activate, deactivate, strict)
      BY <1>2
    <2>1. PICK r : /\ CheckedIs(manager, available, strict, r)
                   /\ cached' = cache_controller_to_hardware(r.users)
                   /\ \/ Terminate /\ request' = request
                      \/ jobs' = jobs /\ request' = request
                      \/ /\ r.status = "ok" /\ jobs' = jobs
                         /\ \E asap \in BOOLEAN :
                               request' = [pending |-> TRUE, act |-> r.act, deact |-> Range(r.deact),
                                           to |-> r.to, from |-> r.from, strict |-> strict, asap |-> asap]
      BY SwitchControllerDoes
    <2>2. state' = state /\ ~request.pending
      BY DEF SwitchController, ctrl_vars, ServiceIsFree, ListIsFree
    <2>3. r.users \subseteq Controllers /\ (r.status = "ok" => Range(r.act) \subseteq r.users)
      BY <2>1 DEF CheckedIs, Requests
    <2>4. /\ cached' \in [Hardware -> SUBSET Controllers]
          /\ \A h \in Hardware : cached[h] \subseteq cached'[h]
      BY <2>1, <2>3 DEF cache_controller_to_hardware, CacheInv
    <2>5. \A h \in Hardware, c \in r.users : UsesHardware(c, h) => c \in cached'[h]
      BY <2>1 DEF cache_controller_to_hardware, UsesHardware, Exports
    <2>6. jobs'["update"].doing \notin {"activating", "publishing"}
      BY <2>1, ActivatorsAre, TerminateDoes DEF CacheInv, IInv
    <2>7. ASSUME NEW h \in Hardware, NEW c \in Controllers, UsesHardware(c, h),
                 state'[c] = "active" \/ (request'.pending /\ c \in Range(request'.act))
          PROVE  c \in cached'[h]
      <3>1. CASE state[c] = "active"
        BY <2>4, <2>7, <3>1 DEF CacheInv
      <3>2. CASE request'.pending /\ c \in Range(request'.act)
        <4>1. c \in r.users
          BY <2>1, <2>2, <2>3, <3>2
        <4> QED
          BY <2>5, <2>7, <4>1
      <3> QED
        BY <2>2, <2>7, <3>1, <3>2
    <2> QED
      BY <2>4, <2>6, <2>7 DEF CacheInv
  <1>3. CASE SwitchEnds
    BY <1>3, CacheIsKept DEF SwitchEnds, ctrl_vars, rm_vars, CacheInv
  <1> QED
    BY <1>1, <1>2, <1>3 DEF Services

\* Only a switch activates controllers, and only those of the request.
LEMMA OnlySwitchActivates ==
    ASSUME SwitchInv, CacheInv, NEW a \in Activators, jobs[a].doing = "activating", jobs[a].todo /= <<>>
    PROVE  a = "switch" /\ Performing /\ request.pending /\ Head(jobs[a].todo) \in Range(request.act)
  <1>1. a = "switch" /\ Performing
    BY DEF CacheInv, Activators, Performing
  <1>2. /\ request.pending /\ jobs[a].todo \in Seq(Controllers)
        /\ Range(jobs[a].todo) \subseteq Range(request.act)
    BY <1>1 DEF SwitchInv
  <1> QED
    BY <1>1, <1>2, RangeOfTail

\* A switch activates only what is requested.
LEMMA LoopKeepsCache ==
    ASSUME "update" \notin Faults, IInv, ListInv, SwitchInv, CacheInv, Loop
    PROVE  CacheInv'
  <1>0. JobsInv /\ jobs["update"].doing \notin {"activating", "publishing"}
    BY DEF IInv, CacheInv
  <1>1. ASSUME NEW controllers, NEW offered, Deactivate(controllers, offered), cached' = cached,
               request' \in {request, NoRequest}, jobs'["update"] = jobs["update"]
        PROVE  CacheInv'
    <2>1. PICK out \in Deactivations(controllers) : Stop(out)
      BY <1>1 DEF Deactivate
    <2>2. \A c \in Controllers : state'[c] = "active" => state[c] = "active"
      BY <2>1, StopActivatesNone
    <2> QED
      BY <1>0, <1>1, <2>2, CacheIsKept
  <1>2. CASE ManageSwitch
    <2>1. PICK out \in Deactivations(request.deact) : Stop(out)
      BY <1>2 DEF ManageSwitch, Start
    <2>2. \A c \in Controllers : state'[c] = "active" => state[c] = "active"
      BY <2>1, StopActivatesNone
    <2>3. cached' = cached /\ request' = request
      BY <1>2 DEF ManageSwitch, Start
    <2>4. jobs'["update"].doing = "terminated" \/ jobs'["update"] = jobs["update"]
      BY <1>0, <1>2, SwitchBegins, TerminateDoes, ActivatorsAre
    <2> QED
      BY <1>0, <2>2, <2>3, <2>4, CacheIsKept
  <1>3. CASE FinishActivation("switch")
    <2>1. /\ Deactivate(Undone("switch"), available) /\ cached' = cached
          /\ request' \in {request, NoRequest}
      BY <1>3 DEF FinishActivation
    <2>2. jobs'["update"] = jobs["update"]
      BY <1>0, <1>3, ActivatorsAre, FinishDoes
    <2> QED
      BY <1>1, <2>1, <2>2
  <1>4. ~FinishActivation("update") /\ ~Publish
    BY <1>0 DEF FinishActivation, Publish
  <1>5. CASE \E a \in Activators, c \in Controllers : Assign(a, c)
    <2> PICK a \in Activators, c \in Controllers : Assign(a, c)
      BY <1>5
    <2>1. cached' = cached /\ request' = request /\ state' = state
      BY DEF Assign
    <2>2. a = "switch"
      BY OnlySwitchActivates DEF Assign
    <2>3. jobs'["update"].doing = "terminated" \/ jobs'["update"] = jobs["update"]
      BY <1>0, <2>2, AssignDoes, TerminateDoes, ActivatorsAre
    <2> QED
      BY <1>0, <2>1, <2>3, CacheIsKept
  <1>6. CASE \E a \in Activators, c \in Controllers : OnActivate(a, c)
    <2> PICK a \in Activators, c \in Controllers : OnActivate(a, c)
      BY <1>6
    <2>1. cached' = cached /\ request' = request /\ jobs[a].doing = "activating"
      BY DEF OnActivate
    <2>2. /\ jobs[a].todo /= <<>> /\ c = Head(jobs[a].todo)
          /\ \A b \in Activators : b /= a => jobs'[b] = jobs[b]
          /\ \E s : state' = [state EXCEPT ![c] = s]
      BY <1>0, OnActivateDoes
    <2>3. a = "switch" /\ request.pending /\ c \in Range(request.act)
      BY <2>1, <2>2, OnlySwitchActivates
    <2>4. jobs'["update"] = jobs["update"]
      BY <2>2, <2>3, ActivatorsAre
    <2>5. \A d \in Controllers : d = c \/ state'[d] = state[d]
      BY <2>2 DEF IInv
    <2> QED
      BY <1>0, <2>1, <2>3, <2>4, <2>5 DEF CacheInv
  <1>7. ~ \E failed \in SUBSET Active : UpdateFails(failed)
    BY DEF UpdateFails
  <1>8. CASE \E h \in Hardware : HardwareFails(h) \/ HardwareDeactivates(h)
    <2>1. PICK users, offered : /\ Deactivate(users, offered) /\ cached' = cached
                                /\ request' = request /\ jobs' = jobs
      BY <1>8 DEF HardwareFails, HardwareDeactivates, switch_vars
    <2> QED
      BY <1>1, <2>1
  <1>9. CASE \E h \in Hardware : HardwareReturns(h)
    BY <1>0, <1>9, CacheIsKept DEF HardwareReturns, ctrl_vars, switch_vars
  <1> QED
    BY <1>2, <1>3, <1>4, <1>5, <1>6, <1>7, <1>8, <1>9 DEF Loop, Activators

\* Interfaces have one owner.
LEMMA OwnersDiffer == \A c, d : c /= d => Exports(c) \cap Exports(d) = {}
  BY DEF Exports

\* Only an error of the hardware itself takes its interfaces away.
LEMMA HardwareIsOffered ==
    ASSUME IInv, ListInv, [Next]_vars, NEW h \in Hardware, ~HardwareFails(h)
    PROVE  Exports(h) \cap available \subseteq available'
  <1>0. \A c \in Controllers : Exports(h) \cap Exports(c) = {}
    BY OwnersDiffer, InterfaceAssumption
  <1>1. ASSUME NEW a, NEW controllers, NEW to, NEW from, NEW act, NEW strict,
               Start(a, controllers, to, from, act, strict)
        PROVE  Exports(h) \cap available \subseteq available'
    <2> DEFINE starting == { c \in Range(act) \cap Range(list) : Chainable(c) }
    <2>1. PICK out \in Deactivations(controllers) :
             available' = (available \ UNION { Exports(c) : c \in DOMAIN out })
                             \cup UNION { Exports(c) : c \in starting \cap exported }
      BY <1>1 DEF Start
    <2>2. DOMAIN out \subseteq Controllers
      BY DEF Deactivations, Active
    <2> QED
      BY <1>0, <2>1, <2>2
  <1>2. ASSUME NEW controllers, NEW offered, Deactivate(controllers, offered),
               Exports(h) \cap available \subseteq offered
        PROVE  Exports(h) \cap available \subseteq available'
    <2>1. PICK out \in Deactivations(controllers) :
             available' = offered \ UNION { Exports(c) : c \in DOMAIN out }
      BY <1>2 DEF Deactivate
    <2>2. DOMAIN out \subseteq Controllers
      BY DEF Deactivations, Active
    <2> QED
      BY <1>0, <1>2, <2>1, <2>2
  <1>3. CASE Services
    <2>1. CASE \E c \in Controllers : Load(c) \/ Configure(c) \/ Cleanup(c) \/ Unload(c)
      <3>1. \E c \in Controllers : available' = available \/ available' = available \ Exports(c)
        BY <2>1 DEF Load, Configure, Cleanup, Unload, rm_vars
      <3> QED
        BY <1>0, <3>1
    <2>2. CASE \E activate, deactivate \in Lists(MaxRequest), strict \in BOOLEAN :
                  SwitchController(activate, deactivate, strict)
      <3> PICK activate \in Lists(MaxRequest), deactivate \in Lists(MaxRequest), strict \in BOOLEAN :
               SwitchController(activate, deactivate, strict)
        BY <2>2
      <3>1. PICK r : CheckedIs(manager, available, strict, r) /\ available' = r.available
        BY SwitchControllerDoes
      <3> QED
        BY <3>1 DEF CheckedIs
    <2>3. CASE SwitchEnds
      BY <2>3 DEF SwitchEnds, rm_vars
    <2> QED
      BY <1>3, <2>1, <2>2, <2>3 DEF Services
  <1>4. CASE Loop
    <2>1. CASE ManageSwitch
      BY <1>1, <2>1 DEF ManageSwitch
    <2>2. CASE \E a \in Activators : FinishActivation(a)
      <3>1. PICK a \in Activators : Deactivate(Undone(a), available)
        BY <2>2 DEF FinishActivation
      <3> QED
        BY <1>2, <3>1
    <2>3. CASE \E a \in Activators, c \in Controllers : OnActivate(a, c)
      <3>1. PICK c \in Controllers : \/ available' = available \cup Exports(c)
                                     \/ available' = available \ Exports(c)
        BY <2>3 DEF OnActivate
      <3> QED
        BY <1>0, <3>1
    <2>8. CASE Publish \/ \E a \in Activators, c \in Controllers : Assign(a, c)
      BY <2>8 DEF Publish, Assign, rm_vars
    <2>4. CASE \E failed \in SUBSET Active : UpdateFails(failed)
      <3>1. PICK controllers, act : Start("update", controllers, {}, {}, act, TRUE)
        BY <2>4 DEF UpdateFails
      <3> QED
        BY <1>1, <3>1
    <2>5. CASE \E k \in Hardware : HardwareFails(k)
      <3> PICK k \in Hardware : HardwareFails(k)
        BY <2>5
      <3>1. Deactivate(cached[k], available \ Exports(k)) /\ Exports(h) \cap Exports(k) = {}
        BY OwnersDiffer DEF HardwareFails
      <3>2. Exports(h) \cap available \subseteq available \ Exports(k)
        BY <3>1
      <3> QED
        BY <1>2, <3>1, <3>2
    <2>6. CASE \E k \in Hardware : HardwareReturns(k)
      BY <2>6 DEF HardwareReturns
    <2>7. CASE \E k \in Hardware : HardwareDeactivates(k)
      <3>1. PICK users : Deactivate(users, available)
        BY <2>7 DEF HardwareDeactivates
      <3> QED
        BY <1>2, <3>1
    <2> QED
      BY <1>4, <2>1, <2>2, <2>3, <2>4, <2>5, <2>6, <2>7, <2>8 DEF Loop
  <1>5. CASE UNCHANGED vars
    BY <1>5 DEF vars
  <1> QED
    BY <1>3, <1>4, <1>5 DEF Next

\* An error of the hardware stops whoever it remembers.
LEMMA FailureStopsUsers ==
    ASSUME "deactivate" \notin Faults, IInv, ListInv, CacheInv,
           NEW h \in Hardware, HardwareFails(h), NEW c \in Controllers, UsesHardware(c, h)
    PROVE  state'[c] /= "active"
  <1>1. PICK out \in Deactivations(cached[h]) : Stop(out)
    BY DEF HardwareFails, Deactivate
  <1>2. /\ DOMAIN out = cached[h] \cap Active
        /\ \A d \in DOMAIN out : out[d] = "inactive"
        /\ \A d \in Controllers : state'[d] = IF d \in DOMAIN out THEN out[d] ELSE state[d]
    <2>1. Outcomes("inactive", "active", "deactivate") = {"inactive"}
      BY DEF Outcomes
    <2>2. /\ DOMAIN out = cached[h] \cap Active
          /\ \A d \in DOMAIN out : out[d] \in Outcomes("inactive", "active", "deactivate")
          /\ \A d \in Controllers : state'[d] = IF d \in DOMAIN out THEN out[d] ELSE state[d]
      <3> HIDE DEF Deactivations
      <3> QED
        BY <1>1, StopDoes, Zenon
    <2>3. \A d \in DOMAIN out : out[d] = "inactive"
      BY <2>1, <2>2
    <2> QED
      BY <2>2, <2>3
  <1>3. CASE state[c] = "active"
    <2>1. c \in cached[h] /\ c \in Active
      BY <1>3 DEF CacheInv, ListInv, Active
    <2> QED
      BY <1>2, <2>1
  <1> QED
    BY <1>2, <1>3

-----------------------------------------------------------------------------
(* Strict requests.                                                         *)

\* None of the interfaces that f exports is available.
Withdrawn(f) == Exports(f) \cap available = {}

\* A controller to activate is followed by controllers that are to be activated, too, or
\* that stay active.  If one of them fails while the switch waits for the loop, its
\* interfaces are withdrawn, and the controller cannot be activated; if it fails beside the
\* switch, the loop has deactivated it.
ActivatedInv ==
    \A c \in Range(request.act) \ request.deact :
       /\ Performing \/ state[c] /= "active"
       /\ \A f \in Followers(c) \ Range(request.act) :
             /\ f \notin request.deact
             /\ \/ state[f] = "active" \/ f \in stopped
                \/ Withdrawn(f) /\ state[c] /= "active" /\ c \notin Assigned("switch")

\* A controller to deactivate, once the switch has begun, has no interface available and is
\* used by no active controller, nor by one about to be active; before, its active users are
\* deactivated with it.
DeactivatedInv ==
    \A f \in request.deact \ Range(request.act) :
       IF Performing
       THEN /\ Withdrawn(f)
            /\ \A c \in Controllers : f \in Followers(c) =>
                  state[c] /= "active" /\ c \notin Assigned("switch")
       ELSE /\ state[f] = "active" \/ Withdrawn(f)
            /\ \A c \in Controllers : f \in Followers(c) /\ state[c] = "active" => c \in request.deact

\* A strict request waits for the loop, or is worked on.
Switches == request.pending /\ request.strict /\ jobs["switch"].doing /= "terminated"
StrictInv == Switches => ActivatedInv /\ DeactivatedInv

\* Followers are exporters of interfaces the controller requires.
LEMMA FollowersAre ==
    ASSUME ListInv, NEW c \in Controllers, NEW f \in Followers(c)
    PROVE  /\ f \in Controllers /\ f \in Range(list)
           /\ \E i \in Interfaces : i \in Range(Uses[c]) /\ Exporter[i] = f
  <1>1. Uses[c] \in Seq(Interfaces) /\ Range(Uses[c]) \subseteq Interfaces
    BY InterfaceAssumption, RangeEquality
  <1>2. Range(list) \subseteq Controllers
    BY RangeEquality DEF ListInv
  <1> QED
    BY <1>1, <1>2 DEF Followers

\* A controller cannot claim what is withdrawn.
LEMMA WithdrawnIsNotClaimed ==
    ASSUME ListInv, NEW c \in Controllers, NEW f \in Followers(c), Withdrawn(f)
    PROVE  ~CanClaim(c)
  <1>1. PICK i \in Interfaces : i \in Range(Uses[c]) /\ Exporter[i] = f
    BY FollowersAre
  <1>2. i \notin available
    BY <1>1 DEF Withdrawn, Exports
  <1> QED
    BY <1>1, <1>2 DEF CanClaim, Commands, Observed

\* What a strict request hands over to the loop.
LEMMA RequestIsStrict ==
    ASSUME ListInv, LinksInv, NEW strict, NEW r, strict, CheckedIs(manager, available, strict, r),
           r.status = "ok", list' = list, state' = state, ~Performing',
           request'.act = r.act, request'.deact = Range(r.deact)
    PROVE  ActivatedInv' /\ DeactivatedInv'
  <1> DEFINE A == Range(r.act)
             D == Range(r.deact)
  <1>1. /\ A \subseteq Controllers /\ D \subseteq Controllers
        /\ StrictlyChecked(manager, r)
    BY RangeEquality DEF CheckedIs, Requests
  <1>2. /\ \A c \in D : state[c] = "active"
        /\ \A c \in A \ D :
              /\ state[c] = "inactive"
              /\ \A i \in Range(Uses[c]) : Exporter[i] \in Range(list) =>
                    Exporter[i] \in A \/ (state[Exporter[i]] = "active" /\ Exporter[i] \notin D)
        /\ \A f \in D \ A : \A p \in Range(list) : <<p, f>> \in links /\ state[p] = "active" => p \in D
    BY <1>1 DEF StrictlyChecked, ChainedInterface, Loaded, Preceding, manager
  <1> HIDE DEF A, D
  <1>3. Range(request'.act) = A /\ request'.deact = D /\ \A c : Followers(c)' = Followers(c)
    BY DEF Followers, A, D
  <1>4. ASSUME NEW c \in A \ D
        PROVE  /\ state'[c] /= "active"
               /\ \A f \in Followers(c)' \ A : f \notin D /\ state'[f] = "active"
    <2>1. state'[c] /= "active"
      BY <1>2
    <2>2. ASSUME NEW f \in Followers(c) \ A PROVE f \notin D /\ state'[f] = "active"
      <3>1. PICK i \in Range(Uses[c]) : Exporter[i] = f /\ Exporter[i] \in Range(list)
        BY DEF Followers
      <3> QED
        BY <1>2, <3>1
    <2> QED
      BY <1>3, <2>1, <2>2
  <1>5. ASSUME NEW f \in D \ A
        PROVE  /\ state'[f] = "active"
               /\ \A c \in Controllers : f \in Followers(c)' /\ state'[c] = "active" => c \in D
    <2>1. state[f] = "active"
      BY <1>2
    <2>2. ASSUME NEW c \in Controllers, f \in Followers(c), state[c] = "active" PROVE c \in D
      <3>1. c \in Range(list) /\ f \in Range(list)
        BY <1>1, <2>1, <2>2 DEF ListInv
      <3>2. <<c, f>> \in links
        BY <2>1, <2>2, <3>1 DEF LinksInv, IsConfigured
      <3> QED
        BY <1>2, <2>2, <3>1, <3>2
    <2> QED
      BY <1>3, <2>1, <2>2
  <1>6. ActivatedInv'
    BY <1>3, <1>4 DEF ActivatedInv
  <1>7. DeactivatedInv'
    BY <1>3, <1>5 DEF DeactivatedInv
  <1> QED
    BY <1>6, <1>7

\* What a strict request is checked for, and what waits for the end of a switch.
LEMMA ServicesKeepStrict ==
    ASSUME ListInv, SwitchInv, LinksInv, StrictInv, Services
    PROVE  StrictInv'
  <1>1. CASE \E c \in Controllers : Load(c) \/ Configure(c) \/ Cleanup(c) \/ Unload(c)
    <2>1. request' = request /\ ~request.pending
      BY <1>1 DEF Load, Configure, Cleanup, Unload, ServiceIsFree, ListIsFree, switch_vars
    <2> QED
      BY <2>1 DEF StrictInv, Switches
  <1>2. CASE \E activate, deactivate \in Lists(MaxRequest), strict \in BOOLEAN :
                SwitchController(activate, deactivate, strict)
    <2> PICK activate \in Lists(MaxRequest), deactivate \in Lists(MaxRequest), strict \in BOOLEAN :
             SwitchController(activate, deactivate, strict)
      BY <1>2
    <2>1. PICK r : /\ CheckedIs(manager, available, strict, r)
                   /\ \/ Terminate /\ request' = request
                      \/ jobs' = jobs /\ request' = request
                      \/ /\ r.status = "ok" /\ jobs' = jobs
                         /\ \E asap \in BOOLEAN :
                               request' = [pending |-> TRUE, act |-> r.act, deact |-> Range(r.deact),
                                           to |-> r.to, from |-> r.from, strict |-> strict, asap |-> asap]
      BY SwitchControllerDoes
    <2>2. state' = state /\ list' = list /\ ~request.pending /\ jobs["switch"].doing = "nothing"
      BY ActivatorsAre DEF SwitchController, ctrl_vars, ServiceIsFree, ListIsFree
    <2>3. CASE request' = request
      BY <2>2, <2>3 DEF StrictInv, Switches
    <2>4. CASE /\ r.status = "ok" /\ jobs' = jobs
               /\ \E asap \in BOOLEAN :
                     request' = [pending |-> TRUE, act |-> r.act, deact |-> Range(r.deact),
                                 to |-> r.to, from |-> r.from, strict |-> strict, asap |-> asap]
      <3>1. ~Performing'
        BY <2>2, <2>4 DEF Performing
      <3>2. request'.act = r.act /\ request'.deact = Range(r.deact) /\ request'.strict = strict
        BY <2>4
      <3>3. strict => ActivatedInv' /\ DeactivatedInv'
        BY <2>1, <2>2, <2>4, <3>1, <3>2, RequestIsStrict
      <3> QED
        BY <3>2, <3>3 DEF StrictInv, Switches
    <2> QED
      BY <2>1, <2>3, <2>4
  <1>3. CASE SwitchEnds
    BY <1>3 DEF SwitchEnds, StrictInv, Switches, NoRequest
  <1> QED
    BY <1>1, <1>2, <1>3 DEF Services

\* deactivate_controllers if on_deactivate does not fail.
LEMMA StopStops ==
    ASSUME "deactivate" \notin Faults, IInv, NEW controllers, NEW out \in Deactivations(controllers), Stop(out)
    PROVE  /\ DOMAIN out = controllers \cap Active
           /\ \A c \in Controllers : state'[c] = IF c \in DOMAIN out THEN "inactive" ELSE state[c]
  <1>1. Outcomes("inactive", "active", "deactivate") = {"inactive"}
    BY DEF Outcomes
  <1> QED
    BY <1>1, StopDoes

\* What the hardware's failure takes away: who is deactivated is withdrawn, and beside a
\* switch it is noted.
LEMMA FailureKeepsStrict ==
    ASSUME "deactivate" \notin Faults, IInv, ListInv, SwitchInv, StrictInv,
           NEW controllers, NEW offered \in SUBSET available, Deactivate(controllers, offered),
           Note(controllers), list' = list, request' = request, jobs' = jobs
    PROVE  StrictInv'
  <1>1. PICK out \in Deactivations(controllers) :
           Stop(out) /\ available' = offered \ UNION { Exports(c) : c \in DOMAIN out }
    BY DEF Deactivate
  <1> DEFINE off == DOMAIN out
  <1>2. /\ off = controllers \cap Active
        /\ \A c \in Controllers : state'[c] = IF c \in off THEN "inactive" ELSE state[c]
    BY <1>1, StopStops
  <1>3. available' \subseteq available /\ \A c \in off : Exports(c) \cap available' = {}
    BY <1>1
  <1> HIDE DEF off
  <1>4. stopped' = IF Performing THEN stopped \cup off ELSE stopped
    BY <1>2 DEF Note
  <1>5. Performing' = Performing /\ Assigned("switch")' = Assigned("switch")
    BY DEF Performing, Assigned
  <1>6. ASSUME NEW f \in Controllers
        PROVE  /\ Withdrawn(f) => Withdrawn(f)'
               /\ state[f] = "active" => state'[f] = "active" \/ Withdrawn(f)'
               /\ Performing /\ state[f] = "active" => state'[f] = "active" \/ f \in stopped'
               /\ state'[f] = "active" => state[f] = "active"
    BY <1>2, <1>3, <1>4 DEF Withdrawn
  <1>7. \A c : Followers(c)' = Followers(c)
    BY DEF Followers
  <1> SUFFICES ASSUME Switches PROVE ActivatedInv' /\ DeactivatedInv'
    BY DEF StrictInv, Switches
  <1>8. /\ request.deact \subseteq Controllers /\ Range(request.act) \subseteq Controllers
        /\ ActivatedInv /\ DeactivatedInv
    BY RequestedAre DEF StrictInv, Switches
  <1>9. ~Performing => Assigned("switch") = {}
    BY ActivatorsAre DEF IInv, JobsInv, Assigned, Performing, Switches, SwitchInv
  <1>10. ActivatedInv'
    <2> SUFFICES ASSUME NEW c \in Range(request.act) \ request.deact
                 PROVE  /\ Performing \/ state'[c] /= "active"
                        /\ \A f \in Followers(c) \ Range(request.act) :
                              /\ f \notin request.deact
                              /\ \/ state'[f] = "active" \/ f \in stopped'
                                 \/ Withdrawn(f)' /\ state'[c] /= "active" /\ c \notin Assigned("switch")
      BY <1>5, <1>7 DEF ActivatedInv
    <2>1. Performing \/ state'[c] /= "active"
      BY <1>6, <1>8 DEF ActivatedInv
    <2>2. ASSUME NEW f \in Followers(c) \ Range(request.act)
          PROVE  /\ f \notin request.deact
                 /\ \/ state'[f] = "active" \/ f \in stopped'
                    \/ Withdrawn(f)' /\ state'[c] /= "active" /\ c \notin Assigned("switch")
      <3>1. f \in Controllers /\ c \in Controllers
        BY <1>8, FollowersAre
      <3>2. /\ f \notin request.deact
            /\ \/ state[f] = "active" \/ f \in stopped
               \/ Withdrawn(f) /\ state[c] /= "active" /\ c \notin Assigned("switch")
        BY <1>8 DEF ActivatedInv
      <3>3. f \in stopped => f \in stopped'
        BY <1>4
      <3> QED
        BY <1>6, <1>9, <2>1, <3>1, <3>2, <3>3
    <2> QED
      BY <2>1, <2>2
  <1>11. DeactivatedInv'
    <2> SUFFICES ASSUME NEW f \in request.deact \ Range(request.act)
                 PROVE  IF Performing
                        THEN /\ Withdrawn(f)'
                             /\ \A c \in Controllers : f \in Followers(c) =>
                                   state'[c] /= "active" /\ c \notin Assigned("switch")
                        ELSE /\ state'[f] = "active" \/ Withdrawn(f)'
                             /\ \A c \in Controllers :
                                   f \in Followers(c) /\ state'[c] = "active" => c \in request.deact
      BY <1>5, <1>7 DEF DeactivatedInv
    <2> QED
      BY <1>6, <1>8 DEF DeactivatedInv
  <1> QED
    BY <1>10, <1>11

\* manage_switch deactivates first, and offers the interfaces of the controllers to activate.
LEMMA ManageKeepsStrict ==
    ASSUME "deactivate" \notin Faults, IInv, ListInv, SwitchInv, StrictInv, ManageSwitch
    PROVE  StrictInv'
  <1>0. JobsInv
    BY DEF IInv
  <1> SUFFICES ASSUME Switches', ~Terminate PROVE ActivatedInv' /\ DeactivatedInv'
    BY <1>0, ActivatorsAre, TerminateDoes DEF StrictInv, Switches
  <1> DEFINE A == Range(request.act)
             D == request.deact
             starting == { c \in A \cap Range(list) : Chainable(c) }
  <1>1. ~Performing /\ Switches /\ request' = request /\ request.pending /\ stopped' = stopped
    BY DEF ManageSwitch, Performing, Switches
  <1>2. PICK out \in Deactivations(D) :
           /\ Stop(out) /\ list' = list
           /\ available' = (available \ UNION { Exports(c) : c \in DOMAIN out })
                              \cup UNION { Exports(c) : c \in starting \cap exported }
    BY DEF ManageSwitch, Start
  <1>3. Performing' /\ Assigned("switch")' = {}
    BY <1>0, SwitchBegins DEF Performing, Assigned
  <1> DEFINE off == DOMAIN out
  <1>4. /\ off = D \cap Active
        /\ \A c \in Controllers : state'[c] = IF c \in off THEN "inactive" ELSE state[c]
    BY <1>2, StopStops
  <1>5. ASSUME NEW f, f \notin A
        PROVE  /\ Withdrawn(f) => Withdrawn(f)'
               /\ f \in off => Withdrawn(f)'
    <2>1. \A c \in starting : Exports(f) \cap Exports(c) = {}
      BY <1>5, OwnersDiffer
    <2> QED
      BY <1>2, <2>1 DEF Withdrawn
  <1> HIDE DEF off, starting
  <1>6. \A c : Followers(c)' = Followers(c)
    BY <1>2 DEF Followers
  <1>7. D \subseteq Controllers /\ A \subseteq Controllers /\ D \subseteq Range(list)
    BY <1>1, RequestedAre DEF SwitchInv
  <1> HIDE DEF A, D
  <1>8. ActivatedInv /\ DeactivatedInv
    BY <1>1 DEF StrictInv
  <1>9. ASSUME NEW c \in A \ D, NEW f \in Followers(c) \ A
        PROVE  /\ f \notin D
               /\ \/ state'[f] = "active" \/ f \in stopped
                  \/ Withdrawn(f)' /\ state'[c] /= "active"
    <2>1. f \in Controllers
      BY <1>7, FollowersAre
    <2>2. /\ f \notin D /\ state[c] /= "active"
          /\ state[f] = "active" \/ f \in stopped \/ Withdrawn(f)
      BY <1>1, <1>8 DEF ActivatedInv, A, D
    <2> QED
      BY <1>4, <1>5, <1>7, <2>1, <2>2
  <1>10. ASSUME NEW f \in D \ A
         PROVE  Withdrawn(f)' /\ \A c \in Controllers : f \in Followers(c) => state'[c] /= "active"
    <2>1. /\ state[f] = "active" \/ Withdrawn(f)
          /\ \A c \in Controllers : f \in Followers(c) /\ state[c] = "active" => c \in D
      BY <1>1, <1>8 DEF DeactivatedInv, A, D
    <2>2. \A c \in D : state[c] = "active" => c \in off
      BY <1>4, <1>7 DEF Active
    <2> QED
      BY <1>4, <1>5, <2>1, <2>2
  <1>11. ActivatedInv'
    BY <1>1, <1>3, <1>6, <1>9 DEF ActivatedInv, A, D
  <1>12. DeactivatedInv'
    BY <1>1, <1>3, <1>6, <1>10 DEF DeactivatedInv, A, D
  <1> QED
    BY <1>11, <1>12

\* A controller that is given its interfaces has all it requires, so it is no user of a
\* controller that is withdrawn.
LEMMA AssignKeepsStrict ==
    ASSUME IInv, ListInv, SwitchInv, CacheInv, StrictInv, NEW a \in Activators, NEW c \in Controllers,
           Assign(a, c)
    PROVE  StrictInv'
  <1>0. JobsInv
    BY DEF IInv
  <1> SUFFICES ASSUME Switches', ~Terminate PROVE ActivatedInv' /\ DeactivatedInv'
    BY <1>0, ActivatorsAre, TerminateDoes DEF StrictInv, Switches
  <1>1. /\ request' = request /\ list' = list /\ state' = state /\ available' = available
        /\ stopped' = stopped /\ ~jobs[a].assigned
        /\ a = "switch" /\ Performing
    BY OnlySwitchActivates DEF Assign
  <1>2. Performing' /\ (Assigned("switch")' = {} \/ (Assigned("switch")' = {c} /\ CanClaim(c)))
    BY <1>0, <1>1, AssignDoes DEF Performing, Assigned
  <1>3. ActivatedInv /\ DeactivatedInv
    BY <1>1 DEF StrictInv, Switches, Performing
  <1>4. \A d : Followers(d)' = Followers(d) /\ Withdrawn(d)' = Withdrawn(d)
    BY <1>1 DEF Followers, Withdrawn
  <1>5. ASSUME NEW d \in Controllers, NEW f \in Followers(d), Withdrawn(f)
        PROVE  d \notin Assigned("switch")'
    BY <1>2, <1>5, WithdrawnIsNotClaimed
  <1>6. request.pending /\ Range(request.act) \subseteq Controllers
    BY <1>1, RequestedAre DEF SwitchInv
  <1>7. ActivatedInv'
    BY <1>1, <1>2, <1>3, <1>4, <1>5, <1>6 DEF ActivatedInv
  <1>8. DeactivatedInv'
    BY <1>1, <1>2, <1>3, <1>4, <1>5 DEF DeactivatedInv
  <1> QED
    BY <1>7, <1>8

\* on_activate activates nobody else.
LEMMA OnActivateKeepsStrict ==
    ASSUME IInv, ListInv, SwitchInv, CacheInv, StrictInv, NEW a \in Activators, NEW c \in Controllers,
           OnActivate(a, c)
    PROVE  StrictInv'
  <1>0. JobsInv
    BY DEF IInv
  <1> SUFFICES ASSUME Switches' PROVE ActivatedInv' /\ DeactivatedInv'
    BY DEF StrictInv
  <1> DEFINE A == Range(request.act)
             D == request.deact
  <1>1. /\ request' = request /\ list' = list /\ stopped' = stopped
        /\ jobs[a].doing = "activating" /\ c \in Assigned(a)
    BY DEF OnActivate
  <1>2. /\ jobs[a].todo /= <<>> /\ c = Head(jobs[a].todo)
        /\ ~jobs'[a].assigned /\ jobs'[a].doing = "activating"
        /\ \E s : state' = [state EXCEPT ![c] = s]
        /\ available' = available \cup Exports(c) \/ available' = available \ Exports(c)
    BY <1>0, OnActivateDoes
  <1>3. a = "switch" /\ Performing /\ request.pending /\ c \in A
    BY <1>1, <1>2, OnlySwitchActivates
  <1>4. Performing' /\ Assigned("switch")' = {} /\ c \in Assigned("switch")
    BY <1>1, <1>2, <1>3 DEF Performing, Assigned
  <1>5. ActivatedInv /\ DeactivatedInv
    BY <1>1, <1>3 DEF StrictInv, Switches, Performing
  <1>6. /\ \A d \in Controllers : d /= c => state'[d] = state[d]
        /\ available' \subseteq available \cup Exports(c)
    BY <1>2 DEF IInv
  <1>7. \A d : Followers(d)' = Followers(d)
    BY <1>1 DEF Followers
  <1>8. A \subseteq Controllers /\ D \subseteq Controllers
    BY <1>3, RequestedAre
  <1> HIDE DEF A, D
  <1>9. ASSUME NEW f, f \notin A, Withdrawn(f) PROVE Withdrawn(f)'
    <2>1. Exports(f) \cap Exports(c) = {}
      BY <1>3, <1>9, OwnersDiffer
    <2> QED
      BY <1>6, <1>9, <2>1 DEF Withdrawn
  <1>10. ASSUME NEW d \in A \ D, NEW f \in Followers(d) \ A
         PROVE  /\ f \notin D
                /\ \/ state'[f] = "active" \/ f \in stopped
                   \/ Withdrawn(f)' /\ state'[d] /= "active"
    <2>1. f \in Controllers /\ f /= c /\ d \in Controllers
      BY <1>3, <1>8, FollowersAre
    <2>2. /\ f \notin D
          /\ \/ state[f] = "active" \/ f \in stopped
             \/ Withdrawn(f) /\ state[d] /= "active" /\ d /= c
      BY <1>4, <1>5 DEF ActivatedInv, A, D
    <2> QED
      BY <1>6, <1>9, <2>1, <2>2
  <1>11. ASSUME NEW f \in D \ A
         PROVE  Withdrawn(f)' /\ \A d \in Controllers : f \in Followers(d) => state'[d] /= "active"
    <2>1. Withdrawn(f) /\ \A d \in Controllers : f \in Followers(d) => state[d] /= "active" /\ d /= c
      BY <1>3, <1>4, <1>5 DEF DeactivatedInv, A, D
    <2> QED
      BY <1>6, <1>9, <2>1
  <1>12. ActivatedInv'
    BY <1>1, <1>4, <1>7, <1>10 DEF ActivatedInv, A, D
  <1>13. DeactivatedInv'
    BY <1>1, <1>4, <1>7, <1>11 DEF DeactivatedInv, A, D
  <1> QED
    BY <1>12, <1>13

\* What happens while a strict request waits for the loop, and when it is worked on.
LEMMA LoopKeepsStrict ==
    ASSUME Faults \cap {"deactivate", "update"} = {},
           IInv, ListInv, SwitchInv, CacheInv, StrictInv, Loop
    PROVE  StrictInv'
  <1>0. "deactivate" \notin Faults /\ "update" \notin Faults
    OBVIOUS
  <1>1. CASE ManageSwitch
    BY <1>0, <1>1, ManageKeepsStrict
  <1>2. CASE FinishActivation("switch")
    <2>1. request' = NoRequest
      BY <1>2 DEF FinishActivation
    <2> QED
      BY <2>1 DEF StrictInv, Switches, NoRequest
  <1>3. ~FinishActivation("update") /\ ~Publish
    BY DEF FinishActivation, Publish, CacheInv
  <1>4. CASE \E a \in Activators, c \in Controllers : Assign(a, c) \/ OnActivate(a, c)
    BY <1>4, AssignKeepsStrict, OnActivateKeepsStrict
  <1>5. ~ \E failed \in SUBSET Active : UpdateFails(failed)
    BY <1>0 DEF UpdateFails
  <1>6. CASE \E h \in Hardware : HardwareFails(h)
    <2> PICK h \in Hardware : HardwareFails(h)
      BY <1>6
    <2>1. /\ Deactivate(cached[h], available \ Exports(h)) /\ Note(cached[h])
          /\ list' = list /\ request' = request /\ jobs' = jobs
      BY DEF HardwareFails
    <2> QED
      BY <1>0, <2>1, FailureKeepsStrict
  <1>7. CASE \E h \in Hardware : HardwareDeactivates(h)
    <2>1. ~request.pending /\ request' = request
      BY <1>7 DEF HardwareDeactivates, switch_vars
    <2> QED
      BY <2>1 DEF StrictInv, Switches
  <1>8. CASE \E h \in Hardware : HardwareReturns(h)
    <2> PICK h \in Hardware : HardwareReturns(h)
      BY <1>8
    <2>1. /\ list' = list /\ state' = state /\ request' = request /\ jobs' = jobs /\ stopped' = stopped
          /\ available' = available \cup Exports(h)
      BY DEF HardwareReturns, ctrl_vars, switch_vars
    <2>2. ASSUME NEW f \in Controllers PROVE Withdrawn(f)' = Withdrawn(f)
      <3>1. Exports(f) \cap Exports(h) = {}
        BY OwnersDiffer, InterfaceAssumption
      <3> QED
        BY <2>1, <3>1 DEF Withdrawn
    <2> SUFFICES ASSUME Switches PROVE ActivatedInv' /\ DeactivatedInv'
      BY <2>1 DEF StrictInv, Switches
    <2>3. /\ Range(request.act) \subseteq Controllers /\ request.deact \subseteq Controllers
          /\ ActivatedInv /\ DeactivatedInv
      BY RequestedAre DEF StrictInv, Switches
    <2>4. \A c \in Controllers : Followers(c)' = Followers(c) /\ Followers(c) \subseteq Controllers
      BY <2>1, FollowersAre DEF Followers
    <2>5. Performing' = Performing /\ Assigned("switch")' = Assigned("switch")
      BY <2>1 DEF Performing, Assigned
    <2>6. ActivatedInv'
      BY <2>1, <2>2, <2>3, <2>4, <2>5 DEF ActivatedInv
    <2>7. DeactivatedInv'
      BY <2>1, <2>2, <2>3, <2>4, <2>5 DEF DeactivatedInv
    <2> QED
      BY <2>6, <2>7
  <1> QED
    BY <1>1, <1>2, <1>3, <1>4, <1>5, <1>6, <1>7, <1>8 DEF Loop, Activators

-----------------------------------------------------------------------------
(* The chains of a switch.                                                  *)

\* The loaded controllers that c commands.
Commanded(c) == { Exporter[i] : i \in Commands(c) } \cap Range(list)

\* f will be in chained mode when the request is worked on.
WillBeChained(f) ==
    \/ f \in request.to /\ (state[f] = "active" => f \in request.deact)
    \/ chained[f] /\ f \notin request.from /\ (state[f] = "active" => f \notin request.deact)

\* Whatever the switch activates commands controllers that are going to be in chained mode,
\* and are once the switch has begun.  A controller that the failing hardware stops leaves
\* chained mode, but then its interfaces are withdrawn, or the loop has stopped it beside
\* the switch.
ChainsInv ==
    \A c \in Range(request.act) \ request.deact :
       /\ Performing \/ state[c] /= "active"
       /\ \A f \in Commanded(c) \ (request.to \cap request.from) :
             \/ IF Performing THEN chained[f] ELSE WillBeChained(f)
             \/ f \in stopped
             \/ /\ Withdrawn(f) /\ f \notin Range(request.act)
                /\ state[c] /= "active" /\ c \notin Assigned("switch")

\* Any request waits for the loop, or is worked on.
Pending == request.pending /\ jobs["switch"].doing /= "terminated"
ModeInv == Pending => ChainsInv

\* Commanded controllers are followers.
LEMMA CommandedAre ==
    ASSUME ListInv, NEW c \in Controllers, NEW f \in Commanded(c)
    PROVE  f \in Controllers /\ f \in Range(list) /\ f \in Followers(c)
  <1>1. f \in Followers(c)
    BY DEF Commanded, Commands, Followers
  <1> QED
    BY <1>1, FollowersAre

\* What a request hands over to the loop.
LEMMA RequestIsChained ==
    ASSUME NEW strict, NEW r, CheckedIs(manager, available, strict, r),
           r.status = "ok", list' = list, state' = state, chained' = chained, ~Performing',
           request'.act = r.act, request'.deact = Range(r.deact), request'.to = r.to, request'.from = r.from
    PROVE  ChainsInv'
  <1> DEFINE A == Range(r.act)
             D == Range(r.deact)
  <1>1. \A c \in A \ D :
           /\ state[c] = "inactive"
           /\ \A i \in Commands(c) : Exporter[i] \in Range(list) => StaysChained(manager, r, Exporter[i])
    BY DEF CheckedIs, ChainsChecked, ChainedInterface, Loaded, manager
  <1>2. /\ Range(request'.act) = A /\ request'.deact = D
        /\ \A f : StaysChained(manager, r, f) => WillBeChained(f)'
    BY DEF StaysChained, WillBeChained, manager
  <1>3. \A c : Commanded(c)' = { Exporter[i] : i \in Commands(c) } \cap Range(list)
    BY DEF Commanded
  <1> HIDE DEF A, D
  <1>4. ASSUME NEW c \in A \ D PROVE state'[c] /= "active" /\ \A f \in Commanded(c)' : WillBeChained(f)'
    BY <1>1, <1>2, <1>3
  <1> QED
    BY <1>2, <1>4 DEF ChainsInv

\* What a request is checked for, and what waits for the end of a switch.
LEMMA ServicesKeepMode ==
    ASSUME ListInv, SwitchInv, ModeInv, Services
    PROVE  ModeInv'
  <1>1. CASE \E c \in Controllers : Load(c) \/ Configure(c) \/ Cleanup(c) \/ Unload(c)
    <2>1. request' = request /\ ~request.pending
      BY <1>1 DEF Load, Configure, Cleanup, Unload, ServiceIsFree, ListIsFree, switch_vars
    <2> QED
      BY <2>1 DEF ModeInv, Pending
  <1>2. CASE \E activate, deactivate \in Lists(MaxRequest), strict \in BOOLEAN :
                SwitchController(activate, deactivate, strict)
    <2> PICK activate \in Lists(MaxRequest), deactivate \in Lists(MaxRequest), strict \in BOOLEAN :
             SwitchController(activate, deactivate, strict)
      BY <1>2
    <2>1. PICK r : /\ CheckedIs(manager, available, strict, r)
                   /\ \/ Terminate /\ request' = request
                      \/ jobs' = jobs /\ request' = request
                      \/ /\ r.status = "ok" /\ jobs' = jobs
                         /\ \E asap \in BOOLEAN :
                               request' = [pending |-> TRUE, act |-> r.act, deact |-> Range(r.deact),
                                           to |-> r.to, from |-> r.from, strict |-> strict, asap |-> asap]
      BY SwitchControllerDoes
    <2>2. /\ state' = state /\ list' = list /\ chained' = chained
          /\ ~request.pending /\ jobs["switch"].doing = "nothing"
      BY ActivatorsAre DEF SwitchController, ctrl_vars, ServiceIsFree, ListIsFree
    <2>3. CASE request' = request
      BY <2>2, <2>3 DEF ModeInv, Pending
    <2>4. CASE /\ r.status = "ok" /\ jobs' = jobs
               /\ \E asap \in BOOLEAN :
                     request' = [pending |-> TRUE, act |-> r.act, deact |-> Range(r.deact),
                                 to |-> r.to, from |-> r.from, strict |-> strict, asap |-> asap]
      <3>1. ~Performing'
        BY <2>2, <2>4 DEF Performing
      <3>2. /\ request'.act = r.act /\ request'.deact = Range(r.deact)
            /\ request'.to = r.to /\ request'.from = r.from
        BY <2>4
      <3>3. ChainsInv'
        BY <2>1, <2>2, <2>4, <3>1, <3>2, RequestIsChained
      <3> QED
        BY <3>3 DEF ModeInv
    <2> QED
      BY <2>1, <2>3, <2>4
  <1>3. CASE SwitchEnds
    BY <1>3 DEF SwitchEnds, ModeInv, Pending, NoRequest
  <1> QED
    BY <1>1, <1>2, <1>3 DEF Services

\* What the hardware's failure takes away: who leaves chained mode is withdrawn, and beside
\* a switch it is noted.
LEMMA FailureKeepsMode ==
    ASSUME "deactivate" \notin Faults, IInv, ListInv, SwitchInv, ModeInv,
           NEW controllers, NEW offered \in SUBSET available, Deactivate(controllers, offered),
           Note(controllers), list' = list, request' = request, jobs' = jobs
    PROVE  ModeInv'
  <1>1. PICK out \in Deactivations(controllers) :
           /\ Stop(out)
           /\ chained' = [c \in Controllers |-> chained[c] /\ ~(c \in DOMAIN out /\ out[c] /= "active")]
           /\ available' = offered \ UNION { Exports(c) : c \in DOMAIN out }
    BY DEF Deactivate
  <1> DEFINE off == DOMAIN out
  <1>2. /\ off = controllers \cap Active
        /\ \A c \in Controllers : state'[c] = IF c \in off THEN "inactive" ELSE state[c]
    BY <1>1, StopStops
  <1>3. /\ available' \subseteq available /\ \A c \in off : Exports(c) \cap available' = {}
        /\ \A c \in Controllers : chained[c] /\ c \notin off => chained'[c]
    BY <1>1
  <1> HIDE DEF off
  <1>4. stopped' = IF Performing THEN stopped \cup off ELSE stopped
    BY <1>2 DEF Note
  <1>5. Performing' = Performing /\ Assigned("switch")' = Assigned("switch")
    BY DEF Performing, Assigned
  <1>6. \A c : Commanded(c)' = Commanded(c)
    BY DEF Commanded
  <1> SUFFICES ASSUME Pending PROVE ChainsInv'
    BY DEF ModeInv, Pending
  <1>7. Range(request.act) \subseteq Controllers /\ ChainsInv
    BY RequestedAre DEF ModeInv, Pending
  <1>8. ~Performing => Assigned("switch") = {}
    BY ActivatorsAre DEF IInv, JobsInv, Assigned, Performing, Pending
  <1>9. \A c \in Range(request.act) \ request.deact :
           /\ Performing \/ (state[c] /= "active" /\ state'[c] /= "active")
           /\ state[c] /= "active" => state'[c] /= "active"
    BY <1>2, <1>7 DEF ChainsInv
  <1>10. ASSUME NEW c \in Range(request.act) \ request.deact,
                NEW f \in Commanded(c) \ (request.to \cap request.from)
         PROVE  \/ IF Performing THEN chained'[f] ELSE WillBeChained(f)'
                \/ f \in stopped'
                \/ /\ Withdrawn(f)' /\ f \notin Range(request.act)
                   /\ state'[c] /= "active" /\ c \notin Assigned("switch")
    <2>1. f \in Controllers
      BY <1>7, CommandedAre
    <2>2. \/ IF Performing THEN chained[f] ELSE WillBeChained(f)
          \/ f \in stopped
          \/ /\ Withdrawn(f) /\ f \notin Range(request.act)
             /\ state[c] /= "active" /\ c \notin Assigned("switch")
      BY <1>7 DEF ChainsInv
    <2>3. CASE /\ Withdrawn(f) /\ f \notin Range(request.act)
               /\ state[c] /= "active" /\ c \notin Assigned("switch")
      BY <1>3, <1>9, <2>3 DEF Withdrawn
    <2>4. CASE f \in stopped
      BY <1>4, <2>4
    <2>5. CASE Performing /\ chained[f]
      BY <1>3, <1>4, <2>1, <2>5
    <2>6. CASE ~Performing /\ f \in request.to /\ (state[f] = "active" => f \in request.deact)
      BY <1>2, <2>1, <2>6 DEF WillBeChained
    <2>7. CASE ~Performing /\ chained[f] /\ f \notin request.from /\ (state[f] = "active" => f \notin request.deact)
      <3>1. CASE f \in off
        <4>1. state[f] = "active"
          BY <1>2, <3>1 DEF Active
        <4>2. f \notin Range(request.act)
          BY <1>9, <2>7, <4>1
        <4> QED
          BY <1>3, <1>8, <1>9, <2>7, <3>1, <4>2 DEF Withdrawn
      <3>2. CASE f \notin off
        BY <1>2, <1>3, <2>1, <2>7, <3>2 DEF WillBeChained
      <3> QED
        BY <3>1, <3>2
    <2> QED
      BY <2>2, <2>3, <2>4, <2>5, <2>6, <2>7 DEF WillBeChained
  <1> QED
    BY <1>5, <1>6, <1>9, <1>10 DEF ChainsInv

\* manage_switch switches the modes of the controllers it leaves inactive.
LEMMA ManageKeepsMode ==
    ASSUME "deactivate" \notin Faults, IInv, ListInv, SwitchInv, ModeInv, ManageSwitch
    PROVE  ModeInv'
  <1>0. JobsInv
    BY DEF IInv
  <1> SUFFICES ASSUME Pending', ~Terminate PROVE ChainsInv'
    BY <1>0, ActivatorsAre, TerminateDoes DEF ModeInv, Pending
  <1> DEFINE A == Range(request.act)
             D == request.deact
             starting == { c \in A \cap Range(list) : Chainable(c) }
  <1>1. ~Performing /\ Pending /\ request' = request /\ request.pending /\ stopped' = stopped
    BY DEF ManageSwitch, Performing, Pending
  <1>2. PICK out \in Deactivations(D) :
           /\ Stop(out) /\ list' = list
           /\ chained' = [c \in Controllers |->
                            IF c \notin Range(list) \/ state'[c] = "active" THEN chained[c]
                            ELSE c \notin request.from /\ (c \in request.to \/ (chained[c] /\ c \notin DOMAIN out))]
           /\ available' = (available \ UNION { Exports(c) : c \in DOMAIN out })
                              \cup UNION { Exports(c) : c \in starting \cap exported }
    BY DEF ManageSwitch, Start
  <1>3. Performing' /\ Assigned("switch")' = {}
    BY <1>0, SwitchBegins DEF Performing, Assigned
  <1> DEFINE off == DOMAIN out
  <1>4. /\ off = D \cap Active
        /\ \A c \in Controllers : state'[c] = IF c \in off THEN "inactive" ELSE state[c]
    BY <1>2, StopStops
  <1>5. ASSUME NEW f, f \notin A, Withdrawn(f) PROVE Withdrawn(f)'
    <2>1. \A c \in starting : Exports(f) \cap Exports(c) = {}
      BY <1>5, OwnersDiffer
    <2> QED
      BY <1>2, <1>5, <2>1 DEF Withdrawn
  <1>6. \A c \in Controllers \cap Range(list) :
           chained'[c] = IF state'[c] = "active" THEN chained[c]
                         ELSE c \notin request.from /\ (c \in request.to \/ (chained[c] /\ c \notin off))
    BY <1>2
  <1> HIDE DEF off, starting
  <1>7. D \subseteq Controllers /\ A \subseteq Controllers /\ \A c : Commanded(c)' = Commanded(c)
    BY <1>1, <1>2, RequestedAre DEF Commanded
  <1> HIDE DEF A, D
  <1>8. ChainsInv
    BY <1>1 DEF ModeInv
  <1>9. ASSUME NEW c \in A \ D, NEW f \in Commanded(c) \ (request.to \cap request.from)
        PROVE  chained'[f] \/ f \in stopped \/ (Withdrawn(f)' /\ f \notin A /\ state'[c] /= "active")
    <2>1. f \in Controllers /\ f \in Range(list)
      BY <1>7, CommandedAre
    <2>2. /\ state[c] /= "active"
          /\ WillBeChained(f) \/ f \in stopped \/ (Withdrawn(f) /\ f \notin A)
      BY <1>1, <1>8 DEF ChainsInv, A, D
    <2>3. CASE Withdrawn(f) /\ f \notin A
      BY <1>4, <1>5, <1>7, <2>2, <2>3
    <2>4. CASE f \in request.to /\ (state[f] = "active" => f \in D)
      <3>1. state[f] = "active" => f \in off
        BY <1>4, <2>1, <2>4 DEF Active
      <3>2. state'[f] /= "active"
        BY <1>4, <2>1, <3>1
      <3> QED
        BY <1>6, <2>1, <2>4, <3>2
    <2>5. CASE chained[f] /\ f \notin request.from /\ (state[f] = "active" => f \notin D)
      <3>1. f \notin off
        BY <1>4, <2>5 DEF Active
      <3> QED
        BY <1>6, <2>1, <2>5, <3>1
    <2> QED
      BY <2>2, <2>3, <2>4, <2>5 DEF WillBeChained, D
  <1> QED
    BY <1>1, <1>3, <1>7, <1>9 DEF ChainsInv, A, D

\* A controller that is given its interfaces has all it commands.
LEMMA AssignKeepsMode ==
    ASSUME IInv, ListInv, SwitchInv, CacheInv, ModeInv, NEW a \in Activators, NEW c \in Controllers,
           Assign(a, c)
    PROVE  ModeInv'
  <1>0. JobsInv
    BY DEF IInv
  <1> SUFFICES ASSUME Pending', ~Terminate PROVE ChainsInv'
    BY <1>0, ActivatorsAre, TerminateDoes DEF ModeInv, Pending
  <1>1. /\ request' = request /\ list' = list /\ state' = state /\ available' = available
        /\ chained' = chained /\ stopped' = stopped /\ ~jobs[a].assigned
        /\ a = "switch" /\ Performing /\ request.pending
    BY OnlySwitchActivates DEF Assign
  <1>2. Performing' /\ (Assigned("switch")' = {} \/ (Assigned("switch")' = {c} /\ CanClaim(c)))
    BY <1>0, <1>1, AssignDoes DEF Performing, Assigned
  <1>3. ChainsInv
    BY <1>1 DEF ModeInv, Pending, Performing
  <1>4. \A d : Commanded(d)' = Commanded(d) /\ Withdrawn(d)' = Withdrawn(d)
    BY <1>1 DEF Commanded, Withdrawn
  <1>5. ASSUME NEW d \in Controllers, NEW f \in Commanded(d), Withdrawn(f)
        PROVE  d \notin Assigned("switch")'
    BY <1>2, <1>5, CommandedAre, WithdrawnIsNotClaimed
  <1>6. Range(request.act) \subseteq Controllers
    BY <1>1, RequestedAre
  <1> QED
    BY <1>1, <1>2, <1>3, <1>4, <1>5, <1>6 DEF ChainsInv

\* on_activate changes no mode, and activates nobody else.
LEMMA OnActivateKeepsMode ==
    ASSUME IInv, ListInv, SwitchInv, CacheInv, ModeInv, NEW a \in Activators, NEW c \in Controllers,
           OnActivate(a, c)
    PROVE  ModeInv'
  <1>0. JobsInv
    BY DEF IInv
  <1> SUFFICES ASSUME Pending' PROVE ChainsInv'
    BY DEF ModeInv
  <1> DEFINE A == Range(request.act)
             D == request.deact
  <1>1. /\ request' = request /\ list' = list /\ chained' = chained /\ stopped' = stopped
        /\ jobs[a].doing = "activating" /\ c \in Assigned(a)
    BY DEF OnActivate
  <1>2. /\ jobs[a].todo /= <<>> /\ c = Head(jobs[a].todo)
        /\ ~jobs'[a].assigned /\ jobs'[a].doing = "activating"
        /\ \E s : state' = [state EXCEPT ![c] = s]
        /\ available' = available \cup Exports(c) \/ available' = available \ Exports(c)
    BY <1>0, OnActivateDoes
  <1>3. a = "switch" /\ Performing /\ request.pending /\ c \in A
    BY <1>1, <1>2, OnlySwitchActivates
  <1>4. Performing' /\ Assigned("switch")' = {} /\ c \in Assigned("switch")
    BY <1>1, <1>2, <1>3 DEF Performing, Assigned
  <1>5. ChainsInv
    BY <1>1, <1>3 DEF ModeInv, Pending, Performing
  <1>6. /\ \A d \in Controllers : d /= c => state'[d] = state[d]
        /\ available' \subseteq available \cup Exports(c)
    BY <1>2 DEF IInv
  <1>7. A \subseteq Controllers /\ \A d : Commanded(d)' = Commanded(d)
    BY <1>1, <1>3, RequestedAre DEF Commanded
  <1> HIDE DEF A, D
  <1>8. ASSUME NEW d \in A \ D, NEW f \in Commanded(d) \ (request.to \cap request.from)
        PROVE  chained[f] \/ f \in stopped \/ (Withdrawn(f)' /\ f \notin A /\ state'[d] /= "active")
    <2>1. \/ chained[f] \/ f \in stopped
          \/ Withdrawn(f) /\ f \notin A /\ state[d] /= "active" /\ d /= c
      BY <1>3, <1>4, <1>5 DEF ChainsInv, A, D
    <2>2. CASE Withdrawn(f) /\ f \notin A /\ state[d] /= "active" /\ d /= c
      <3>1. Exports(f) \cap Exports(c) = {}
        BY <1>3, <2>2, OwnersDiffer
      <3> QED
        BY <1>6, <1>7, <2>2, <3>1 DEF Withdrawn
    <2> QED
      BY <2>1, <2>2
  <1> QED
    BY <1>1, <1>4, <1>7, <1>8 DEF ChainsInv, A, D

\* What happens while a request waits for the loop, and when it is worked on.
LEMMA LoopKeepsMode ==
    ASSUME Faults \cap {"deactivate", "update"} = {},
           IInv, ListInv, SwitchInv, CacheInv, ModeInv, Loop
    PROVE  ModeInv'
  <1>0. "deactivate" \notin Faults /\ "update" \notin Faults
    OBVIOUS
  <1>1. CASE ManageSwitch
    BY <1>0, <1>1, ManageKeepsMode
  <1>2. CASE FinishActivation("switch")
    <2>1. request' = NoRequest
      BY <1>2 DEF FinishActivation
    <2> QED
      BY <2>1 DEF ModeInv, Pending, NoRequest
  <1>3. ~FinishActivation("update") /\ ~Publish
    BY DEF FinishActivation, Publish, CacheInv
  <1>4. CASE \E a \in Activators, c \in Controllers : Assign(a, c) \/ OnActivate(a, c)
    BY <1>4, AssignKeepsMode, OnActivateKeepsMode
  <1>5. ~ \E failed \in SUBSET Active : UpdateFails(failed)
    BY <1>0 DEF UpdateFails
  <1>6. CASE \E h \in Hardware : HardwareFails(h)
    <2> PICK h \in Hardware : HardwareFails(h)
      BY <1>6
    <2>1. /\ Deactivate(cached[h], available \ Exports(h)) /\ Note(cached[h])
          /\ list' = list /\ request' = request /\ jobs' = jobs
      BY DEF HardwareFails
    <2> QED
      BY <1>0, <2>1, FailureKeepsMode
  <1>7. CASE \E h \in Hardware : HardwareDeactivates(h)
    <2>1. ~request.pending /\ request' = request
      BY <1>7 DEF HardwareDeactivates, switch_vars
    <2> QED
      BY <2>1 DEF ModeInv, Pending
  <1>8. CASE \E h \in Hardware : HardwareReturns(h)
    <2> PICK h \in Hardware : HardwareReturns(h)
      BY <1>8
    <2>1. /\ list' = list /\ state' = state /\ request' = request /\ jobs' = jobs /\ stopped' = stopped
          /\ chained' = chained /\ available' = available \cup Exports(h)
      BY DEF HardwareReturns, ctrl_vars, switch_vars
    <2>2. ASSUME NEW f \in Controllers PROVE Withdrawn(f)' = Withdrawn(f)
      <3>1. Exports(f) \cap Exports(h) = {}
        BY OwnersDiffer, InterfaceAssumption
      <3> QED
        BY <2>1, <3>1 DEF Withdrawn
    <2> SUFFICES ASSUME Pending PROVE ChainsInv'
      BY <2>1 DEF ModeInv, Pending
    <2>3. Range(request.act) \subseteq Controllers /\ ChainsInv
      BY RequestedAre DEF ModeInv, Pending
    <2>4. /\ \A c \in Controllers : Commanded(c)' = Commanded(c) /\ Commanded(c) \subseteq Controllers
          /\ \A f : WillBeChained(f)' = WillBeChained(f)
          /\ Performing' = Performing /\ Assigned("switch")' = Assigned("switch")
      BY <2>1, CommandedAre DEF Commanded, WillBeChained, Performing, Assigned
    <2> QED
      BY <2>1, <2>2, <2>3, <2>4 DEF ChainsInv
  <1> QED
    BY <1>1, <1>2, <1>3, <1>4, <1>5, <1>6, <1>7, <1>8 DEF Loop, Activators

-----------------------------------------------------------------------------
(* The invariant of the requests, and what it says of a switch.             *)

\* The invariant of the requests: what is checked when a request is made is so, or cannot
\* do harm any more, when the switch begins.
RequestInv == IInv /\ ListInv /\ SwitchInv /\ LinksInv /\ CacheInv /\ StrictInv /\ ModeInv

\* The invariant of the requests holds in every state, unless controllers refuse to be
\* deactivated or are activated as fallbacks, without any check.
THEOREM RequestInvariant ==
    ASSUME Faults \cap {"deactivate", "update"} = {}
    PROVE  Spec => []RequestInv
  <1>0. "update" \notin Faults
    OBVIOUS
  <1>1. Init => LinksInv /\ CacheInv /\ StrictInv /\ ModeInv
    <2> SUFFICES ASSUME Init PROVE LinksInv /\ CacheInv /\ StrictInv /\ ModeInv
      OBVIOUS
    <2>1. jobs["switch"].doing = "nothing" /\ jobs["update"].doing = "nothing"
      BY ActivatorsAre DEF Init, Idle
    <2>2. LinksInv
      BY DEF Init, LinksInv, Range
    <2>3. CacheInv
      BY <2>1 DEF Init, CacheInv, NoRequest
    <2>4. StrictInv /\ ModeInv
      BY DEF Init, StrictInv, Switches, ModeInv, Pending, NoRequest
    <2> QED
      BY <2>2, <2>3, <2>4
  <1>2. /\ IInv /\ ListInv /\ SwitchInv /\ (IInv /\ ListInv /\ SwitchInv)'
        /\ LinksInv /\ CacheInv /\ StrictInv /\ ModeInv /\ [Next]_vars
        => (LinksInv /\ CacheInv /\ StrictInv /\ ModeInv)'
    <2> SUFFICES ASSUME IInv, ListInv, SwitchInv, ListInv', LinksInv, CacheInv, StrictInv, ModeInv, [Next]_vars
                 PROVE  LinksInv' /\ CacheInv' /\ StrictInv' /\ ModeInv'
      OBVIOUS
    <2>1. CASE Services
      BY <2>1, ServicesKeepLinks, ServicesKeepCache, ServicesKeepStrict, ServicesKeepMode
    <2>2. CASE Loop
      BY <1>0, <2>2, LoopKeepsLinks, LoopKeepsCache, LoopKeepsStrict, LoopKeepsMode
    <2>3. CASE UNCHANGED vars
      <3>1. Performing' = Performing /\ Assigned("switch")' = Assigned("switch")
        BY <2>3 DEF vars, Performing, Assigned
      <3>2. LinksInv'
        BY <2>3 DEF vars, LinksInv, Followers, IsConfigured
      <3>3. CacheInv'
        BY <2>3 DEF vars, CacheInv
      <3>4. StrictInv'
        BY <2>3, <3>1 DEF vars, StrictInv, Switches, ActivatedInv, DeactivatedInv, Followers, Withdrawn
      <3>5. ModeInv'
        BY <2>3, <3>1 DEF vars, ModeInv, Pending, ChainsInv, Commanded, WillBeChained, Withdrawn
      <3> QED
        BY <3>2, <3>3, <3>4, <3>5
    <2> QED
      BY <2>1, <2>2, <2>3 DEF Next
  <1>3. RequestInv <=> IInv /\ ListInv /\ SwitchInv /\ LinksInv /\ CacheInv /\ StrictInv /\ ModeInv
    BY DEF RequestInv
  <1> QED
    BY <1>1, <1>2, <1>3, SwitchInvariant, PTL DEF Spec

\* Unless a controller refuses to be deactivated or a fallback is activated, an error of the
\* hardware leaves no controller active that uses it: whoever is active is remembered by
\* all the hardware it uses.
THEOREM FailedHardwareIsUnused ==
    ASSUME Faults \cap {"deactivate", "update"} = {}
    PROVE  Spec => UsersAreStopped
  <1>1. ASSUME RequestInv, [Next]_vars, NEW h \in Hardware,
               Exports(h) \cap available /= {}, Exports(h) \cap available' = {},
               NEW c \in Controllers, Range(Uses[c]) \cap Exports(h) /= {}
        PROVE  state'[c] /= "active"
    <2>1. HardwareFails(h)
      BY <1>1, HardwareIsOffered DEF RequestInv
    <2> QED
      BY <1>1, <2>1, FailureStopsUsers DEF RequestInv, UsesHardware
  <1>2. RequestInv /\ [Next]_vars =>
          \A h \in Hardware :
             Exports(h) \cap available /= {} /\ Exports(h) \cap available' = {} =>
                \A c \in Controllers : Range(Uses[c]) \cap Exports(h) /= {} => state'[c] /= "active"
    BY <1>1
  <1> QED
    BY <1>2, RequestInvariant, PTL DEF Spec, UsersAreStopped

\* Under the same condition the chains that a strict switch builds have their ends, though
\* hardware may fail, and stop any of them, between the checks and the switch; beside a
\* switch without activate_asap a follower may be missing only if the loop has deactivated it.
THEOREM ActivatedChainsAreWhole ==
    ASSUME Faults \cap {"deactivate", "update"} = {}
    PROVE  Spec => ActivatedAreFollowed
  <1>0. "deactivate" \notin Faults
    OBVIOUS
  <1>1. ASSUME RequestInv, [Next]_vars, request.strict, SwitchFinishes,
               NEW c \in Range(request.act) \ request.deact, state'[c] = "active",
               NEW f \in Followers(c) \ Disturbed
        PROVE  state'[f] = "active"
    <2>0. IInv /\ ListInv /\ SwitchInv /\ StrictInv /\ "deactivate" \notin Faults
      BY <1>0, <1>1 DEF RequestInv
    <2>1. /\ \A d \in Controllers : state'[d] = state[d]
          /\ \A d \in Range(request.act) \ Disturbed : state'[d] = "active"
      BY <1>1, <2>0, SwitchIsFinished, StrictEnd
    <2>2. Performing /\ request.pending /\ (request.asap => stopped = {})
      BY <1>1, <2>0 DEF SwitchFinishes, SwitchInv
    <2>3. c \in Controllers /\ f \in Controllers /\ f \notin stopped /\ ActivatedInv
      <3>1. Range(request.act) \subseteq Controllers
        BY <2>0, <2>2, RequestedAre
      <3>2. Switches
        BY <1>1, <2>2 DEF Switches, Performing
      <3> QED
        BY <1>1, <2>0, <2>2, <3>1, <3>2, FollowersAre DEF StrictInv, Disturbed
    <2>4. CASE f \in Range(request.act)
      BY <2>1, <2>4
    <2>5. CASE f \notin Range(request.act)
      BY <1>1, <2>1, <2>3, <2>5 DEF ActivatedInv
    <2> QED
      BY <2>4, <2>5
  <1>2. RequestInv /\ [Next]_vars =>
          (request.strict /\ SwitchFinishes =>
             \A c \in Range(request.act) \ request.deact : state'[c] = "active" =>
                \A f \in Followers(c) \ Disturbed : state'[f] = "active")
    BY <1>1
  <1> QED
    BY <1>2, RequestInvariant, PTL DEF Spec, ActivatedAreFollowed

\* Under the same condition no controller stays active that requires an interface of one
\* that a strict switch has deactivated, whichever thread performs the switch and whatever
\* the loop deactivates beside it.
THEOREM StoppedControllersAreUnused ==
    ASSUME Faults \cap {"deactivate", "update"} = {}
    PROVE  Spec => StoppedAreUnused
  <1>0. "deactivate" \notin Faults
    OBVIOUS
  <1>1. ASSUME RequestInv, [Next]_vars, request.strict, SwitchFinishes,
               NEW c \in Controllers, state'[c] = "active",
               NEW f \in Followers(c), f \in request.deact \ Range(request.act)
        PROVE  FALSE
    <2>0. IInv /\ ListInv /\ SwitchInv /\ StrictInv /\ "deactivate" \notin Faults
      BY <1>0, <1>1 DEF RequestInv
    <2>1. state[c] = "active"
      BY <1>1, <2>0, SwitchIsFinished, StrictEnd
    <2>2. Performing /\ Switches
      BY <1>1, <2>0 DEF SwitchFinishes, SwitchInv, Switches, Performing
    <2> QED
      BY <1>1, <2>0, <2>1, <2>2 DEF StrictInv, DeactivatedInv
  <1>2. RequestInv /\ [Next]_vars =>
          (request.strict /\ SwitchFinishes =>
             \A c \in Controllers : state'[c] = "active" =>
                Followers(c) \cap (request.deact \ Range(request.act)) = {})
    BY <1>1
  <1> QED
    BY <1>2, RequestInvariant, PTL DEF Spec, StoppedAreUnused

\* Under the same condition the controllers that a switch activates, strict or not, command
\* controllers in chained mode: whoever has to change the mode is restarted, and whoever
\* loses it to a failure of the hardware is not commanded, or has been deactivated by the
\* loop beside a switch without activate_asap.
THEOREM CommandedControllersAreChained ==
    ASSUME Faults \cap {"deactivate", "update"} = {}
    PROVE  Spec => FollowersAreChained
  <1>0. "deactivate" \notin Faults
    OBVIOUS
  <1>1. ASSUME RequestInv, [Next]_vars, SwitchFinishes,
               NEW c \in Range(request.act) \ Restarted, state'[c] = "active",
               NEW i \in Commands(c),
               Exporter[i] \in Range(list) \ (Disturbed \cup (request.to \cap request.from))
        PROVE  chained'[Exporter[i]]
    <2>0. IInv /\ ListInv /\ SwitchInv /\ ModeInv /\ "deactivate" \notin Faults
      BY <1>0, <1>1 DEF RequestInv
    <2>1. Performing /\ request.pending /\ (request.asap => stopped = {})
      BY <1>1, <2>0 DEF SwitchFinishes, SwitchInv
    <2>2. /\ FinishActivation("switch") /\ ChainsInv
          /\ c \in Range(request.act) \ request.deact
          /\ c \in Controllers /\ c \in Range(list) /\ jobs["switch"].act = request.act
          /\ Exporter[i] \notin stopped
      <3>1. /\ Range(request.act) \subseteq Controllers /\ Range(request.act) \subseteq Range(list)
            /\ jobs["switch"].act = request.act
        BY <2>0, <2>1, RequestedAre DEF SwitchInv
      <3>2. Pending
        BY <2>1 DEF Pending, Performing
      <3> QED
        BY <1>1, <2>0, <2>1, <3>1, <3>2, SwitchIsFinished DEF ModeInv, Restarted, Disturbed
    <2>3. PICK out \in Deactivations(Undone("switch")) :
             /\ Stop(out)
             /\ chained' = [d \in Controllers |-> chained[d] /\ ~(d \in DOMAIN out /\ out[d] /= "active")]
      BY <2>2 DEF FinishActivation, Deactivate
    <2>4. /\ DOMAIN out = Undone("switch") \cap Active
          /\ state'[c] = IF c \in DOMAIN out THEN "inactive" ELSE state[c]
      BY <2>0, <2>2, <2>3, StopStops
    <2>5. state[c] = "active" /\ c \notin Undone("switch")
      BY <1>1, <2>2, <2>4 DEF Active
    <2>6. DOMAIN out = {}
      BY <2>2, <2>4, <2>5 DEF Undone
    <2>7. Exporter[i] \in Commanded(c) \ (request.to \cap request.from)
      BY <1>1 DEF Commanded
    <2>8. Exporter[i] \in Controllers /\ chained[Exporter[i]]
      BY <2>0, <2>1, <2>2, <2>5, <2>7, CommandedAre DEF ChainsInv
    <2> QED
      BY <2>3, <2>6, <2>8
  <1>2. RequestInv /\ [Next]_vars =>
          (SwitchFinishes =>
             \A c \in Range(request.act) \ Restarted : state'[c] = "active" =>
                \A i \in Commands(c) :
                   Exporter[i] \in Range(list) \ (Disturbed \cup (request.to \cap request.from)) =>
                      chained'[Exporter[i]])
    BY <1>1
  <1> QED
    BY <1>2, RequestInvariant, PTL DEF Spec, FollowersAreChained
=============================================================================
