---------------------------- MODULE HardwareProofs ----------------------------
(***************************************************************************)
(* Proofs about the hardware, for any components, groups, order and        *)
(* parameters: first about HardwareComponents, the transitions and the     *)
(* read and write cycles, and then, resting on what that part shows of the *)
(* transitions, about Startup.                                             *)
(***************************************************************************)
EXTENDS Startup, FiniteSetTheorems, TLAPS

-----------------------------------------------------------------------------
(* HardwareComponents.                                                     *)


\* A component and its flags, as ResourceStorage's operations pass it on.
Component == [state : States, avail : BOOLEAN, reset : BOOLEAN]

\* A component in operation offers its interfaces.
Offered(c) == c.state \in Operable => c.avail

\* What the first error() leaves is out of operation.
LEMMA ErrorIsDown ==
    ASSUME NEW s \in States, NEW t \in error(s)
    PROVE  t \in States \ Operable
  BY DEF error, States, Operable

-----------------------------------------------------------------------------
(* The transitions keep a component a component, and one that is in         *)
(* operation offered.                                                       *)

\* A record with two Boolean flags is a component.
LEMMA MakeComponent ==
    ASSUME NEW s \in States, NEW a \in BOOLEAN, NEW r \in BOOLEAN
    PROVE  /\ [state |-> s, avail |-> a, reset |-> r] \in Component
           /\ [state |-> s, avail |-> a, reset |-> r].state = s
           /\ [state |-> s, avail |-> a, reset |-> r].avail = a
  BY DEF Component

LEMMA ConfigureKeeps ==
    ASSUME NEW c \in Component, NEW d \in configure_hardware(c), Offered(c)
    PROVE  /\ d \in Component /\ Offered(d)
           /\ d.state = "active" => c.state = "active"
<1>1. PICK s \in configure(c.state) :
         d = [state |-> s, avail |-> c.avail \/ s = "inactive", reset |-> TRUE]
  BY DEF configure_hardware
<1>2. c.state \in States /\ c.avail \in BOOLEAN
  BY DEF Component
<1>3. s \in States /\ (s \in Operable => s = "inactive" \/ s = c.state)
  BY <1>1, <1>2 DEF configure, error, States, Operable
<1>4. d \in Component /\ d.state = s /\ d.avail = (c.avail \/ s = "inactive")
  BY <1>1, <1>2, <1>3, MakeComponent
<1>5. QED
  BY <1>2, <1>3, <1>4 DEF Offered, Operable

LEMMA CleanupKeeps ==
    ASSUME NEW c \in Component, NEW d \in cleanup_hardware(c), Offered(c)
    PROVE  d \in Component /\ Offered(d)
<1>1. PICK s \in cleanup(c.state) :
         d = [state |-> s, avail |-> c.avail /\ s /= "unconfigured", reset |-> TRUE]
  BY DEF cleanup_hardware
<1>2. c.state \in States /\ c.avail \in BOOLEAN
  BY DEF Component
<1>3. s \in States /\ (s \in Operable => s = c.state /\ s \notin {"unconfigured", "finalized"})
  BY <1>1, <1>2 DEF cleanup, error, States, Operable
<1>4. d \in Component /\ d.state = s /\ d.avail = (c.avail /\ s /= "unconfigured")
  BY <1>1, <1>2, <1>3, MakeComponent
<1>5. QED
  BY <1>2, <1>3, <1>4 DEF Offered, Operable

LEMMA ShutdownKeeps ==
    ASSUME NEW c \in Component, NEW d \in shutdown_hardware(c), Offered(c)
    PROVE  d \in Component /\ Offered(d)
<1>1. PICK s \in shutdown(c.state) :
         d = [state |-> s, avail |-> c.avail /\ s /= "finalized", reset |-> (s = "finalized")]
  BY DEF shutdown_hardware
<1>2. c.state \in States /\ c.avail \in BOOLEAN
  BY DEF Component
<1>3. s \in States /\ (s \in Operable => s = c.state /\ s \notin {"unconfigured", "finalized"})
  BY <1>1, <1>2 DEF shutdown, error, States, Operable
<1>4. d \in Component /\ d.state = s /\ d.avail = (c.avail /\ s /= "finalized")
  BY <1>1, <1>2, <1>3, MakeComponent
<1>5. QED
  BY <1>2, <1>3, <1>4 DEF Offered, Operable

LEMMA ActivateKeeps ==
    ASSUME NEW c \in Component, NEW d \in activate_hardware(c), Offered(c)
    PROVE  d \in Component /\ Offered(d)
<1>1. PICK s \in activate(c.state) : d = [c EXCEPT !.state = s]
  BY DEF activate_hardware
<1>2. c = [state |-> c.state, avail |-> c.avail, reset |-> c.reset]
      /\ c.state \in States /\ c.avail \in BOOLEAN /\ c.reset \in BOOLEAN
  BY DEF Component
<1>3. s \in States /\ (s \in Operable => c.state \in Operable)
      /\ (s = "active" => c.state = "active" \/ c.state = "inactive")
  BY <1>1, <1>2 DEF activate, error, States, Operable
<1>4. d = [state |-> s, avail |-> c.avail, reset |-> c.reset]
  BY <1>1, <1>2
<1>5. d \in Component /\ d.state = s /\ d.avail = c.avail
  BY <1>2, <1>3, <1>4, MakeComponent
<1>6. QED
  BY <1>1, <1>2, <1>3, <1>5 DEF Offered, Operable

LEMMA DeactivateKeeps ==
    ASSUME NEW c \in Component, NEW d \in deactivate_hardware(c), Offered(c)
    PROVE  d \in Component /\ Offered(d)
           /\ (d.state = "active" => c.state = "active")
<1>1. PICK s \in deactivate(c.state) : d = [c EXCEPT !.state = s]
  BY DEF deactivate_hardware
<1>2. c = [state |-> c.state, avail |-> c.avail, reset |-> c.reset]
      /\ c.state \in States /\ c.avail \in BOOLEAN /\ c.reset \in BOOLEAN
  BY DEF Component
<1>3. s \in States /\ (s \in Operable => c.state \in Operable)
      /\ (s = "active" => c.state = "active" \/ c.state = "inactive")
  BY <1>1, <1>2 DEF deactivate, error, States, Operable
<1>4. d = [state |-> s, avail |-> c.avail, reset |-> c.reset]
  BY <1>1, <1>2
<1>5. d \in Component /\ d.state = s /\ d.avail = c.avail
  BY <1>2, <1>3, <1>4, MakeComponent
<1>6. QED
  BY <1>1, <1>2, <1>3, <1>5 DEF Offered, Operable, deactivate, error

\* Whatever state a request asks for.
LEMMA SetStateKeeps ==
    ASSUME NEW c \in Component, NEW target \in States,
           NEW d \in set_component_state(c, target), Offered(c)
    PROVE  d \in Component /\ Offered(d)
<1>1. CASE target = "unconfigured"
  BY <1>1, CleanupKeeps, DeactivateKeeps DEF set_component_state, to_unconfigured, Then
<1>2. CASE target = "inactive"
  BY <1>2, ConfigureKeeps, DeactivateKeeps DEF set_component_state, to_inactive
<1>3. CASE target = "active"
  BY <1>3, ConfigureKeeps, ActivateKeeps DEF set_component_state, to_active, Then
<1>4. CASE target = "finalized"
  BY <1>4, ShutdownKeeps, DeactivateKeeps DEF set_component_state, to_finalized, Then
<1>5. QED
  BY <1>1, <1>2, <1>3, <1>4 DEF States

\* A request for "inactive" does not activate.
LEMMA ToInactiveDoesNotActivate ==
    ASSUME NEW c \in Component, NEW d \in set_component_state(c, "inactive"), Offered(c)
    PROVE  d.state = "active" => c.state = "active"
  BY ConfigureKeeps, DeactivateKeeps DEF set_component_state, to_inactive, States

-----------------------------------------------------------------------------
(* The invariant: types, the interfaces of what is in operation, and the    *)
(* components a read cycle has failed.                                      *)

IInv ==
    /\ TypeOK
    /\ ConfiguredIsOffered
    /\ FailedReadIsDown

\* The state of every component and the lists after h has become c.
LEMMA BecomesKeeps ==
    ASSUME TypeOK, ConfiguredIsOffered,
           NEW h \in Hardware, NEW c \in Component, Offered(c),
           NEW groups \in [Groups -> ReturnTypes], Becomes(h, c, groups)
    PROVE  /\ hw_state' \in [Hardware -> States]
           /\ available' \in SUBSET Hardware
           /\ group_state' \in [Groups -> ReturnTypes]
           /\ hw_state'[h] = c.state
           /\ \A i \in Hardware : i /= h => /\ hw_state'[i] = hw_state[i]
                                            /\ (i \in available' <=> i \in available)
           /\ ~c.avail => h \notin available'
           /\ ConfiguredIsOffered'
<1>1. c.state \in States
  BY DEF Component
<1>2. /\ hw_state' \in [Hardware -> States]
      /\ hw_state'[h] = c.state
      /\ \A i \in Hardware : i /= h => hw_state'[i] = hw_state[i]
  BY <1>1 DEF Becomes, TypeOK
<1>3. CASE c.avail
  <2>1. available' = available \cup {h}
    BY <1>3 DEF Becomes
  <2>2. QED
    BY <1>2, <1>3, <2>1, HardwareAssumption DEF Becomes, TypeOK, ConfiguredIsOffered, ReturnTypes
<1>4. CASE ~c.avail
  <2>1. available' = available \ {h}
    BY <1>4 DEF Becomes
  <2>2. c.state \notin Operable
    BY <1>4 DEF Offered
  <2>3. QED
    BY <1>2, <1>4, <2>1, <2>2, HardwareAssumption DEF Becomes, TypeOK, ConfiguredIsOffered, ReturnTypes
<1>5. QED
  BY <1>3, <1>4

\* What the call of read or write of a component may have led to.
LEMMA CallOutcome ==
    ASSUME TypeOK, NEW h \in Hardware, NEW called \in BOOLEAN, NEW o \in Call(h, called)
    PROVE  /\ o.value \in ReturnTypes
           /\ o.state \in States
           /\ o.groups \in [Groups -> ReturnTypes]
           /\ o.state \in Operable => o.state = hw_state[h]
           /\ ~called => o.state = hw_state[h]
<1> DEFINE Returned(r) == \E s \in (IF r = "ERROR" THEN error(hw_state[h]) ELSE {hw_state[h]}) :
               /\ o.value = group_result(update_group_state(group_state, h, r), h, r)
               /\ o.state = s
               /\ o.groups = update_group_state(group_state, h, r)
<1>1. hw_state[h] \in States
  BY DEF TypeOK
<1>2. ASSUME NEW r \in ReturnTypes
      PROVE  /\ update_group_state(group_state, h, r) \in [Groups -> ReturnTypes]
             /\ group_result(update_group_state(group_state, h, r), h, r) \in ReturnTypes
  BY <1>2, HardwareAssumption DEF TypeOK, update_group_state, group_result, ReturnTypes
<1>3. CASE Returned("OK")
  BY <1>1, <1>2, <1>3 DEF ReturnTypes
<1>4. CASE called /\ (Returned("ERROR") \/ Returned("DEACTIVATE"))
  BY <1>1, <1>2, <1>4, ErrorIsDown DEF ReturnTypes
<1>5. CASE called /\ o.value = "ERROR" /\ o.state = hw_state[h] /\ o.groups = group_state
  BY <1>1, <1>5 DEF TypeOK, ReturnTypes
<1>6. QED
  BY <1>3, <1>4, <1>5 DEF Call

-----------------------------------------------------------------------------
(* What the parts of a cycle do to the component they handle.               *)

Place == cycle \in [op : {"none", "read", "write"}, at : 1 .. Len(Order) + 1]

\* The component a cycle handles, and the cycle's place afterwards.
LEMMA PlaceInOrder ==
    ASSUME TypeOK, NEW op \in {"read", "write"}, InCycle(op), Advance
    PROVE  Order[cycle.at] \in Hardware /\ Place' /\ cycle'.op = op
<1>1. Len(Order) \in Nat /\ cycle.at \in 1 .. Len(Order)
  BY HardwareAssumption DEF InCycle
<1>2. Order[cycle.at] \in Hardware
  BY <1>1, HardwareAssumption
<1>3. cycle' = [op |-> cycle.op, at |-> cycle.at + 1]
  BY DEF Advance, TypeOK
<1>4. QED
  BY <1>1, <1>2, <1>3 DEF Place, InCycle

\* A component that fails goes out of operation and offers nothing.
LEMMA FailureKeeps ==
    ASSUME TypeOK, ConfiguredIsOffered, NEW h \in Hardware, NEW called \in BOOLEAN,
           NEW o \in Call(h, called), ComponentFails(h, o)
    PROVE  /\ hw_state' \in [Hardware -> States]
           /\ available' \in SUBSET Hardware
           /\ group_state' \in [Groups -> ReturnTypes]
           /\ rw_result' \in ReturnTypes
           /\ rw_failed' = rw_failed \cup {h}
           /\ hw_state'[h] \notin Operable /\ h \notin available'
           /\ \A i \in Hardware : i /= h => /\ hw_state'[i] = hw_state[i]
                                            /\ (i \in available' <=> i \in available)
           /\ ConfiguredIsOffered'
<1>1. o.state \in States /\ o.groups \in [Groups -> ReturnTypes]
  BY CallOutcome
<1>2. PICK s \in error(o.state) :
         Becomes(h, [state |-> s, avail |-> FALSE, reset |-> FALSE], o.groups)
  BY DEF ComponentFails
<1>3. s \in States \ Operable
  BY <1>1, ErrorIsDown
<1> DEFINE c == [state |-> s, avail |-> FALSE, reset |-> FALSE]
<1>4. c \in Component /\ c.state = s /\ ~c.avail /\ Offered(c)
  BY <1>3, MakeComponent DEF Offered
<1>5. rw_result' \in ReturnTypes /\ rw_failed' = rw_failed \cup {h}
  BY DEF ComponentFails, ReturnTypes
<1> HIDE DEF c
<1>6. Becomes(h, c, o.groups)
  BY <1>2 DEF c
<1>7. QED
  BY <1>1, <1>3, <1>4, <1>5, <1>6, BecomesKeeps

\* The component as it is, in a state it is in or a call has left it in.
LEMMA CalledComponent ==
    ASSUME TypeOK, ConfiguredIsOffered, NEW h \in Hardware, NEW s \in States,
           s \in Operable => s = hw_state[h]
    PROVE  /\ component(h, s) \in Component
           /\ Offered(component(h, s))
           /\ component(h, s).state = s
           /\ component(h, s).avail = (h \in available)
<1>1. (h \in available) \in BOOLEAN
  OBVIOUS
<1>2. QED
  BY <1>1, MakeComponent DEF component, Offered, ConfiguredIsOffered

\* A component that goes on keeps its interfaces, and its state unless its own call
\* has ended in error().
LEMMA GoingOnKeeps ==
    ASSUME TypeOK, ConfiguredIsOffered, NEW h \in Hardware, NEW called \in BOOLEAN,
           NEW o \in Call(h, called), ComponentGoesOn(h, o)
    PROVE  /\ hw_state' \in [Hardware -> States]
           /\ available' \in SUBSET Hardware
           /\ group_state' \in [Groups -> ReturnTypes]
           /\ hw_state'[h] = o.state
           /\ h \notin available => h \notin available'
           /\ \A i \in Hardware : i /= h => /\ hw_state'[i] = hw_state[i]
                                            /\ (i \in available' <=> i \in available)
           /\ ConfiguredIsOffered'
           /\ UNCHANGED <<rw_result, rw_failed>>
<1> DEFINE c == component(h, o.state)
<1>1. c \in Component /\ Offered(c) /\ c.state = o.state /\ c.avail = (h \in available)
  BY CalledComponent, CallOutcome
<1>2. Becomes(h, c, o.groups) /\ UNCHANGED <<rw_result, rw_failed>>
  BY DEF ComponentGoesOn
<1>3. o.groups \in [Groups -> ReturnTypes]
  BY CallOutcome
<1> HIDE DEF c
<1>4. QED
  BY <1>1, <1>2, <1>3, BecomesKeeps

\* A component that asks for its deactivation is not activated by it.
LEMMA DeactivationKeeps ==
    ASSUME TypeOK, ConfiguredIsOffered, NEW h \in Hardware, NEW called \in BOOLEAN,
           NEW o \in Call(h, called), ComponentDeactivates(h, o)
    PROVE  /\ hw_state' \in [Hardware -> States]
           /\ available' \in SUBSET Hardware
           /\ group_state' \in [Groups -> ReturnTypes]
           /\ rw_result' \in ReturnTypes
           /\ rw_failed' \subseteq rw_failed \cup {h}
           /\ hw_state'[h] = "active" => hw_state[h] = "active"
           /\ \A i \in Hardware : i /= h => hw_state'[i] = hw_state[i]
           /\ ConfiguredIsOffered'
<1> DEFINE c == component(h, o.state)
<1>1. c \in Component /\ Offered(c) /\ c.state = o.state
  BY CalledComponent, CallOutcome
<1>2. o.groups \in [Groups -> ReturnTypes] /\ (o.state \in Operable => o.state = hw_state[h])
  BY CallOutcome
<1>3. rw_result' \in ReturnTypes /\ rw_failed' \subseteq rw_failed \cup {h}
  BY DEF ComponentDeactivates, ReturnTypes
<1>4. PICK d \in set_component_state(c, "inactive") : Becomes(h, d, o.groups)
  BY DEF ComponentDeactivates
<1> HIDE DEF c
<1>5. d \in Component /\ Offered(d) /\ (d.state = "active" => hw_state[h] = "active")
  BY <1>1, <1>2, SetStateKeeps, ToInactiveDoesNotActivate DEF States, Operable
<1>6. /\ hw_state' \in [Hardware -> States]
      /\ available' \in SUBSET Hardware
      /\ group_state' \in [Groups -> ReturnTypes]
      /\ hw_state'[h] = d.state
      /\ \A i \in Hardware : i /= h => /\ hw_state'[i] = hw_state[i]
                                       /\ (i \in available' <=> i \in available)
      /\ ~d.avail => h \notin available'
      /\ ConfiguredIsOffered'
  BY <1>2, <1>4, <1>5, BecomesKeeps
<1>7. QED
  BY <1>3, <1>5, <1>6

-----------------------------------------------------------------------------
LEMMA InitIInv == Init => IInv
<1> SUFFICES ASSUME Init PROVE IInv
  OBVIOUS
<1>1. Len(Order) \in Nat
  BY HardwareAssumption
<1>2. TypeOK
  BY <1>1, HardwareAssumption DEF Init, TypeOK, NoCycle, States, ReturnTypes
<1>3. QED
  BY <1>2 DEF Init, IInv, ConfiguredIsOffered, FailedReadIsDown, NoCycle, Operable

\* A request, which never comes in the middle of a cycle.
LEMMA RequestKeeps ==
    ASSUME IInv, NEW h \in Hardware, NEW target \in States, SetComponentState(h, target)
    PROVE  IInv'
<1> DEFINE c == component(h, hw_state[h])
<1>1. c \in Component /\ Offered(c)
  BY CalledComponent DEF IInv, TypeOK
<1>2. PICK d \in set_component_state(c, target) : Becomes(h, d, group_state)
  BY DEF SetComponentState
<1> HIDE DEF c
<1>3. d \in Component /\ Offered(d)
  BY <1>1, <1>2, SetStateKeeps
<1>4. TypeOK /\ ConfiguredIsOffered /\ group_state \in [Groups -> ReturnTypes]
  BY DEF IInv, TypeOK
<1>5. /\ hw_state' \in [Hardware -> States]
      /\ available' \in SUBSET Hardware
      /\ group_state' \in [Groups -> ReturnTypes]
      /\ hw_state'[h] = d.state
      /\ \A i \in Hardware : i /= h => /\ hw_state'[i] = hw_state[i]
                                       /\ (i \in available' <=> i \in available)
      /\ ~d.avail => h \notin available'
      /\ ConfiguredIsOffered'
  BY <1>2, <1>3, <1>4, BecomesKeeps
<1>6. QED
  BY <1>5 DEF SetComponentState, rw_vars, IInv, TypeOK, FailedReadIsDown

LEMMA ReadKeeps ==
    ASSUME IInv, ReadComponent
    PROVE  IInv' /\ (\A h \in Hardware : hw_state'[h] = "active" => hw_state[h] = "active")
<1> DEFINE m == Order[cycle.at]
           called == read_called(hw_state[m])
<1>1. m \in Hardware /\ Place' /\ cycle.op = "read" /\ cycle'.op = "read"
  BY PlaceInOrder DEF ReadComponent, IInv, InCycle
<1>2. called \in BOOLEAN
  BY DEF read_called
<1>3. PICK o \in Call(m, called) :
         \/ o.value /= "OK" /\ ComponentFails(m, o)
         \/ o.value = "OK" /\ ComponentGoesOn(m, o)
  BY DEF ReadComponent
<1> HIDE DEF m, called
<1>4. CASE ComponentFails(m, o)
  <2>1. /\ hw_state' \in [Hardware -> States]
        /\ available' \in SUBSET Hardware
        /\ group_state' \in [Groups -> ReturnTypes]
        /\ rw_result' \in ReturnTypes
        /\ rw_failed' = rw_failed \cup {m}
        /\ hw_state'[m] \notin Operable /\ m \notin available'
        /\ \A i \in Hardware : i /= m => /\ hw_state'[i] = hw_state[i]
                                         /\ (i \in available' <=> i \in available)
        /\ ConfiguredIsOffered'
    BY <1>1, <1>2, <1>4, FailureKeeps DEF IInv
  <2>2. TypeOK'
    BY <1>1, <2>1 DEF IInv, TypeOK, Place
  <2>3. FailedReadIsDown'
    BY <1>1, <2>1 DEF IInv, TypeOK, FailedReadIsDown
  <2>4. QED
    BY <2>1, <2>2, <2>3 DEF IInv, Operable
<1>5. CASE ComponentGoesOn(m, o)
  <2>1. /\ hw_state' \in [Hardware -> States]
        /\ available' \in SUBSET Hardware
        /\ group_state' \in [Groups -> ReturnTypes]
        /\ hw_state'[m] = o.state
        /\ m \notin available => m \notin available'
        /\ \A i \in Hardware : i /= m => /\ hw_state'[i] = hw_state[i]
                                         /\ (i \in available' <=> i \in available)
        /\ ConfiguredIsOffered'
        /\ UNCHANGED <<rw_result, rw_failed>>
    BY <1>1, <1>2, <1>5, GoingOnKeeps DEF IInv
  <2>2. o.state \in Operable => o.state = hw_state[m]
    BY <1>1, <1>2, CallOutcome DEF IInv
  <2>3. TypeOK'
    BY <1>1, <2>1 DEF IInv, TypeOK, Place
  <2>4. FailedReadIsDown'
    BY <1>1, <2>1, <2>2 DEF IInv, TypeOK, FailedReadIsDown
  <2>5. QED
    BY <2>1, <2>2, <2>3, <2>4 DEF IInv, Operable
<1>6. QED
  BY <1>3, <1>4, <1>5

LEMMA WriteKeeps ==
    ASSUME IInv, WriteComponent
    PROVE  IInv' /\ (\A h \in Hardware : hw_state'[h] = "active" => hw_state[h] = "active")
<1> DEFINE m == Order[cycle.at]
           called == write_called(hw_state[m])
<1>1. m \in Hardware /\ Place' /\ cycle'.op = "write"
  BY PlaceInOrder DEF WriteComponent, IInv, InCycle
<1>2. called \in BOOLEAN
  BY DEF write_called
<1>3. CASE UNCHANGED <<hw_vars, rw_result, rw_failed>>
  BY <1>1, <1>3
     DEF hw_vars, IInv, TypeOK, ConfiguredIsOffered, FailedReadIsDown, Place
<1>4. CASE ~UNCHANGED <<hw_vars, rw_result, rw_failed>>
  <2>1. PICK o \in Call(m, called) :
           \/ o.value = "ERROR" /\ ComponentFails(m, o)
           \/ o.value = "DEACTIVATE" /\ ComponentDeactivates(m, o)
           \/ o.value = "OK" /\ ComponentGoesOn(m, o)
    BY <1>4 DEF WriteComponent
  <2> HIDE DEF m, called
  <2>2. /\ hw_state' \in [Hardware -> States]
        /\ available' \in SUBSET Hardware
        /\ group_state' \in [Groups -> ReturnTypes]
        /\ rw_result' \in ReturnTypes
        /\ rw_failed' \in SUBSET Hardware
        /\ \A i \in Hardware : hw_state'[i] = "active" => hw_state[i] = "active"
        /\ ConfiguredIsOffered'
    <3>1. CASE ComponentFails(m, o)
      BY <1>1, <1>2, <3>1, FailureKeeps DEF IInv, TypeOK, Operable
    <3>2. CASE ComponentDeactivates(m, o)
      BY <1>1, <1>2, <3>2, DeactivationKeeps DEF IInv, TypeOK
    <3>3. CASE ComponentGoesOn(m, o)
      BY <1>1, <1>2, <3>3, GoingOnKeeps, CallOutcome DEF IInv, TypeOK, Operable
    <3>4. QED
      BY <2>1, <3>1, <3>2, <3>3
  <2>3. QED
    BY <1>1, <2>2 DEF IInv, TypeOK, FailedReadIsDown, Place
<1>5. QED
  BY <1>3, <1>4

\* One step per action.
LEMMA NextIInv == IInv /\ [Next]_vars => IInv'
<1> SUFFICES ASSUME IInv, [Next]_vars PROVE IInv'
  OBVIOUS
<1>0. Len(Order) \in Nat
  BY HardwareAssumption
<1>1. CASE Requests
  BY <1>1, RequestKeeps DEF Requests
<1>2. ASSUME NEW op \in {"read", "write"}, BeginCycle(op) PROVE IInv'
  BY <1>0, <1>2 DEF BeginCycle, hw_vars, IInv, TypeOK, ConfiguredIsOffered,
                    FailedReadIsDown, ReturnTypes
<1>3. CASE SkipCycle
  BY <1>3 DEF SkipCycle, hw_vars, IInv, TypeOK, ConfiguredIsOffered,
              FailedReadIsDown, ReturnTypes
<1>4. CASE ReadComponent
  BY <1>4, ReadKeeps
<1>5. CASE WriteComponent
  BY <1>5, WriteKeeps
<1>6. CASE EndCycle
  BY <1>0, <1>6 DEF EndCycle, hw_vars, NoCycle, IInv, TypeOK, ConfiguredIsOffered,
                    FailedReadIsDown
<1>7. CASE UNCHANGED vars
  BY <1>7 DEF vars, IInv, TypeOK, ConfiguredIsOffered, FailedReadIsDown
<1>8. QED
  BY <1>1, <1>2, <1>3, <1>4, <1>5, <1>6, <1>7 DEF Next, CycleSteps

LEMMA Invariant == Spec => []IInv
  BY InitIInv, NextIInv, PTL DEF Spec

-----------------------------------------------------------------------------
\* The variables stay in their types: in particular a cycle never looks past the
\* end of the list of components.
THEOREM TypeCorrect == Spec => []TypeOK
<1>1. IInv => TypeOK
  BY DEF IInv
<1>2. QED
  BY <1>1, Invariant, PTL

\* Whatever the callbacks return, in requests and in cycles, the interfaces of every
\* component in operation can be claimed.
THEOREM ConfiguredHardwareIsOffered == Spec => []ConfiguredIsOffered
<1>1. IInv => ConfiguredIsOffered
  BY DEF IInv
<1>2. QED
  BY <1>1, Invariant, PTL

\* The components a read cycle reports are out of operation when it reports them.
THEOREM FailedReadsAreDown == Spec => []FailedReadIsDown
<1>1. IInv => FailedReadIsDown
  BY DEF IInv
<1>2. QED
  BY <1>1, Invariant, PTL

\* No cycle activates hardware, for any grouping and any order.
THEOREM TheLoopNeverActivates == Spec => LoopNeverActivates
<1> DEFINE Step == cycle.op /= "none" =>
               \A h \in Hardware : hw_state'[h] = "active" => hw_state[h] = "active"
<1>1. ASSUME IInv, Next PROVE Step
  <2>1. CASE Requests
    BY <2>1 DEF Requests, SetComponentState
  <2>2. CASE SkipCycle \/ (\E op \in {"read", "write"} : BeginCycle(op))
    BY <2>2 DEF SkipCycle, BeginCycle
  <2>3. CASE ReadComponent
    BY <1>1, <2>3, ReadKeeps
  <2>4. CASE WriteComponent
    BY <1>1, <2>4, WriteKeeps
  <2>5. CASE EndCycle
    BY <2>5 DEF EndCycle, hw_vars
  <2>6. QED
    BY <1>1, <2>1, <2>2, <2>3, <2>4, <2>5 DEF Next, CycleSteps
<1>2. IInv /\ [Next]_vars => [Step]_vars
  BY <1>1
<1> HIDE DEF Step
<1>3. Spec => [][Step]_vars
  BY <1>2, Invariant, PTL DEF Spec
<1>4. QED
  BY <1>3 DEF LoopNeverActivates, Step

-----------------------------------------------------------------------------
(* Startup.                                                                *)

(* The invariant.                                                           *)

\* Nothing that the start-up has still to activate is active: not before there is a
\* description, nor outside the group in progress.
NotYetActive ==
    /\ phase = "waiting" => \A h \in Hardware : hw_state[h] /= "active"
    /\ \A h \in to_activate : GroupOf[h] /= group \/ group = NoGroup => hw_state[h] /= "active"

InGroup == phase \in {"configuring", "activating", "rollback"}

\* How far the group in progress has come.
GroupProgress ==
    /\ InGroup => group \in Groups /\ queue \subseteq Members(group)
    /\ group /= NoGroup => InGroup \/ phase = "dead"
    /\ phase = "configuring" =>
          /\ activated = {}
          /\ \A h \in Members(group) : hw_state[h] /= "active"
    /\ phase = "activating" =>
          /\ activated = Members(group) \ queue
          /\ \A h \in queue : hw_state[h] /= "active"
          /\ ~spoiled /\ ~stopping => \A h \in activated : hw_state[h] = "active"
    /\ phase = "rollback" /\ ~spoiled =>
          \A h \in Members(group) \ queue : hw_state[h] /= "active"

\* Only a process that is asked to stop closes its components.
ClosingIsStopping == closing /= {} => stopping

StartupInv ==
    /\ StartupTypeOK
    /\ ConfiguredIsOffered
    /\ NotYetActive
    /\ GroupProgress
    /\ ClosingIsStopping
    /\ ShutDownIsFinal

-----------------------------------------------------------------------------
(* Induction.  A set of natural numbers has a least element, by the         *)
(* well-foundedness of the strict inclusion of finite sets; so a cycle can  *)
(* be followed along the order of the components.                           *)

\* A set of natural numbers that is not empty has a least element.
LEMMA Least ==
    ASSUME NEW T \in SUBSET Nat, T # {}
    PROVE  \E m \in T : \A k \in T : m <= k
<1> DEFINE Upto == { 1 .. n : n \in T }
<1>1. Upto \in SUBSET FiniteSubsetsOf(Nat) /\ Upto # {}
  <2>1. \A n \in T : IsFiniteSet(1 .. n) /\ 1 .. n \in SUBSET Nat
    BY FS_Interval
  <2>2. QED
    BY <2>1 DEF FiniteSubsetsOf
<1>2. PICK least \in Upto : \A u \in Upto : <<u, least>> \notin StrictSubsetOrdering(Nat)
  <2> HIDE DEF Upto
  <2>1. QED
    BY <1>1, FS_StrictSubsetOrderingWellFounded, WFMin
<1>3. PICK m \in T : least = 1 .. m
  OBVIOUS
<1>4. ASSUME NEW k \in T, k < m PROVE FALSE
  <2>1. 1 .. k \subseteq 1 .. m /\ m \notin 1 .. k /\ m \in 1 .. m
    BY <1>4
  <2>2. <<1 .. k, 1 .. m>> \in StrictSubsetOrdering(Nat)
    BY <2>1 DEF StrictSubsetOrdering
  <2>3. QED
    BY <1>2, <1>3, <2>2
<1>5. QED
  BY <1>4

\* The states a cycle op may have led to after its first components: one component
\* more, of the place n in the order.
AndOneMore(op, States1, n) ==
    IF Order[n] \notin loaded THEN States1
    ELSE UNION { Cycles(op, s, Order[n]) : s \in States1 }

\* The states after each number of components, for a cycle of n of them.
Progress(op, n, g) ==
    g = [i \in 0 .. n |-> IF i = 0 THEN {Now} ELSE AndOneMore(op, g[i - 1], i)]

\* The recursion of a cycle is defined, and computes the states it leads to.
LEMMA CycleProgress ==
    ASSUME NEW op \in {"read", "write"}, Len(Order) \in Nat
    PROVE  \E g : Progress(op, Len(Order), g) /\ Cycle(op) = g[Len(Order)]
<1> DEFINE Missing == {n \in Nat : ~ \E g : Progress(op, n, g)}
<1>1. Missing = {}
  <2>1. SUFFICES ASSUME Missing # {} PROVE FALSE
    OBVIOUS
  <2>2. PICK m \in Missing : \A k \in Missing : m <= k
    BY <2>1, Least
  <2>3. m # 0
    <3>1. Progress(op, 0, [i \in 0 .. 0 |-> {Now}])
      BY DEF Progress
    <3>2. QED
      BY <3>1
  <2>4. PICK g : Progress(op, m - 1, g)
    BY <2>2, <2>3
  <2> DEFINE f == [i \in 0 .. m |-> IF i = m THEN AndOneMore(op, g[m - 1], m) ELSE g[i]]
  <2>5. m - 1 \in Nat /\ m \in Nat
    BY <2>3
  <2>6. ASSUME NEW i \in 0 .. m
        PROVE  f[i] = IF i = 0 THEN {Now} ELSE AndOneMore(op, f[i - 1], i)
    <3>1. CASE i = m
      <4>1. f[i] = AndOneMore(op, g[m - 1], m) /\ f[i - 1] = g[m - 1]
        BY <2>3, <2>5, <3>1
      <4>2. QED
        BY <2>3, <3>1, <4>1
    <3>2. CASE i /= m
      <4>1. i \in 0 .. m - 1 /\ f[i] = g[i]
        BY <2>5, <3>2
      <4>2. g[i] = IF i = 0 THEN {Now} ELSE AndOneMore(op, g[i - 1], i)
        BY <2>4, <4>1 DEF Progress
      <4>3. i /= 0 => f[i - 1] = g[i - 1]
        BY <2>5, <4>1
      <4>4. QED
        BY <4>1, <4>2, <4>3
    <3>3. QED
      BY <3>1, <3>2
  <2>7. Progress(op, m, f)
    <3>1. f = [i \in 0 .. m |-> f[i]]
      OBVIOUS
    <3> HIDE DEF f
    <3>2. QED
      BY <2>6, <3>1 DEF Progress
  <2>8. QED
    BY <2>2, <2>7
<1>2. \E g : Progress(op, Len(Order), g)
  BY <1>1
<1>3. \E g : g = [n \in 0 .. Len(Order) |->
                    IF n = 0 THEN {Now}
                    ELSE IF Order[n] \notin loaded THEN g[n - 1]
                    ELSE UNION { Cycles(op, s, Order[n]) : s \in g[n - 1] }]
  BY <1>2 DEF Progress, AndOneMore
<1>4. \E g : /\ g = [n \in 0 .. Len(Order) |->
                       IF n = 0 THEN {Now}
                       ELSE IF Order[n] \notin loaded THEN g[n - 1]
                       ELSE UNION { Cycles(op, s, Order[n]) : s \in g[n - 1] }]
             /\ Cycle(op) = g[Len(Order)]
  BY <1>3 DEF Cycle
<1>5. QED
  BY <1>4 DEF Progress, AndOneMore

-----------------------------------------------------------------------------
(* What a cycle may do to the hardware, whatever the drivers return.        *)

\* A state that a cycle may reach: the interfaces of what is in operation are
\* available, nothing has been activated, and what was finalized outside a group
\* still is.
Reachable(s) ==
    /\ s \in [hw : [Hardware -> States], offered : SUBSET Hardware,
              groups : [Groups -> ReturnTypes]]
    /\ \A h \in Hardware : s.hw[h] \in Operable => h \in s.offered
    /\ \A h \in Hardware : s.hw[h] = "active" => hw_state[h] = "active"
    /\ \A h \in Hardware :
          GroupOf[h] = NoGroup /\ hw_state[h] = "finalized" => s.hw[h] = "finalized"

\* The cycle starts in one.
LEMMA NowIsReachable ==
    ASSUME TypeOK, ConfiguredIsOffered
    PROVE  Reachable(Now)
  BY DEF TypeOK, ConfiguredIsOffered, Now, Reachable

\* Component h goes to state t, with or without its interfaces.
LEMMA MoveIsReachable ==
    ASSUME NEW s, Reachable(s), NEW h \in Hardware, NEW t \in States,
           NEW offered \in SUBSET Hardware, NEW groups \in [Groups -> ReturnTypes],
           offered \in {s.offered, s.offered \cup {h}, s.offered \ {h}},
           t \in Operable => h \in offered,
           t = "active" => hw_state[h] = "active",
           GroupOf[h] = NoGroup /\ hw_state[h] = "finalized" => t = "finalized"
    PROVE  Reachable([hw |-> [s.hw EXCEPT ![h] = t], offered |-> offered, groups |-> groups])
<1> DEFINE hw == [s.hw EXCEPT ![h] = t]
<1>1. /\ s.hw \in [Hardware -> States]
      /\ \A i \in Hardware : s.hw[i] \in Operable => i \in s.offered
      /\ \A i \in Hardware : s.hw[i] = "active" => hw_state[i] = "active"
      /\ \A i \in Hardware :
            GroupOf[i] = NoGroup /\ hw_state[i] = "finalized" => s.hw[i] = "finalized"
  BY DEF Reachable
<1>2. hw \in [Hardware -> States] /\ hw[h] = t /\ \A i \in Hardware : i /= h => hw[i] = s.hw[i]
  BY <1>1
<1>3. \A i \in Hardware : i /= h => (i \in offered <=> i \in s.offered)
  OBVIOUS
<1> HIDE DEF hw
<1>4. Reachable([hw |-> hw, offered |-> offered, groups |-> groups])
  BY <1>1, <1>2, <1>3 DEF Reachable
<1>5. QED
  BY <1>4 DEF hw

\* State s after component h has become c.
After(s, h, c) ==
    [hw |-> [s.hw EXCEPT ![h] = c.state],
     offered |-> IF c.avail THEN s.offered \cup {h} ELSE s.offered \ {h},
     groups |-> IF c.reset /\ GroupOf[h] /= NoGroup
                THEN [s.groups EXCEPT ![GroupOf[h]] = "OK"] ELSE s.groups]

LEMMA AfterIsReachable ==
    ASSUME NEW s, Reachable(s), NEW h \in Hardware, NEW c \in Component, Offered(c),
           c.state = "active" => hw_state[h] = "active",
           GroupOf[h] = NoGroup /\ hw_state[h] = "finalized" => c.state = "finalized"
    PROVE  Reachable(After(s, h, c))
<1> DEFINE offered == IF c.avail THEN s.offered \cup {h} ELSE s.offered \ {h}
           groups == IF c.reset /\ GroupOf[h] /= NoGroup
                     THEN [s.groups EXCEPT ![GroupOf[h]] = "OK"] ELSE s.groups
<1>1. s.offered \in SUBSET Hardware /\ s.groups \in [Groups -> ReturnTypes]
  BY DEF Reachable
<1>2. c.state \in States /\ (c.state \in Operable => c.avail)
  BY DEF Component, Offered
<1>3. groups \in [Groups -> ReturnTypes]
  BY <1>1, HardwareAssumption DEF ReturnTypes
<1>4. /\ offered \in SUBSET Hardware
      /\ offered \in {s.offered, s.offered \cup {h}, s.offered \ {h}}
      /\ c.state \in Operable => h \in offered
  BY <1>1, <1>2
<1> HIDE DEF offered, groups
<1>5. Reachable([hw |-> [s.hw EXCEPT ![h] = c.state], offered |-> offered, groups |-> groups])
  BY <1>2, <1>3, <1>4, MoveIsReachable
<1>6. QED
  BY <1>5 DEF After, offered, groups

\* The component as it is in s.
LEMMA WasComponent ==
    ASSUME NEW s, Reachable(s), NEW h \in Hardware,
           NEW was, was = [state |-> s.hw[h], avail |-> h \in s.offered, reset |-> FALSE]
    PROVE  was \in Component /\ Offered(was) /\ was.state = s.hw[h] /\ was.state \in States
<1>1. s.hw[h] \in States /\ (s.hw[h] \in Operable => h \in s.offered)
  BY DEF Reachable
<1>2. (h \in s.offered) \in BOOLEAN
  OBVIOUS
<1>3. QED
  BY <1>1, <1>2, MakeComponent DEF Offered

\* What the manager does with the value that it sees.
LEMMA SettledIsReachable ==
    ASSUME NEW op \in {"read", "write"}, NEW s, Reachable(s), NEW h \in Hardware,
           NEW value \in ReturnTypes, NEW t \in Settles(op, s, h, value),
           GroupOf[h] = NoGroup /\ hw_state[h] = "finalized" => value = "OK"
    PROVE  Reachable(t)
<1> DEFINE was == [state |-> s.hw[h], avail |-> h \in s.offered, reset |-> FALSE]
<1>1. was \in Component /\ Offered(was) /\ was.state = s.hw[h] /\ was.state \in States
  BY WasComponent
<1>2. s.hw[h] = "active" => hw_state[h] = "active"
  BY DEF Reachable
<1>3. CASE value = "OK"
  BY <1>3 DEF Settles
<1>4. CASE value /= "OK" /\ op = "write" /\ value = "DEACTIVATE"
  <2>1. PICK c \in set_component_state(was, "inactive") : t = After(s, h, c)
    BY <1>4 DEF Settles, After
  <2> HIDE DEF was
  <2>2. c \in Component /\ Offered(c)
    BY <1>1, SetStateKeeps DEF States
  <2>3. c.state = "active" => hw_state[h] = "active"
    BY <1>1, <1>2, <2>1, ToInactiveDoesNotActivate
  <2>4. QED
    BY <1>4, <2>1, <2>2, <2>3, AfterIsReachable
<1>5. CASE value /= "OK" /\ ~(op = "write" /\ value = "DEACTIVATE")
  <2>1. PICK e \in error(s.hw[h]) : 
           t = After(s, h, [state |-> e, avail |-> FALSE, reset |-> FALSE])
    BY <1>5 DEF Settles, After
  <2>2. e \in States \ Operable
    BY <1>1, ErrorIsDown
  <2> DEFINE c == [state |-> e, avail |-> FALSE, reset |-> FALSE]
  <2>3. c \in Component /\ Offered(c) /\ c.state = e
    BY <2>2, MakeComponent DEF Offered
  <2>4. t = After(s, h, c)
    BY <2>1
  <2> HIDE DEF c, was
  <2>5. c.state /= "active"
    BY <2>2, <2>3 DEF Operable
  <2>6. QED
    BY <1>5, <2>3, <2>4, <2>5, AfterIsReachable
<1>6. QED
  BY <1>3, <1>4, <1>5

\* One component of a cycle.
LEMMA CycledIsReachable ==
    ASSUME NEW op \in {"read", "write"}, NEW s, Reachable(s), NEW h \in Hardware,
           NEW t \in Cycles(op, s, h)
    PROVE  Reachable(t)
<1> DEFINE called == IF op = "read" THEN read_called(s.hw[h]) ELSE write_called(s.hw[h])
           groups(r) == update_group_state(s.groups, h, r)
           returned(r) == { [s EXCEPT !.hw[h] = e, !.groups = groups(r)] :
                              e \in IF r = "ERROR" THEN error(s.hw[h]) ELSE {s.hw[h]} }
<1>1. /\ s.hw \in [Hardware -> States] /\ s.hw[h] \in States
      /\ s.offered \in SUBSET Hardware
      /\ s.groups \in [Groups -> ReturnTypes]
      /\ s.hw[h] \in Operable => h \in s.offered
      /\ s.hw[h] = "active" => hw_state[h] = "active"
      /\ GroupOf[h] = NoGroup /\ hw_state[h] = "finalized" => s.hw[h] = "finalized"
      /\ s = [hw |-> s.hw, offered |-> s.offered, groups |-> s.groups]
  BY DEF Reachable
<1>2. called => s.hw[h] \in Operable
  BY DEF read_called, write_called, Operable
<1>3. CASE t \in Settles(op, s, h, "ERROR") /\ called
  <2>1. s.hw[h] /= "finalized"
    BY <1>2, <1>3 DEF Operable
  <2>2. QED
    BY <1>1, <1>3, <2>1, SettledIsReachable DEF ReturnTypes
<1>4. ASSUME NEW r \in ReturnTypes, called \/ r = "OK", NEW u \in returned(r),
             t \in Settles(op, u, h, group_result(groups(r), h, r))
      PROVE  Reachable(t)
  <2>1. groups(r) \in [Groups -> ReturnTypes] /\ group_result(groups(r), h, r) \in ReturnTypes
        /\ (GroupOf[h] = NoGroup => group_result(groups(r), h, r) = r)
    BY <1>1, HardwareAssumption DEF update_group_state, group_result, ReturnTypes
  <2>2. PICK e \in (IF r = "ERROR" THEN error(s.hw[h]) ELSE {s.hw[h]}) :
           u = [s EXCEPT !.hw[h] = e, !.groups = groups(r)]
    OBVIOUS
  <2> HIDE DEF groups, called, returned
  <2>3. u = [hw |-> [s.hw EXCEPT ![h] = e], offered |-> s.offered, groups |-> groups(r)]
    BY <1>1, <2>2
  <2>4. e \in States /\ (e \in Operable => e = s.hw[h])
    BY <1>1, <2>2, ErrorIsDown
  <2>5. GroupOf[h] = NoGroup /\ hw_state[h] = "finalized" => r = "OK"
    BY <1>1, <1>2, <1>4 DEF Operable
  <2>6. GroupOf[h] = NoGroup /\ hw_state[h] = "finalized" => e = "finalized"
    BY <1>1, <2>2, <2>5
  <2>7. e = "active" => hw_state[h] = "active"
    BY <1>1, <2>4 DEF Operable
  <2>8. Reachable(u)
    BY <1>1, <2>1, <2>3, <2>4, <2>6, <2>7, MoveIsReachable
  <2>9. QED
    BY <1>4, <2>1, <2>5, <2>8, SettledIsReachable
<1>5. CASE op = "write" /\ h \in Sensors
  BY <1>5 DEF Cycles
<1>6. QED
  <2>1. SUFFICES ASSUME ~(op = "write" /\ h \in Sensors) PROVE Reachable(t)
    BY <1>5
  <2> DEFINE own == IF called THEN ReturnTypes ELSE {"OK"}
             settled(r) == UNION { Settles(op, u, h, group_result(groups(r), h, r)) :
                                     u \in returned(r) }
  <2>2. \/ \E r \in own : \E u \in returned(r) :
                t \in Settles(op, u, h, group_result(groups(r), h, r))
        \/ called /\ t \in Settles(op, s, h, "ERROR")
    <3>1. Cycles(op, s, h) = (UNION { settled(r) : r \in own })
                             \cup (IF called THEN Settles(op, s, h, "ERROR") ELSE {})
      BY <2>1 DEF Cycles
    <3>2. \A r : \A v \in settled(r) : \E u \in returned(r) :
             v \in Settles(op, u, h, group_result(groups(r), h, r))
      <4> HIDE DEF called, returned, groups
      <4>1. QED
        OBVIOUS
    <3> HIDE DEF called, returned, groups, own, settled
    <3>3. QED
      BY <3>1, <3>2
  <2> HIDE DEF called, returned, groups
  <2>3. QED
    BY <1>3, <1>4, <2>2 DEF own, ReturnTypes

\* A cycle as a whole.
LEMMA CycleIsReachable ==
    ASSUME TypeOK, ConfiguredIsOffered, NEW op \in {"read", "write"}, NEW t \in Cycle(op)
    PROVE  Reachable(t)
<1>1. Len(Order) \in Nat /\ \A i \in 1 .. Len(Order) : Order[i] \in Hardware
  BY HardwareAssumption
<1>2. PICK g : Progress(op, Len(Order), g) /\ Cycle(op) = g[Len(Order)]
  BY <1>1, CycleProgress
<1> DEFINE Bad == {i \in 0 .. Len(Order) : \E s \in g[i] : ~Reachable(s)}
<1>3. SUFFICES ASSUME Bad # {} PROVE FALSE
  BY <1>1, <1>2
<1>4. PICK m \in Bad : \A k \in Bad : m <= k
  <2>1. Bad \in SUBSET Nat
    BY <1>1
  <2> HIDE DEF Bad
  <2>2. QED
    BY <1>3, <2>1, Least
<1>5. g[m] = IF m = 0 THEN {Now} ELSE AndOneMore(op, g[m - 1], m)
  BY <1>2 DEF Progress
<1>6. m /= 0
  BY <1>5, NowIsReachable
<1>7. m \in 1 .. Len(Order) /\ m - 1 \in 0 .. Len(Order) /\ m - 1 \notin Bad
  BY <1>1, <1>4, <1>6
<1>8. \A s \in g[m - 1] : Reachable(s)
  BY <1>7
<1>9. PICK s \in g[m] : ~Reachable(s)
  OBVIOUS
<1>10. s \in AndOneMore(op, g[m - 1], m)
  BY <1>5, <1>6
<1>11. CASE Order[m] \notin loaded
  BY <1>8, <1>9, <1>10, <1>11 DEF AndOneMore
<1>12. CASE Order[m] \in loaded
  <2>1. PICK u \in g[m - 1] : s \in Cycles(op, u, Order[m])
    BY <1>10, <1>12 DEF AndOneMore
  <2>2. QED
    BY <1>1, <1>7, <1>8, <1>9, <2>1, CycledIsReachable
<1>13. QED
  BY <1>11, <1>12

-----------------------------------------------------------------------------
(* The transitions that the start-up and the shutdown ask for.              *)

\* Only a request for "active" activates.
LEMMA OthersDoNotActivate ==
    ASSUME NEW c \in Component, NEW target \in States \ {"active"},
           NEW d \in set_component_state(c, target), Offered(c), c.state /= "active"
    PROVE  d.state /= "active"
<1>1. CASE target = "unconfigured"
  <2>1. d = c \/ d \in cleanup_hardware(c)
    BY <1>1 DEF set_component_state, to_unconfigured
  <2>2. QED
    BY <2>1 DEF cleanup_hardware, cleanup, error, Component
<1>2. CASE target = "inactive"
  BY <1>2, ToInactiveDoesNotActivate
<1>3. CASE target = "finalized"
  <2>1. d = c \/ d \in shutdown_hardware(c)
    BY <1>3 DEF set_component_state, to_finalized
  <2>2. QED
    BY <2>1 DEF shutdown_hardware, shutdown, error, Component
<1>4. QED
  BY <1>1, <1>2, <1>3 DEF States

\* No request takes a component out of "finalized".
LEMMA FinalizedStays ==
    ASSUME NEW c \in Component, NEW target \in States,
           NEW d \in set_component_state(c, target), c.state = "finalized"
    PROVE  d = c
  BY DEF set_component_state, to_unconfigured, to_inactive, to_active, to_finalized, States

\* What a request leaves of the hardware.
LEMMA SetKeeps ==
    ASSUME TypeOK, ConfiguredIsOffered, NEW h \in Hardware, NEW target \in States, NEW c,
           Sets(h, target, c), UNCHANGED rw_vars
    PROVE  /\ TypeOK' /\ ConfiguredIsOffered'
           /\ hw_state'[h] = c.state
           /\ \A i \in Hardware : i /= h => hw_state'[i] = hw_state[i]
           /\ target /= "active" /\ hw_state[h] /= "active" => c.state /= "active"
           /\ \A i \in Hardware : hw_state[i] = "finalized" => hw_state'[i] = "finalized"
<1> DEFINE was == component(h, hw_state[h])
<1>1. was \in Component /\ Offered(was) /\ was.state = hw_state[h]
  BY CalledComponent DEF TypeOK
<1>2. c \in set_component_state(was, target) /\ Becomes(h, c, group_state)
  BY DEF Sets
<1> HIDE DEF was
<1>3. c \in Component /\ Offered(c)
  BY <1>1, <1>2, SetStateKeeps
<1>4. group_state \in [Groups -> ReturnTypes]
  BY DEF TypeOK
<1>5. /\ hw_state' \in [Hardware -> States]
      /\ available' \in SUBSET Hardware
      /\ group_state' \in [Groups -> ReturnTypes]
      /\ hw_state'[h] = c.state
      /\ \A i \in Hardware : i /= h => hw_state'[i] = hw_state[i]
      /\ ConfiguredIsOffered'
  BY <1>2, <1>3, <1>4, BecomesKeeps
<1>6. TypeOK'
  BY <1>5 DEF TypeOK, rw_vars
<1>7. target /= "active" /\ hw_state[h] /= "active" => c.state /= "active"
  BY <1>1, <1>2, OthersDoNotActivate
<1>8. hw_state[h] = "finalized" => c.state = "finalized"
  BY <1>1, <1>2, FinalizedStays
<1>9. QED
  BY <1>5, <1>6, <1>7, <1>8

-----------------------------------------------------------------------------
(* Frames: what the parts of the invariant depend on.                       *)

\* The types of the variables of the start-up, one by one.
Types ==
    /\ settings \in Settings /\ phase \in Phases /\ descriptions \in 0 .. MaxDescriptions
    /\ loaded \in SUBSET Hardware /\ to_activate \in SUBSET Hardware
    /\ queue \in SUBSET Hardware /\ activated \in SUBSET Hardware
    /\ closing \in SUBSET Hardware /\ resisted \in SUBSET Hardware
    /\ valid \in BOOLEAN /\ own_options \in BOOLEAN
    /\ spoiled \in BOOLEAN /\ stopping \in BOOLEAN
    /\ group \in Groups \cup {NoGroup}

LEMMA TypesAreTypes == (StartupTypeOK <=> TypeOK /\ Types) /\ (StartupTypeOK' <=> TypeOK' /\ Types')
  BY DEF StartupTypeOK, Types

\* The members of a group that are still to be activated are hardware of that group.
LEMMA MembersAreHardware ==
    ASSUME Types, NEW g
    PROVE  /\ Members(g) \in SUBSET Hardware
           /\ \A h : h \in Members(g) <=> h \in to_activate /\ GroupOf[h] = g
  BY DEF Types, Members

\* What was shut down stays so when no request and no cycle takes it out of "finalized".
LEMMA FinalIsKept ==
    ASSUME ShutDownIsFinal, Types, UNCHANGED <<loaded, closing, stopping, resisted>>,
           \A i \in Hardware : GroupOf[i] = NoGroup /\ hw_state[i] = "finalized"
                                 => hw_state'[i] = "finalized"
    PROVE  ShutDownIsFinal'
  BY DEF ShutDownIsFinal, Types

LEMMA InitStartupInv == StartupInit => StartupInv
<1> SUFFICES ASSUME StartupInit PROVE StartupInv
  OBVIOUS
<1>1. IInv
  BY InitIInv DEF StartupInit
<1>2. Types
  <2>1. valid \in BOOLEAN /\ own_options \in BOOLEAN /\ spoiled \in BOOLEAN /\ stopping \in BOOLEAN
    BY DEF StartupInit
  <2>2. descriptions \in 0 .. MaxDescriptions /\ phase \in Phases
    BY StartupAssumption DEF StartupInit, Phases
  <2>3. QED
    BY <2>1, <2>2 DEF StartupInit, Types
<1>3. GroupProgress
  BY DEF StartupInit, GroupProgress, InGroup
<1>4. NotYetActive
  BY DEF StartupInit, Init, NotYetActive
<1>5. QED
  BY <1>1, <1>2, <1>3, <1>4, TypesAreTypes
     DEF StartupInit, IInv, StartupInv, ClosingIsStopping, ShutDownIsFinal

-----------------------------------------------------------------------------
(* One lemma per action, or per group of actions that disturb the same      *)
(* parts of the invariant.                                                  *)

\* The hardware is as it was.
LEMMA HardwareUnchanged ==
    ASSUME StartupInv, UNCHANGED vars
    PROVE  TypeOK' /\ ConfiguredIsOffered'
  BY DEF StartupInv, StartupTypeOK, vars, TypeOK, ConfiguredIsOffered

LEMMA LoadingKeeps ==
    ASSUME StartupInv, robot_description_callback \/ IgnoreDescription
    PROVE  StartupInv'
<1> USE DEF StartupInv
<1>1. TypeOK' /\ ConfiguredIsOffered' /\ UNCHANGED hw_state /\ Types
  BY HardwareUnchanged, TypesAreTypes
     DEF robot_description_callback, IgnoreDescription, vars
<1>2. CASE IgnoreDescription
  <2>1. UNCHANGED <<phase, loaded, to_activate, queue, group, activated, spoiled, closing,
                    stopping, resisted>>
    BY <1>2 DEF IgnoreDescription, group_vars, close_vars
  <2>2. Types'
    BY <1>1, <1>2, <2>1, StartupAssumption DEF IgnoreDescription, Types
  <2>3. NotYetActive' /\ GroupProgress' /\ ClosingIsStopping' /\ ShutDownIsFinal'
    BY <1>1, <2>1 DEF NotYetActive, GroupProgress, InGroup, Members, ClosingIsStopping,
                      ShutDownIsFinal
  <2>4. QED
    BY <1>1, <2>2, <2>3, TypesAreTypes
<1>3. CASE robot_description_callback
  <2>1. /\ phase = "waiting" /\ ~stopping
        /\ UNCHANGED <<settings, group, activated, spoiled, closing, stopping, resisted>>
        /\ descriptions < MaxDescriptions /\ descriptions' = descriptions + 1
    BY <1>3 DEF robot_description_callback, close_vars
  <2>2. /\ loaded' \in SUBSET Hardware /\ valid' \in BOOLEAN
    <3>1. PICK outcome \in [Hardware -> Outcomes] : init_resource_manager(outcome)
      BY <1>3 DEF robot_description_callback
    <3>2. QED
      BY <3>1 DEF init_resource_manager, LoadThrows, load_and_initialize_components
  <2>3. /\ own_options' \in BOOLEAN
        /\ \/ UNCHANGED <<phase, queue, to_activate>>
           \/ /\ phase' = "unconfigured"
              /\ to_activate' = loaded' /\ queue' \in SUBSET loaded'
    BY <1>1, <1>3 DEF robot_description_callback, replace_resource_manager, Types
  <2>4. Types'
    BY <1>1, <2>1, <2>2, <2>3, StartupAssumption DEF Types, Phases
  <2>5. group = NoGroup /\ ~InGroup /\ \A h \in Hardware : hw_state[h] /= "active"
    BY <2>1 DEF GroupProgress, InGroup, NotYetActive
  <2>6. NotYetActive' /\ GroupProgress'
    BY <1>1, <2>1, <2>2, <2>3, <2>5 DEF NotYetActive, GroupProgress, InGroup, Types
  <2>7. ClosingIsStopping' /\ ShutDownIsFinal'
    BY <2>1 DEF ClosingIsStopping, ShutDownIsFinal
  <2>8. QED
    BY <1>1, <2>4, <2>6, <2>7, TypesAreTypes
<1>4. QED
  BY <1>2, <1>3

LEMMA ListedKeeps ==
    ASSUME StartupInv, NEW h \in Hardware, SetListed(h) \/ ActivateUngrouped(h)
    PROVE  StartupInv'
<1> USE DEF StartupInv
<1>1. TypeOK /\ Types
  BY TypesAreTypes
<1>2. PICK target \in States : \E c : Sets(h, target, c)
  BY DEF SetListed, ActivateUngrouped, States
<1>10. PICK c : Sets(h, target, c)
  BY <1>2
<1>3. /\ phase \in {"unconfigured", "inactive", "groups"}
      /\ phase' \in {phase, "dead"}
      /\ to_activate' = to_activate \ {h} /\ queue' \in SUBSET queue
      /\ UNCHANGED <<rw_vars, load_vars, group, activated, spoiled, closing, stopping, resisted>>
  BY DEF SetListed, ActivateUngrouped, GoesOn, RemoveToActivate, group_vars, close_vars
<1>4. /\ TypeOK' /\ ConfiguredIsOffered'
      /\ \A i \in Hardware : i /= h => hw_state'[i] = hw_state[i]
      /\ \A i \in Hardware : hw_state[i] = "finalized" => hw_state'[i] = "finalized"
  BY <1>1, <1>10, <1>3, SetKeeps
<1>5. Types'
  BY <1>1, <1>3 DEF Types, Phases, load_vars
<1>6. group = NoGroup
  BY <1>3 DEF GroupProgress, InGroup
<1>7. NotYetActive' /\ GroupProgress'
  BY <1>1, <1>3, <1>4, <1>6 DEF NotYetActive, GroupProgress, InGroup, Types
<1>8. ClosingIsStopping' /\ ShutDownIsFinal'
  BY <1>1, <1>3, <1>4, FinalIsKept DEF ClosingIsStopping, load_vars
<1>9. QED
  BY <1>4, <1>5, <1>7, <1>8, TypesAreTypes

\* The steps from one list to the next, into a group, to the services, and the request
\* to stop change no hardware.
LEMMA PlacesKeep ==
    ASSUME StartupInv,
           \/ NextList \/ init_services \/ PreShutdown
           \/ \E g \in Groups : StartGroup(g)
           \/ UNCHANGED svars
    PROVE  StartupInv'
<1> USE DEF StartupInv
<1>1. /\ TypeOK' /\ ConfiguredIsOffered' /\ UNCHANGED <<hw_state, load_vars, resisted>> /\ Types
      /\ UNCHANGED <<to_activate>>
  BY HardwareUnchanged, TypesAreTypes
     DEF NextList, init_services, PreShutdown, StartGroup, vars, svars, startup_vars, close_vars
<1>2. CASE NextList
  <2>1. /\ phase \in {"unconfigured", "inactive"} /\ phase' \in {"inactive", "groups"}
        /\ queue' \in SUBSET to_activate
        /\ UNCHANGED <<group, activated, spoiled, closing, stopping>>
    BY <1>2 DEF NextList, close_vars
  <2>2. group = NoGroup
    BY <2>1 DEF GroupProgress, InGroup
  <2>3. QED
    BY <1>1, <2>1, <2>2, TypesAreTypes, FinalIsKept
       DEF Types, Phases, load_vars, NotYetActive, GroupProgress, InGroup, ClosingIsStopping
<1>3. CASE init_services
  <2>1. /\ phase = "groups" /\ phase' = "running" /\ queue' = {}
        /\ UNCHANGED <<group, activated, spoiled, closing, stopping>>
    BY <1>3 DEF init_services, close_vars
  <2>2. group = NoGroup
    BY <2>1 DEF GroupProgress, InGroup
  <2>3. QED
    BY <1>1, <2>1, <2>2, TypesAreTypes, FinalIsKept
       DEF Types, Phases, load_vars, NotYetActive, GroupProgress, InGroup, ClosingIsStopping
<1>4. CASE PreShutdown
  <2>1. /\ stopping' = TRUE /\ closing' = loaded
        /\ UNCHANGED <<phase, queue, group, activated, spoiled>>
    BY <1>4 DEF PreShutdown, group_vars
  <2>2. Types'
    BY <1>1, <2>1 DEF Types, load_vars
  <2>3. NotYetActive' /\ ClosingIsStopping' /\ ShutDownIsFinal'
    BY <1>1, <2>1 DEF NotYetActive, ClosingIsStopping, ShutDownIsFinal, load_vars
  <2>4. GroupProgress'
    BY <1>1, <2>1 DEF GroupProgress, InGroup, Members
  <2>5. QED
    BY <1>1, <2>2, <2>3, <2>4, TypesAreTypes
<1>5. ASSUME NEW g \in Groups, StartGroup(g) PROVE StartupInv'
  <2>1. /\ phase = "groups" /\ phase' = "configuring" /\ group' = g
        /\ queue' = Members(g) /\ activated' = {} /\ spoiled' = FALSE
        /\ UNCHANGED <<closing, stopping>>
    BY <1>5 DEF StartGroup, close_vars
  <2>2. group = NoGroup /\ Members(g) \in SUBSET Hardware /\ Members(g)' = Members(g)
        /\ \A h \in Members(g) : h \in to_activate
    BY <1>1, <2>1, MembersAreHardware DEF GroupProgress, InGroup, Members
  <2>3. \A h \in to_activate : hw_state[h] /= "active"
    BY <2>2 DEF NotYetActive
  <2>4. Types' /\ NotYetActive'
    BY <1>1, <2>1, <2>2, <2>3 DEF Types, Phases, load_vars, NotYetActive
  <2>5. GroupProgress'
    BY <1>1, <2>1, <2>2, <2>3 DEF GroupProgress, InGroup
  <2>6. QED
    BY <1>1, <2>1, <2>4, <2>5, TypesAreTypes, FinalIsKept DEF ClosingIsStopping, load_vars
<1>6. CASE UNCHANGED svars
  <2>1. UNCHANGED <<phase, queue, group, activated, spoiled, closing, stopping>>
    BY <1>6 DEF svars, startup_vars, group_vars, close_vars
  <2>2. QED
    BY <1>1, <2>1, TypesAreTypes, FinalIsKept
       DEF Types, load_vars, NotYetActive, GroupProgress, InGroup, Members, ClosingIsStopping
<1>7. QED
  BY <1>2, <1>3, <1>4, <1>5, <1>6

\* What a member's transition leaves of the invariant, but for the group's progress.
LEMMA MemberKeeps ==
    ASSUME StartupInv, NEW h \in Hardware, NEW target \in States, NEW c, Sets(h, target, c),
           UNCHANGED <<rw_vars, load_vars, closing, stopping, resisted>>,
           phase \in {"configuring", "activating", "rollback"}, h \in queue,
           phase' \in Phases, spoiled' \in BOOLEAN,
           queue' \in SUBSET Hardware, activated' \in SUBSET Hardware,
           \/ UNCHANGED <<to_activate, group>> /\ phase' /= "waiting"
           \/ LeaveGroup /\ phase' \in {"groups", "dead"}
    PROVE  /\ StartupTypeOK' /\ ConfiguredIsOffered' /\ NotYetActive'
           /\ ClosingIsStopping' /\ ShutDownIsFinal'
           /\ hw_state'[h] = c.state
           /\ \A i \in Hardware : i /= h => hw_state'[i] = hw_state[i]
           /\ target /= "active" /\ hw_state[h] /= "active" => c.state /= "active"
           /\ group \in Groups /\ group /= NoGroup /\ h \in Members(group)
           /\ Members(group) \in SUBSET Hardware
           /\ UNCHANGED <<to_activate, group>> => Members(group)' = Members(group)
<1> USE DEF StartupInv
<1>1. TypeOK /\ Types
  BY TypesAreTypes
<1>2. /\ TypeOK' /\ ConfiguredIsOffered'
      /\ hw_state'[h] = c.state
      /\ \A i \in Hardware : i /= h => hw_state'[i] = hw_state[i]
      /\ target /= "active" /\ hw_state[h] /= "active" => c.state /= "active"
      /\ \A i \in Hardware : hw_state[i] = "finalized" => hw_state'[i] = "finalized"
  BY <1>1, SetKeeps
<1>3. group \in Groups /\ group /= NoGroup /\ h \in Members(group)
      /\ Members(group) \in SUBSET Hardware
  BY <1>1, MembersAreHardware, HardwareAssumption DEF GroupProgress, InGroup
<1>4. GroupOf[h] = group
  BY <1>1, <1>3, MembersAreHardware
<1>5. \/ to_activate' = to_activate /\ group' = group
      \/ group' = NoGroup /\ to_activate' = to_activate \ Members(group)
  BY DEF LeaveGroup
<1>6. Types'
  BY <1>1, <1>5 DEF Types, load_vars
<1>7. NotYetActive'
  <2>1. phase' /= "waiting"
    OBVIOUS
  <2>2. CASE to_activate' = to_activate /\ group' = group
    BY <1>1, <1>2, <1>3, <1>4, <2>1, <2>2 DEF NotYetActive, Types
  <2>3. CASE group' = NoGroup /\ to_activate' = to_activate \ Members(group)
    <3>1. \A i \in to_activate' : i \in to_activate /\ GroupOf[i] /= group /\ i /= h
      BY <1>1, <1>3, <2>3, MembersAreHardware
    <3>2. QED
      BY <1>1, <1>2, <2>1, <3>1 DEF NotYetActive, Types
  <2>4. QED
    BY <1>5, <2>2, <2>3
<1>8. ClosingIsStopping' /\ ShutDownIsFinal'
  BY <1>1, <1>2, FinalIsKept DEF ClosingIsStopping, load_vars
<1>9. UNCHANGED <<to_activate, group>> => Members(group)' = Members(group)
  BY DEF Members
<1>10. QED
  BY <1>2, <1>3, <1>6, <1>7, <1>8, <1>9, TypesAreTypes

\* A member is configured; or it fails, and the group is left.
LEMMA ConfigureKeepsInv ==
    ASSUME StartupInv, NEW h \in Hardware, ConfigureMember(h)
    PROVE  /\ StartupInv'
           /\ group' = NoGroup => \A i \in Members(group) : hw_state'[i] /= "active"
<1> USE DEF StartupInv
<1>1. PICK c \in set_component_state(component(h, hw_state[h]), "inactive") :
         /\ Sets(h, "inactive", c)
         /\ GoesOn(c, "inactive", IF queue = {h} THEN "activating" ELSE phase, "groups")
         /\ IF Succeeded(c, "inactive")
            THEN /\ queue' = IF queue = {h} THEN Members(group) ELSE queue \ {h}
                 /\ UNCHANGED <<group, activated, to_activate>>
            ELSE LeaveGroup
  BY DEF ConfigureMember
<1>2. /\ phase = "configuring" /\ h \in queue /\ "inactive" \in States
      /\ UNCHANGED <<rw_vars, load_vars, spoiled, closing, stopping, resisted>>
  BY DEF ConfigureMember, close_vars, States
<1>3. Types /\ activated = {} /\ queue \subseteq Members(group) /\ Members(group) \in SUBSET Hardware
      /\ \A i \in Members(group) : hw_state[i] /= "active"
  BY <1>2, TypesAreTypes, MembersAreHardware DEF GroupProgress, InGroup
<1>4. CASE Succeeded(c, "inactive")
  <2>1. /\ phase' \in {"configuring", "activating"}
        /\ phase' = "activating" => queue' = Members(group)
        /\ queue' \in SUBSET Members(group)
        /\ UNCHANGED <<group, activated, to_activate>>
    BY <1>1, <1>2, <1>3, <1>4 DEF GoesOn
  <2>2. /\ StartupTypeOK' /\ ConfiguredIsOffered' /\ NotYetActive'
        /\ ClosingIsStopping' /\ ShutDownIsFinal'
        /\ hw_state'[h] = c.state
        /\ \A i \in Hardware : i /= h => hw_state'[i] = hw_state[i]
        /\ group \in Groups /\ group /= NoGroup /\ Members(group)' = Members(group)
        /\ h \in Members(group)
    BY <1>1, <1>2, <1>3, <2>1, MemberKeeps DEF Types, Phases
  <2>3. \A i \in Members(group) : hw_state'[i] /= "active"
    BY <1>3, <1>4, <2>2 DEF Succeeded
  <2>4. GroupProgress'
    BY <1>3, <2>1, <2>2, <2>3 DEF GroupProgress, InGroup
  <2>5. QED
    BY <2>1, <2>2, <2>4
<1>5. CASE ~Succeeded(c, "inactive")
  <2>1. phase' \in {"groups", "dead"} /\ LeaveGroup /\ group' = NoGroup
    BY <1>1, <1>5 DEF GoesOn, LeaveGroup
  <2>2. /\ StartupTypeOK' /\ ConfiguredIsOffered' /\ NotYetActive'
        /\ ClosingIsStopping' /\ ShutDownIsFinal'
        /\ hw_state'[h] = c.state
        /\ \A i \in Hardware : i /= h => hw_state'[i] = hw_state[i]
        /\ hw_state[h] /= "active" => c.state /= "active"
    BY <1>1, <1>2, <1>3, <2>1, MemberKeeps DEF Types, Phases, LeaveGroup
  <2>3. GroupProgress'
    BY <2>1 DEF GroupProgress, InGroup
  <2>4. QED
    BY <1>2, <1>3, <2>2, <2>3
<1>6. QED
  BY <1>4, <1>5

\* A member is activated; or it fails, and those before it are rolled back.
LEMMA ActivateKeepsInv ==
    ASSUME StartupInv, NEW h \in Hardware, ActivateMember(h)
    PROVE  /\ StartupInv'
           /\ group' = NoGroup /\ ~spoiled /\ ~stopping =>
                 \/ \A i \in Members(group) : hw_state'[i] /= "active"
                 \/ \A i \in Members(group) : hw_state'[i] = "active"
<1> USE DEF StartupInv
<1>1. PICK c \in set_component_state(component(h, hw_state[h]), "active") :
         /\ Sets(h, "active", c)
         /\ IF ~Succeeded(c, "active") THEN StartRollback
            ELSE IF queue = {h} THEN phase' = "groups" /\ LeaveGroup
            ELSE /\ queue' = queue \ {h} /\ activated' = activated \cup {h}
                 /\ UNCHANGED <<phase, group, to_activate>>
  BY DEF ActivateMember
<1>2. /\ phase = "activating" /\ h \in queue /\ "active" \in States
      /\ UNCHANGED <<rw_vars, load_vars, spoiled, closing, stopping, resisted>>
  BY DEF ActivateMember, close_vars, States
<1>3. /\ Types /\ activated = Members(group) \ queue /\ queue \subseteq Members(group)
      /\ Members(group) \in SUBSET Hardware
      /\ \A i \in queue : hw_state[i] /= "active"
      /\ ~spoiled /\ ~stopping => \A i \in activated : hw_state[i] = "active"
  BY <1>2, TypesAreTypes, MembersAreHardware DEF GroupProgress, InGroup
<1> DEFINE Outcome ==
              /\ StartupTypeOK' /\ ConfiguredIsOffered' /\ NotYetActive'
              /\ ClosingIsStopping' /\ ShutDownIsFinal'
              /\ hw_state'[h] = c.state
              /\ \A i \in Hardware : i /= h => hw_state'[i] = hw_state[i]
              /\ group \in Groups /\ group /= NoGroup /\ h \in Members(group)
              /\ UNCHANGED <<to_activate, group>> => Members(group)' = Members(group)
<1>4. CASE Succeeded(c, "active") /\ queue /= {h}
  <2>1. queue' = queue \ {h} /\ activated' = activated \cup {h} /\ UNCHANGED <<phase, group, to_activate>>
    BY <1>1, <1>4
  <2>2. Outcome
    <3>1. queue' \in SUBSET Hardware /\ activated' \in SUBSET Hardware /\ phase' \in Phases
          /\ spoiled' \in BOOLEAN
      BY <1>2, <1>3, <2>1 DEF Types
    <3>2. QED
      BY <1>1, <1>2, <2>1, <3>1, MemberKeeps
  <2>3. activated' = Members(group) \ queue' /\ hw_state'[h] = "active"
    BY <1>2, <1>3, <1>4, <2>1, <2>2 DEF Succeeded
  <2>4. GroupProgress'
    BY <1>2, <1>3, <2>1, <2>2, <2>3 DEF GroupProgress, InGroup
  <2>5. QED
    BY <2>1, <2>2, <2>4
<1>5. CASE Succeeded(c, "active") /\ queue = {h}
  <2>1. phase' = "groups" /\ LeaveGroup /\ group' = NoGroup /\ queue' = {} /\ activated' = {}
    BY <1>1, <1>5 DEF LeaveGroup
  <2>2. Outcome
    BY <1>1, <1>2, <1>3, <2>1, MemberKeeps DEF Types, Phases
  <2>3. GroupProgress'
    BY <2>1 DEF GroupProgress, InGroup
  <2>4. ~spoiled /\ ~stopping => \A i \in Members(group) : hw_state'[i] = "active"
    BY <1>3, <1>5, <2>2 DEF Succeeded
  <2>5. QED
    BY <2>2, <2>3, <2>4
<1>6. CASE ~Succeeded(c, "active") /\ ~settings.shutdown_on_failure /\ activated /= {}
  <2>1. phase' = "rollback" /\ queue' = activated /\ UNCHANGED <<group, activated, to_activate>>
    BY <1>1, <1>6 DEF StartRollback
  <2>2. Outcome
    <3>1. queue' \in SUBSET Hardware /\ activated' \in SUBSET Hardware /\ phase' \in Phases
          /\ spoiled' \in BOOLEAN
      BY <1>2, <1>3, <2>1 DEF Types, Phases
    <3>2. QED
      BY <1>1, <1>2, <2>1, <3>1, MemberKeeps
  <2>3. c.state /= "active"
    BY <1>6 DEF Succeeded
  <2>4. \A i \in Members(group) \ queue' : hw_state'[i] /= "active"
    BY <1>3, <2>1, <2>2, <2>3
  <2>5. GroupProgress'
    BY <1>3, <2>1, <2>2, <2>4 DEF GroupProgress, InGroup
  <2>6. QED
    BY <2>1, <2>2, <2>5
<1>7. CASE ~Succeeded(c, "active") /\ ~settings.shutdown_on_failure /\ activated = {}
  <2>1. phase' = "groups" /\ LeaveGroup /\ group' = NoGroup /\ queue' = {} /\ activated' = {}
    BY <1>1, <1>7 DEF StartRollback, LeaveGroup
  <2>2. Outcome
    BY <1>1, <1>2, <1>3, <2>1, MemberKeeps DEF Types, Phases
  <2>3. GroupProgress'
    BY <2>1 DEF GroupProgress, InGroup
  <2>4. \A i \in Members(group) : hw_state'[i] /= "active"
    BY <1>3, <1>7, <2>2 DEF Succeeded
  <2>5. QED
    BY <2>2, <2>3, <2>4
<1>8. CASE ~Succeeded(c, "active") /\ settings.shutdown_on_failure
  <2>1. phase' = "dead" /\ UNCHANGED <<queue, group, activated, to_activate>>
    BY <1>1, <1>8 DEF StartRollback, group_vars
  <2>2. Outcome
    <3>1. queue' \in SUBSET Hardware /\ activated' \in SUBSET Hardware /\ phase' \in Phases
          /\ spoiled' \in BOOLEAN
      BY <1>2, <1>3, <2>1 DEF Types, Phases
    <3>2. QED
      BY <1>1, <1>2, <2>1, <3>1, MemberKeeps
  <2>3. GroupProgress'
    BY <2>1 DEF GroupProgress, InGroup
  <2>4. QED
    BY <2>1, <2>2, <2>3
<1>9. QED
  BY <1>4, <1>5, <1>6, <1>7, <1>8

\* A member is rolled back, or is not, which is noted.
LEMMA RollBackKeepsInv ==
    ASSUME StartupInv, NEW h \in Hardware, RollBack(h)
    PROVE  /\ StartupInv'
           /\ group' = NoGroup /\ ~spoiled' => \A i \in Members(group) : hw_state'[i] /= "active"
<1> USE DEF StartupInv
<1>1. PICK c \in set_component_state(component(h, hw_state[h]), "inactive") :
         /\ Sets(h, "inactive", c)
         /\ spoiled' = (spoiled \/ ~Succeeded(c, "inactive"))
  BY DEF RollBack
<1>2. /\ phase = "rollback" /\ h \in queue /\ "inactive" \in States
      /\ UNCHANGED <<rw_vars, load_vars, closing, stopping, resisted>>
  BY DEF RollBack, close_vars, States
<1>3. /\ Types /\ queue \subseteq Members(group) /\ Members(group) \in SUBSET Hardware
      /\ ~spoiled => \A i \in Members(group) \ queue : hw_state[i] /= "active"
  BY <1>2, TypesAreTypes, MembersAreHardware DEF GroupProgress, InGroup
<1>4. spoiled' \in BOOLEAN /\ (~spoiled' => ~spoiled /\ c.state /= "active")
  BY <1>1 DEF Succeeded
<1>5. CASE queue = {h}
  <2>1. phase' = "groups" /\ LeaveGroup /\ group' = NoGroup /\ queue' = {} /\ activated' = {}
    BY <1>5 DEF RollBack, LeaveGroup
  <2>2. /\ StartupTypeOK' /\ ConfiguredIsOffered' /\ NotYetActive'
        /\ ClosingIsStopping' /\ ShutDownIsFinal'
        /\ hw_state'[h] = c.state
        /\ \A i \in Hardware : i /= h => hw_state'[i] = hw_state[i]
    BY <1>1, <1>2, <1>4, <2>1, MemberKeeps DEF Phases
  <2>3. GroupProgress'
    BY <2>1 DEF GroupProgress, InGroup
  <2>4. QED
    BY <1>3, <1>4, <1>5, <2>2, <2>3
<1>6. CASE queue /= {h}
  <2>1. queue' = queue \ {h} /\ UNCHANGED <<phase, group, activated, to_activate>>
    BY <1>6 DEF RollBack
  <2>2. /\ StartupTypeOK' /\ ConfiguredIsOffered' /\ NotYetActive'
        /\ ClosingIsStopping' /\ ShutDownIsFinal'
        /\ hw_state'[h] = c.state
        /\ \A i \in Hardware : i /= h => hw_state'[i] = hw_state[i]
        /\ group \in Groups /\ group /= NoGroup /\ Members(group)' = Members(group)
    <3>1. queue' \in SUBSET Hardware /\ activated' \in SUBSET Hardware /\ phase' \in Phases
      BY <1>2, <1>3, <2>1 DEF Types
    <3>2. QED
      BY <1>1, <1>2, <1>4, <2>1, <3>1, MemberKeeps
  <2>3. ~spoiled' => \A i \in Members(group) \ queue' : hw_state'[i] /= "active"
    BY <1>3, <1>4, <2>1, <2>2
  <2>4. GroupProgress'
    BY <1>2, <1>3, <2>1, <2>2, <2>3 DEF GroupProgress, InGroup
  <2>5. QED
    BY <2>1, <2>2, <2>4
<1>7. QED
  BY <1>5, <1>6

\* A component is shut down, which activates nothing.
LEMMA ShutdownKeepsInv ==
    ASSUME StartupInv, NEW h \in Hardware, ShutdownComponent(h)
    PROVE  StartupInv'
<1> USE DEF StartupInv
<1>1. PICK c \in set_component_state(component(h, hw_state[h]), "finalized") :
         /\ Sets(h, "finalized", c)
         /\ resisted' = IF Succeeded(c, "finalized") THEN resisted ELSE resisted \cup {h}
  BY DEF ShutdownComponent
<1>2. /\ h \in closing /\ closing' = closing \ {h} /\ "finalized" \in States
      /\ UNCHANGED <<rw_vars, phase, load_vars, to_activate, queue, group, activated, spoiled, stopping>>
  BY DEF ShutdownComponent, group_vars, States
<1>3. TypeOK /\ Types
  BY TypesAreTypes
<1>4. /\ TypeOK' /\ ConfiguredIsOffered'
      /\ hw_state'[h] = c.state
      /\ \A i \in Hardware : i /= h => hw_state'[i] = hw_state[i]
      /\ hw_state[h] /= "active" => c.state /= "active"
      /\ \A i \in Hardware : hw_state[i] = "finalized" => hw_state'[i] = "finalized"
  BY <1>1, <1>2, <1>3, SetKeeps
<1>5. \A i \in Hardware : hw_state[i] /= "active" => hw_state'[i] /= "active"
  BY <1>4
<1>6. Types'
  BY <1>1, <1>2, <1>3 DEF Types, load_vars
<1>7. stopping
  BY <1>2 DEF ClosingIsStopping
<1>8. NotYetActive' /\ ClosingIsStopping'
  BY <1>2, <1>3, <1>5, <1>7 DEF NotYetActive, ClosingIsStopping, Types
<1>9. GroupProgress'
  <2>1. Members(group)' = Members(group) /\ Members(group) \in SUBSET Hardware
    BY <1>2, <1>3, MembersAreHardware DEF Members
  <2>2. QED
    BY <1>2, <1>3, <1>5, <1>7, <2>1 DEF GroupProgress, InGroup, Types
<1>10. ShutDownIsFinal'
  <2>1. ASSUME NEW i \in loaded' \ closing', stopping', GroupOf[i] = NoGroup, i \notin resisted'
        PROVE  hw_state'[i] = "finalized"
    <3>1. i \in Hardware /\ i \in loaded /\ i \notin resisted
      BY <1>1, <1>2, <1>3, <2>1 DEF Types, load_vars
    <3>2. CASE i = h
      BY <1>1, <1>4, <2>1, <3>2 DEF Succeeded
    <3>3. CASE i /= h
      BY <1>2, <1>4, <1>7, <2>1, <3>1, <3>3 DEF ShutDownIsFinal
    <3>4. QED
      BY <3>2, <3>3
  <2>2. QED
    BY <2>1 DEF ShutDownIsFinal
<1>11. QED
  BY <1>4, <1>6, <1>8, <1>9, <1>10, TypesAreTypes

\* A cycle of the loop, which activates nothing and notes what it does to the group.
LEMMA LoopKeepsInv ==
    ASSUME StartupInv, LoopStep
    PROVE  StartupInv'
<1> USE DEF StartupInv
<1>1. PICK op \in {"read", "write"} : \E s \in Cycle(op) :
         hw_state' = s.hw /\ available' = s.offered /\ group_state' = s.groups
  BY DEF LoopStep
<1>2. PICK s \in Cycle(op) :
         hw_state' = s.hw /\ available' = s.offered /\ group_state' = s.groups
  BY <1>1
<1>3. /\ spoiled' = (spoiled \/ \E h \in Hardware : GroupOf[h] = group /\ hw_state'[h] /= hw_state[h])
      /\ UNCHANGED <<rw_vars, phase, load_vars, to_activate, queue, group, activated, closing,
                     stopping, resisted>>
  BY DEF LoopStep, group_vars, close_vars
<1>4. TypeOK /\ Types
  BY TypesAreTypes
<1>5. Reachable(s)
  BY <1>4, CycleIsReachable
<1>6. TypeOK' /\ ConfiguredIsOffered'
  BY <1>2, <1>3, <1>4, <1>5 DEF Reachable, TypeOK, ConfiguredIsOffered, rw_vars
<1>7. /\ \A h \in Hardware : hw_state[h] /= "active" => hw_state'[h] /= "active"
      /\ \A h \in Hardware : GroupOf[h] = NoGroup /\ hw_state[h] = "finalized"
                               => hw_state'[h] = "finalized"
  BY <1>2, <1>5 DEF Reachable
<1>8. spoiled' \in BOOLEAN /\ (~spoiled' => ~spoiled)
      /\ (~spoiled' => \A h \in Hardware : GroupOf[h] = group => hw_state'[h] = hw_state[h])
  BY <1>3
<1>9. Types'
  BY <1>3, <1>4, <1>8 DEF Types, load_vars
<1>10. NotYetActive' /\ ClosingIsStopping' /\ ShutDownIsFinal'
  BY <1>3, <1>4, <1>7, FinalIsKept DEF NotYetActive, ClosingIsStopping, Types, load_vars
<1>11. GroupProgress'
  <2>1. Members(group)' = Members(group) /\ Members(group) \in SUBSET Hardware
        /\ \A h \in Members(group) : GroupOf[h] = group
    BY <1>3, <1>4, MembersAreHardware DEF Members
  <2>2. phase = "activating" => activated \subseteq Members(group)
    BY DEF GroupProgress
  <2>3. QED
    BY <1>3, <1>4, <1>7, <1>8, <2>1, <2>2 DEF GroupProgress, InGroup, Types
<1>12. QED
  BY <1>6, <1>9, <1>10, <1>11, TypesAreTypes

\* One step per action.
LEMMA NextStartupInv == StartupInv /\ [StartupNext]_svars => StartupInv'
<1> SUFFICES ASSUME StartupInv, [StartupNext]_svars PROVE StartupInv'
  OBVIOUS
<1>1. CASE robot_description_callback \/ IgnoreDescription
  BY <1>1, LoadingKeeps
<1>2. CASE \/ NextList \/ init_services \/ PreShutdown
           \/ \E g \in Groups : StartGroup(g)
           \/ UNCHANGED svars
  BY <1>2, PlacesKeep
<1>3. ASSUME NEW h \in Hardware, SetListed(h) \/ ActivateUngrouped(h) PROVE StartupInv'
  BY <1>3, ListedKeeps
<1>4. ASSUME NEW h \in Hardware, ConfigureMember(h) PROVE StartupInv'
  BY <1>4, ConfigureKeepsInv
<1>5. ASSUME NEW h \in Hardware, ActivateMember(h) PROVE StartupInv'
  BY <1>5, ActivateKeepsInv
<1>6. ASSUME NEW h \in Hardware, RollBack(h) PROVE StartupInv'
  BY <1>6, RollBackKeepsInv
<1>7. ASSUME NEW h \in Hardware, ShutdownComponent(h) PROVE StartupInv'
  BY <1>7, ShutdownKeepsInv
<1>8. CASE LoopStep
  BY <1>8, LoopKeepsInv
<1>9. QED
  BY <1>1, <1>2, <1>3, <1>4, <1>5, <1>6, <1>7, <1>8 DEF StartupNext, StartupSteps

LEMMA StartupInvariant == StartupSpec => []StartupInv
  BY InitStartupInv, NextStartupInv, PTL DEF StartupSpec

-----------------------------------------------------------------------------
\* The variables of the start-up, and of the hardware in it, stay in their types.
THEOREM StartupTypes == StartupSpec => []StartupTypeOK
<1>1. StartupInv => StartupTypeOK
  BY DEF StartupInv
<1>2. QED
  BY <1>1, StartupInvariant, PTL

\* The interfaces of hardware in operation can be claimed throughout start-up and
\* shutdown too, with cycles of the loop in between.
THEOREM OfferedInStartup == StartupSpec => []ConfiguredIsOffered
<1>1. StartupInv => ConfiguredIsOffered
  BY DEF StartupInv
<1>2. QED
  BY <1>1, StartupInvariant, PTL

\* What was shut down stays so: neither the start-up, when the request to stop has come
\* in the middle of it, nor the loop, by any sequence of results of the drivers, takes a
\* component on its own out of "finalized".
THEOREM ShutDownStaysFinal == StartupSpec => []ShutDownIsFinal
<1>1. StartupInv => ShutDownIsFinal
  BY DEF StartupInv
<1>2. QED
  BY <1>1, StartupInvariant, PTL

\* A group of any size comes up as a whole or not at all, with all the interleavings
\* of the loop and the shutdown with its transitions.
THEOREM GroupsComeUpWhole == StartupSpec => GroupComesUpWhole
<1> DEFINE Step == group /= NoGroup /\ group' = NoGroup /\ ~spoiled' /\ ~stopping =>
              {h \in Members(group) : hw_state'[h] = "active"} \in {{}, Members(group)}
<1>1. ASSUME StartupInv, StartupNext PROVE Step
  <2>1. SUFFICES ASSUME group /= NoGroup, group' = NoGroup, ~spoiled', ~stopping
                 PROVE  \/ \A i \in Members(group) : hw_state'[i] /= "active"
                        \/ \A i \in Members(group) : hw_state'[i] = "active"
    OBVIOUS
  <2>2. ASSUME NEW h \in Hardware, ConfigureMember(h)
        PROVE  \A i \in Members(group) : hw_state'[i] /= "active"
    BY <1>1, <2>1, <2>2, ConfigureKeepsInv
  <2>3. ASSUME NEW h \in Hardware, ActivateMember(h)
        PROVE  \/ \A i \in Members(group) : hw_state'[i] /= "active"
               \/ \A i \in Members(group) : hw_state'[i] = "active"
    <3>1. spoiled' = spoiled
      BY <2>3 DEF ActivateMember
    <3>2. QED
      BY <1>1, <2>1, <2>3, <3>1, ActivateKeepsInv
  <2>4. ASSUME NEW h \in Hardware, RollBack(h)
        PROVE  \A i \in Members(group) : hw_state'[i] /= "active"
    BY <1>1, <2>1, <2>4, RollBackKeepsInv
  <2>5. ASSUME NEW g \in Groups, StartGroup(g) PROVE FALSE
    BY <2>1, <2>5, HardwareAssumption DEF StartGroup
  <2>6. CASE \/ robot_description_callback \/ IgnoreDescription \/ NextList \/ init_services
             \/ PreShutdown \/ LoopStep
             \/ \E h \in Hardware : SetListed(h) \/ ActivateUngrouped(h) \/ ShutdownComponent(h)
    <3>1. group' = group
      BY <2>6 DEF robot_description_callback, IgnoreDescription, NextList, init_services,
                  PreShutdown, LoopStep, SetListed, ActivateUngrouped, ShutdownComponent, group_vars
    <3>2. QED
      BY <2>1, <3>1
  <2>7. QED
    BY <1>1, <2>2, <2>3, <2>4, <2>5, <2>6 DEF StartupNext, StartupSteps
<1>2. StartupInv /\ [StartupNext]_svars => [Step]_svars
  BY <1>1
<1> HIDE DEF Step
<1>3. StartupSpec => [][Step]_svars
  BY <1>2, StartupInvariant, PTL DEF StartupSpec
<1>4. QED
  BY <1>3, PTL DEF GroupComesUpWhole, Step

\* When exceptions of the drivers are caught, as they are by default, the services start
\* only with all of the hardware: a description that can be loaded in part leaves nothing.
THEOREM ServicesStartWithAllHardware ==
    ASSUME HandleExceptions
    PROVE  StartupSpec => []ServicesHaveAllHardware
<1>1. StartupInit => ServicesHaveAllHardware
  BY DEF StartupInit, ServicesHaveAllHardware
<1>2. ServicesHaveAllHardware /\ [StartupNext]_svars => ServicesHaveAllHardware'
  <2> SUFFICES ASSUME ServicesHaveAllHardware, [StartupNext]_svars
               PROVE  ServicesHaveAllHardware'
    OBVIOUS
  <2>1. CASE robot_description_callback
    <3>1. PICK outcome \in [Hardware -> Outcomes] : init_resource_manager(outcome)
      BY <2>1 DEF robot_description_callback
    <3>2. \A h \in Hardware : outcome[h] /= "throws"
      BY <3>1 DEF Outcomes, Throwing, load_hardware, initialize_hardware, import_interfaces
    <3>3. \/ loaded' = Hardware /\ valid'
          \/ loaded' = {}
      BY <3>1, <3>2 DEF init_resource_manager, LoadThrows
    <3>4. CASE loaded' = {}
      BY <2>1, <3>4 DEF robot_description_callback, ServicesHaveAllHardware
    <3>5. QED
      BY <3>3, <3>4 DEF ServicesHaveAllHardware
  <2>2. CASE ~robot_description_callback /\ StartupNext
    <3>1. \/ UNCHANGED <<loaded, valid>> /\ phase \notin {"waiting", "dead"}
          \/ UNCHANGED <<loaded, valid, phase>>
      BY <2>2 DEF StartupNext, StartupSteps, IgnoreDescription, NextList, init_services,
                  PreShutdown, LoopStep, SetListed, ActivateUngrouped, ShutdownComponent,
                  StartGroup, ConfigureMember, ActivateMember, RollBack, load_vars
    <3>2. QED
      BY <3>1 DEF ServicesHaveAllHardware
  <2>3. CASE UNCHANGED svars
    BY <2>3 DEF svars, startup_vars, load_vars, ServicesHaveAllHardware
  <2>4. QED
    BY <2>1, <2>2, <2>3
<1>3. QED
  BY <1>1, <1>2, PTL DEF StartupSpec
=============================================================================
