-------------------------------- MODULE MCAsync --------------------------------
(* An asynchronous controller, or an asynchronous hardware component: two    *)
(* systems that share no state, of which the initial state picks one.        *)
EXTENDS AsyncController

CONSTANT IsSensor       \* the component is a sensor
VARIABLES part, read_info, write_info, mutex, loaded

Hardware == INSTANCE AsyncHardware

controller_vars == <<thread, returned, skip, service, request, do_switch>>
hardware_vars == <<read_info, write_info, mutex, loaded>>

MCInit ==
    \/ /\ part = "controller"
       /\ Init
       /\ read_info = "OK" /\ write_info = "OK" /\ mutex = Hardware!Free /\ loaded = "OK"
    \/ /\ part = "hardware"
       /\ Hardware!Init
       /\ thread = FALSE /\ returned = "OK" /\ skip = FALSE
       /\ service = "idle" /\ request = "none" /\ do_switch = FALSE

MCNext ==
    \/ part = "controller" /\ Next /\ UNCHANGED <<part, hardware_vars>>
    \/ part = "hardware" /\ Hardware!Next /\ UNCHANGED <<part, controller_vars>>

MCSpec ==
    /\ MCInit
    /\ [][MCNext]_<<vars, hardware_vars, part>>
    /\ part = "controller" => Fairness
    /\ part = "hardware" => Hardware!Fairness

\* The types of both.
AsyncTypeOK == IF part = "controller" THEN TypeOK ELSE Hardware!TypeOK

\* No update runs in a controller that is unconfigured or finalized.
ControllerIsIdle == part = "controller" => StoppedIsIdle

\* The driver of the component is called by one thread at a time.
DriverHasOneCaller == part = "hardware" => Hardware!OneCaller

\* What stops a controller, or a component, has failed since its activation.
StoppedByFreshFailures ==
    IF part = "controller" THEN FailuresAreFresh ELSE Hardware!FailuresAreFresh

\* What fails for good is stopped by the loop.
FailingAreStopped ==
    /\ part = "controller" => FailingIsStopped
    /\ part = "hardware" => Hardware!FailingIsStopped
=============================================================================
