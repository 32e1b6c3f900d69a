------------------------------- MODULE MCStartup -------------------------------
(* Startup with a group of two components, and two components on their own. *)
EXTENDS Startup

MCHardware == {"arm", "hand", "camera"}
MCSensors == {"camera"}
MCOrder == <<"arm", "camera", "hand">>
MCGroupOf == [h \in MCHardware |-> IF h = "camera" THEN "none" ELSE "robot"]

\* All are to be active, or the camera is only configured; a failure ends the process,
\* or does not.
AllActive == [h \in MCHardware |-> "active"]
CameraInactive == [AllActive EXCEPT !["camera"] = "inactive"]

MCSettings ==
    [initial : {AllActive}, shutdown_on_failure : {FALSE}]
    \cup [initial : {CameraInactive}, shutdown_on_failure : BOOLEAN]

FairStartup == StartupSpec /\ StartupFairness
=============================================================================
