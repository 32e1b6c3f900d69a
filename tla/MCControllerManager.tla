------------------------- MODULE MCControllerManager -------------------------
(***************************************************************************)
(* Instances of ControllerManager for TLC: a chainable controller on the   *)
(* hardware, "base", and two controllers for its interfaces.               *)
(***************************************************************************)
EXTENDS ControllerManager

MCControllers == {"base", "nav", "tele"}
MCHardware == {"arm"}
MCInterfaces == {"joint", "position", "velocity_ref", "odometry"}
MCCommandInterfaces == {"joint", "velocity_ref"}
MCExporter == [i \in MCInterfaces |-> IF i \in {"joint", "position"} THEN "arm" ELSE "base"]

\* "nav" and "tele" both command "base"; "tele" also reads its odometry.
ChainUses == [base |-> <<"joint", "position">>, nav |-> <<"velocity_ref">>,
              tele |-> <<"velocity_ref", "odometry">>]
NoFallbacks == [c \in MCControllers |-> <<>>]

\* "nav" commands "base", and "tele", their fallback, the hardware itself.
FallbackUses == [base |-> <<"joint">>, nav |-> <<"velocity_ref", "odometry">>, tele |-> <<"joint">>]
TeleFallback == [base |-> <<>>, nav |-> <<"tele">>, tele |-> <<>>]

\* A chain of three: "nav" commands "mid", which commands "base" and reads its odometry.
LongControllers == {"base", "mid", "nav"}
LongInterfaces == {"joint", "velocity_ref", "pose_ref", "odometry"}
LongCommandInterfaces == {"joint", "velocity_ref", "pose_ref"}
LongExporter == [joint |-> "arm", velocity_ref |-> "base", pose_ref |-> "mid", odometry |-> "base"]
LongUses == [base |-> <<"joint">>, mid |-> <<"velocity_ref", "odometry">>, nav |-> <<"pose_ref">>]
LongNoFallbacks == [c \in LongControllers |-> <<>>]
LongSortedList == <<"nav", "mid", "base">>

MCSortedList == <<"nav", "tele", "base">>
=============================================================================
