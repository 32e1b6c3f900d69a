------------------------- MODULE MCRTControllerList -------------------------
(* RTControllerList with two controllers, for TLC. *)
EXTENDS RTControllerList

=============================================================================
