-------------------------- MODULE MCSwitchHandshake --------------------------
(***************************************************************************)
(* The instances of SwitchHandshake for TLC differ in one constant only.   *)
(***************************************************************************)
EXTENDS SwitchHandshake
=============================================================================
