------------------------------ MODULE MCHoming -----------------------------
(***************************************************************************)
(* Instances of Homing for TLC.                                            *)
(***************************************************************************)
EXTENDS Homing
=============================================================================
