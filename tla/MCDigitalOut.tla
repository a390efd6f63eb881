---------------------------- MODULE MCDigitalOut ---------------------------
(***************************************************************************)
(* Instances of DigitalOut for TLC.                                        *)
(***************************************************************************)
EXTENDS DigitalOut
=============================================================================
