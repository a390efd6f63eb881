---------------------------- MODULE MCFifoBuffer ---------------------------
(***************************************************************************)
(* Instances of FifoBuffer for TLC.                                        *)
(***************************************************************************)
EXTENDS FifoBuffer
=============================================================================
