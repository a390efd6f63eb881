------------------------------ MODULE MCStepper ----------------------------
(***************************************************************************)
(* Instances of Stepper for TLC.                                           *)
(***************************************************************************)
EXTENDS Stepper

CONSTANT step

MCTimers == {step}
(* One step below the minimum interval; two that accelerate to below it.   *)
MCRequests == {<<1, 1, 0>>, <<3, 2, -2>>}
=============================================================================
