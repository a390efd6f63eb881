---------------------------- MODULE MCScheduler ----------------------------
(***************************************************************************)
(* Instances of Scheduler for TLC.  The clock has 2 * HalfRange values and *)
(* wraps many times over in every behaviour.                               *)
(***************************************************************************)
EXTENDS Scheduler, TLC

(* Any renaming of the timers a shutdown does not stop is a symmetry.      *)
TimerSymmetry == Permutations(Timers \ Stoppable)

(* The conditional corrections of TimerList are the modular arithmetic of  *)
(* the machine.                                                            *)
ASSUME ClockArithmetic ==
  \A a, b \in Ticks :
    /\ ClockAdd(a, b) = (a + b) % ClockRange
    /\ ClockSub(a, b) = (a - b) % ClockRange
=============================================================================
