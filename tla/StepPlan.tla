------------------------------ MODULE StepPlan -----------------------------
(***************************************************************************)
(* What a stepper promises: it keeps the moves it accepted, makes their    *)
(* steps one at a time, oldest move first and each in its direction, and   *)
(* accepts one only while fewer than Capacity wait behind that in progress.*)
(***************************************************************************)
EXTENDS Integers, Sequences

CONSTANTS
  Counts,     \* steps a move can have
  Capacity

VARIABLES
  plan,       \* moves not finished, with the steps they still have
  axis        \* where the motor is

vars == <<plan, axis>>

Directions == {0, 1}
Moved(dir) == IF dir = 0 THEN 1 ELSE -1

Init == plan = <<>> /\ axis = 0

Accept(dir, count) ==
  /\ Len(plan) <= Capacity
  /\ plan' = Append(plan, [dir |-> dir, left |-> count])
  /\ UNCHANGED axis

StepOnce ==
  /\ plan # <<>>
  /\ axis' = axis + Moved(Head(plan).dir)
  /\ plan' = IF Head(plan).left = 1 THEN Tail(plan)
             ELSE [plan EXCEPT ![1].left = @ - 1]

(* A trigger gives up what is left.                                        *)
Cancel == plan' = <<>> /\ UNCHANGED axis

Next ==
  \/ \E dir \in Directions, count \in Counts : Accept(dir, count)
  \/ StepOnce \/ Cancel

Spec == Init /\ [][Next]_vars
=============================================================================
