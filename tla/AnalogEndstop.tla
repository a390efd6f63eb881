---------------------------- MODULE AnalogEndstop --------------------------
(***************************************************************************)
(* core/endstop_analog.go: an endstop that looks at the last sum of an     *)
(* analog input (pendingValue of AnalogIn), not at the converter: looks    *)
(* between two sums see the same reading.  ESF_HOMING is set and cleared   *)
(* with the trsync, so sync stands for both.                               *)
(***************************************************************************)
EXTENDS Dispatch

CONSTANTS
  EndTimer,        \* aes.Timer
  EndSampleCount, EndSampleTicks, EndRestTicks,
  TriggerAbove, Threshold, Hysteresis,
  WordRange        \* unsigned numbers wrap here, 2^32 in the code

VARIABLES
  pendingValue,    \* aes.ADC.PendingValue
  sync,            \* aes.TriggerSync # nil
  oversampling,    \* the handler is analogEndstopOversampleEvent
  triggerCount,    \* aes.TriggerCount
  nextLook,        \* aes.NextWake while oversampling, zero otherwise
  triggered,       \* history: TriggerSyncDoTrigger called since the homing began
  hits             \* history: looks in a row that matched

endstopVars == <<sync, oversampling, triggerCount, nextLook, triggered, hits>>

Crosses(v) == IF TriggerAbove THEN v > Threshold ELSE v < Threshold

(* The hysteresis is taken off, or added, without regard to overflow.      *)
Holds(v) ==
  IF TriggerAbove THEN v > (Threshold - Hysteresis) % WordRange
                  ELSE v < (Threshold + Hysteresis) % WordRange

(* analog_endstop_home                                                     *)
Home(w) ==
  /\ triggerCount' = EndSampleCount /\ nextLook' = 0
  /\ sync' = TRUE /\ oversampling' = FALSE /\ triggered' = FALSE /\ hits' = 0
  /\ Insert(Cut(list, {EndTimer}), [wake EXCEPT ![EndTimer] = w], EndTimer)
  /\ UNCHANGED <<now, dispatching>>

(* analog_endstop_home with a sample count of zero: the timer samples on.  *)
HomeEnd ==
  /\ sync' = FALSE
  /\ list' = Cut(list, {EndTimer})
  /\ UNCHANGED <<wake, now, dispatching, hung, oversampling, triggerCount,
                 nextLook, triggered, hits>>

(* No such trsync: the timer has been "cancelled" by then.                 *)
HomeFails ==
  /\ list' = Cut(list, {EndTimer})
  /\ UNCHANGED <<wake, now, dispatching, hung, endstopVars>>

(* analogEndstopEvent, no match                                            *)
LookMiss ==
  /\ Fires(EndTimer) /\ ~oversampling /\ ~Crosses(pendingValue)
  /\ Reschedule(EndTimer, ClockAdd(wake[EndTimer], EndRestTicks))
  /\ hits' = 0
  /\ UNCHANGED <<sync, oversampling, triggerCount, nextLook, triggered>>

(* analogEndstopOversampleEvent runs, on its own or from the first look    *)
(* that matches, which sets when the next look would be.                   *)
Confirms ==
  Fires(EndTimer) /\ (oversampling \/ Crosses(pendingValue))

RestLook ==
  IF oversampling THEN nextLook ELSE ClockAdd(wake[EndTimer], EndRestTicks)

ConfirmMiss ==
  /\ Confirms /\ ~Holds(pendingValue)
  /\ oversampling' = FALSE /\ nextLook' = 0
  /\ triggerCount' = EndSampleCount /\ hits' = 0
  /\ Reschedule(EndTimer, RestLook)
  /\ UNCHANGED <<sync, triggered>>

(* Mutant: the last count is counted down as well.                         *)
ConfirmHitTooFar ==
  /\ Confirms /\ Holds(pendingValue) /\ triggerCount > 0
  /\ oversampling' = TRUE /\ nextLook' = RestLook
  /\ triggerCount' = triggerCount - 1 /\ hits' = hits + 1
  /\ Reschedule(EndTimer, ClockAdd(wake[EndTimer], EndSampleTicks))
  /\ UNCHANGED <<sync, triggered>>

ConfirmHit ==
  /\ Confirms /\ Holds(pendingValue) /\ triggerCount > 1
  /\ oversampling' = TRUE /\ nextLook' = RestLook
  /\ triggerCount' = triggerCount - 1 /\ hits' = hits + 1
  /\ Reschedule(EndTimer, ClockAdd(wake[EndTimer], EndSampleTicks))
  /\ UNCHANGED <<sync, triggered>>

(* All samples confirmed.                                                  *)
ConfirmLast ==
  /\ Confirms /\ Holds(pendingValue) /\ triggerCount = 1
  /\ oversampling' = TRUE /\ nextLook' = 0 /\ hits' = hits + 1
  /\ triggered' = (triggered \/ sync)
  /\ Done(EndTimer)
  /\ UNCHANGED <<sync, triggerCount>>
=============================================================================
