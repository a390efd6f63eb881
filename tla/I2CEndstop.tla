----------------------------- MODULE I2CEndstop ----------------------------
(***************************************************************************)
(* core/endstop_i2c.go: an endstop that reads a distance sensor over I2C   *)
(* inside its timer handler.  A reading is a distance or Failed; the first *)
(* look that matches reads twice, once for each threshold.  The device's   *)
(* Ready flag is not asked, so a shutdown does not stop the readings.      *)
(* ESF_HOMING is set and cleared with the trsync: sync stands for both.    *)
(* LastDistance is for the query alone.                                    *)
(***************************************************************************)
EXTENDS Dispatch

CONSTANTS
  EndTimer,        \* ies.Timer
  Distances,       \* what the sensor reports
  Failed,          \* the read fails
  EndSampleCount, EndSampleTicks, EndRestTicks,
  TriggerBelow, Threshold, Hysteresis,
  WordRange        \* unsigned numbers wrap here, 2^32 in the code

VARIABLES
  sync,            \* ies.TriggerSync # nil
  oversampling,    \* the handler is i2cEndstopOversampleEvent
  triggerCount,    \* ies.TriggerCount
  nextLook,        \* ies.NextWake while oversampling, zero otherwise
  triggered,       \* history: TriggerSyncDoTrigger called since the homing began
  hits             \* history: readings in a row that held

endstopVars == <<sync, oversampling, triggerCount, nextLook, triggered, hits>>

Readings == Distances \union {Failed}

Crosses(d) ==
  d \in Distances /\ IF TriggerBelow THEN d < Threshold ELSE d > Threshold

(* The hysteresis is added, or taken off, without regard to overflow.      *)
Holds(d) ==
  /\ d \in Distances
  /\ IF TriggerBelow THEN d < (Threshold + Hysteresis) % WordRange
                     ELSE d > (Threshold - Hysteresis) % WordRange

(* i2c_endstop_home; the sensor is initialized, now if not before          *)
Home(w) ==
  /\ triggerCount' = EndSampleCount /\ nextLook' = 0
  /\ sync' = TRUE /\ oversampling' = FALSE /\ triggered' = FALSE /\ hits' = 0
  /\ Insert(Cut(list, {EndTimer}), [wake EXCEPT ![EndTimer] = w], EndTimer)
  /\ UNCHANGED <<now, dispatching>>

(* i2c_endstop_home with a sample count of zero: the timer samples on.     *)
HomeEnd ==
  /\ sync' = FALSE
  /\ list' = Cut(list, {EndTimer})
  /\ UNCHANGED <<wake, now, dispatching, hung, oversampling, triggerCount,
                 nextLook, triggered, hits>>

(* No such trsync, or the sensor cannot be initialized: the timer has been *)
(* "cancelled" by then, and the homing before, if any, goes on.            *)
HomeFails ==
  /\ list' = Cut(list, {EndTimer})
  /\ UNCHANGED <<wake, now, dispatching, hung, endstopVars>>

-----------------------------------------------------------------------------
(* i2cEndstopEvent, no match, or no reading                                *)
LookMiss ==
  /\ Fires(EndTimer) /\ ~oversampling
  /\ \E d \in Readings : ~Crosses(d)
  /\ Reschedule(EndTimer, ClockAdd(wake[EndTimer], EndRestTicks))
  /\ hits' = 0
  /\ UNCHANGED <<sync, oversampling, triggerCount, nextLook, triggered>>

(* i2cEndstopOversampleEvent runs, on its own or from the look that        *)
(* matched, which has set when the next look would be.                     *)
Confirms ==
  Fires(EndTimer) /\ (oversampling \/ \E d \in Readings : Crosses(d))

RestLook ==
  IF oversampling THEN nextLook ELSE ClockAdd(wake[EndTimer], EndRestTicks)

(* Mutant: a failed reading between two that hold is passed over.          *)
ConfirmMissSkips(d) ==
  /\ Confirms /\ ~Holds(d)
  /\ oversampling' = FALSE /\ nextLook' = 0 /\ hits' = 0
  /\ Reschedule(EndTimer, RestLook)
  /\ UNCHANGED <<sync, triggered, triggerCount>>

ConfirmMiss(d) ==
  /\ Confirms /\ ~Holds(d)
  /\ oversampling' = FALSE /\ nextLook' = 0
  /\ triggerCount' = EndSampleCount /\ hits' = 0
  /\ Reschedule(EndTimer, RestLook)
  /\ UNCHANGED <<sync, triggered>>

ConfirmHit(d) ==
  /\ Confirms /\ Holds(d) /\ triggerCount > 1
  /\ oversampling' = TRUE /\ nextLook' = RestLook
  /\ triggerCount' = triggerCount - 1 /\ hits' = hits + 1
  /\ Reschedule(EndTimer, ClockAdd(wake[EndTimer], EndSampleTicks))
  /\ UNCHANGED <<sync, triggered>>

(* All samples confirmed.                                                  *)
ConfirmLast(d) ==
  /\ Confirms /\ Holds(d) /\ triggerCount = 1
  /\ oversampling' = TRUE /\ nextLook' = 0 /\ hits' = hits + 1
  /\ triggered' = (triggered \/ sync)
  /\ Done(EndTimer)
  /\ UNCHANGED <<sync, triggerCount>>

(* The handler, whatever the sensor reports.                               *)
Look ==
  LookMiss \/ \E d \in Readings : ConfirmMiss(d) \/ ConfirmHit(d) \/ ConfirmLast(d)
=============================================================================
