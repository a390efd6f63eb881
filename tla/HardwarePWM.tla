----------------------------- MODULE HardwarePWM ---------------------------
(***************************************************************************)
(* core/pwm.go: a hardware PWM output whose value is set at once or at a   *)
(* clock, and which returns to its default after a maximum duration.  On   *)
(* both targets SetDutyCycle of a configured pin cannot fail, so the error *)
(* returns are left out.  Nothing calls ShutdownAllHardwarePWM, so it is   *)
(* no action.                                                              *)
(***************************************************************************)
EXTENDS Dispatch

CONSTANTS
  PwmTimer,        \* pwm.Timer
  PwmValues, PwmDefault,
  MaxDuration      \* not zero: this output has one

VARIABLES
  pwmValue,        \* pwm.Value
  duty,            \* the duty cycle of the hardware
  pwmCheckEnd,     \* PWM_CHECK_END
  pwmHandler,      \* pwm.Timer.Handler
  pwmEnd           \* pwm.EndTime while it is watched, zero otherwise

pwmVars == <<pwmValue, duty, pwmCheckEnd, pwmHandler, pwmEnd>>

PwmTypeOK ==
  /\ {pwmValue, duty} \subseteq PwmValues
  /\ pwmCheckEnd \in BOOLEAN /\ pwmHandler \in {"load", "end"}
  /\ pwmEnd \in Ticks

(* config_pwm_out, at the default value                                    *)
PwmInit ==
  /\ pwmValue = PwmDefault /\ duty = PwmDefault
  /\ pwmCheckEnd = FALSE /\ pwmHandler = "load" /\ pwmEnd = 0

(* queue_pwm_out: the value is kept now and loaded at w.                   *)
QueuePWM(w, value) ==
  /\ pwmValue' = value
  /\ pwmCheckEnd' = (value # PwmDefault)
  /\ pwmEnd' = IF pwmCheckEnd' THEN ClockAdd(w, MaxDuration) ELSE 0
  /\ pwmHandler' = "load"
  /\ Insert(Cut(list, {PwmTimer}), [wake EXCEPT ![PwmTimer] = w], PwmTimer)
  /\ UNCHANGED <<now, dispatching, duty>>

(* set_pwm_out: nothing watches the maximum duration of this value.        *)
SetPWM(value) ==
  /\ pwmValue' = value /\ duty' = value
  /\ UNCHANGED <<timerVars, pwmCheckEnd, pwmHandler, pwmEnd>>

(* Mutant: the handler schedules its timer and also returns SF_RESCHEDULE. *)
LoadPWMTwice ==
  /\ Fires(PwmTimer) /\ pwmHandler = "load"
  /\ duty' = pwmValue
  /\ IF pwmCheckEnd
     THEN LET w == [wake EXCEPT ![PwmTimer] = pwmEnd]
          IN  /\ pwmHandler' = "end"
              /\ Insert(InsertTimer(PopHead(list), w, PwmTimer), w, PwmTimer)
     ELSE UNCHANGED pwmHandler /\ Done(PwmTimer)
  /\ UNCHANGED <<pwmValue, pwmCheckEnd, pwmEnd>>

(* pwmLoadEvent                                                            *)
LoadPWM ==
  /\ Fires(PwmTimer) /\ pwmHandler = "load"
  /\ duty' = pwmValue
  /\ IF pwmCheckEnd THEN pwmHandler' = "end" /\ Reschedule(PwmTimer, pwmEnd)
                    ELSE UNCHANGED pwmHandler /\ Done(PwmTimer)
  /\ UNCHANGED <<pwmValue, pwmCheckEnd, pwmEnd>>

(* pwmEndEvent                                                             *)
EndPWM ==
  /\ Fires(PwmTimer) /\ pwmHandler = "end"
  /\ pwmValue' = PwmDefault /\ duty' = PwmDefault
  /\ pwmCheckEnd' = FALSE /\ pwmEnd' = 0
  /\ Done(PwmTimer)
  /\ UNCHANGED pwmHandler
=============================================================================
