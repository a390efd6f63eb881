------------------------------ MODULE Firmware -----------------------------
(***************************************************************************)
(* core/commands.go and core/i2c.go, and the components it composes: one   *)
(* analog input, one hardware PWM output, one digital output, one endstop  *)
(* (analog or I2C) and one polled driver, on one timer list, with the      *)
(* shutdown the host commands or the firmware decides, in the main loop or *)
(* inside a timer handler.  Which components a run fits together, and      *)
(* whether the host stops what it started, is chosen at the start.         *)
(*                                                                         *)
(* The host is disciplined: it schedules a timer only while the list does  *)
(* not lead to it, and sets the PWM output at once only to its default.    *)
(* Careless names the rules this instance's host breaks.                   *)
(***************************************************************************)
EXTENDS Dispatch

CONSTANTS
  AdcTimer, Raw, SampleCount, SampleTicks, RestTicks,
  MinValue, MaxValue, RangeCheckCount, SumRange,
  PwmTimer, PwmValues, PwmDefault, MaxPwmDuration,
  Valve,                    \* the digital output
  EndTimer, EndSampleCount, EndSampleTicks, EndRestTicks,
  Threshold, Hysteresis, Distances, Failed, WordRange,
  DriverTimer, PollRates,
  Ahead,                    \* timers are scheduled at most this far ahead
  Configurations,           \* sets of components that are fitted together
  Careless                  \* \subseteq {"requeue", "set"}

ASSUME FirmwareAssumption ==
  /\ {AdcTimer, PwmTimer, Valve, EndTimer, DriverTimer} \subseteq Timers
  /\ AdcTimer \notin {PwmTimer, Valve, EndTimer, DriverTimer}
  /\ PwmTimer \notin {Valve, EndTimer, DriverTimer}
  /\ Valve \notin {EndTimer, DriverTimer}
  /\ EndTimer = DriverTimer =>
       \A c \in Configurations : "driver" \in c =>
         c \intersect {"analog endstop", "i2c endstop"} = {}
  /\ \A c \in Configurations :
       /\ c \subseteq {"adc", "pwm", "gpio", "analog endstop", "i2c",
                       "i2c endstop", "driver", "stop", "adc stop"}
       /\ {"analog endstop", "i2c endstop"} \subseteq c => FALSE
  /\ Raw \subseteq Nat /\ {MinValue, MaxValue, RangeCheckCount} \subseteq Nat
  /\ {SampleCount, EndSampleCount, SumRange, WordRange} \subseteq Nat \ {0}
  /\ PwmDefault \in PwmValues
  /\ Distances \subseteq Nat /\ Failed \notin Distances
  /\ {Threshold, Hysteresis} \subseteq Nat
  /\ 0 \notin PollRates
  /\ \A d \in {SampleTicks, RestTicks, MaxPwmDuration, EndSampleTicks,
               EndRestTicks, Ahead} \union PollRates :
       d \in Nat /\ d + MaxLate < HalfRange

VARIABLES
  adcState, sum, currentSample, invalidCount, nextBegin, pendingValue,
  analogInWake, stopped,                                      \* AnalogIn
  pwmValue, duty, pwmCheckEnd, pwmHandler, pwmEnd,            \* HardwarePWM
  level, on, toggling, checkEnd, handler, onDuration, offDuration,
  cycleTime, endTime, shut, pulse,                            \* DigitalOut
  sync, oversampling, triggerCount, nextLook, triggered, hits, \* endstops
  registered, configured, active, pollRate,        \* DriverRegistry
  i2cReady,      \* I2CDevice.Ready
  isShutdown,    \* globalState.isShutdown
  fitted,        \* the components of this run
  lost           \* history: timers cut off the list and not scheduled since

ADC  == INSTANCE AnalogIn
PWM  == INSTANCE HardwarePWM WITH MaxDuration <- MaxPwmDuration
GPIO == INSTANCE DigitalOut
          WITH Pins <- {Valve}, DefaultOn <- {}, Limited <- {},
               MaxDuration <- 0, OnTicks <- {0, 1}, Cycles <- {0},
               Careless <- {"queue"}
AES  == INSTANCE AnalogEndstop WITH TriggerAbove <- TRUE
IES  == INSTANCE I2CEndstop WITH TriggerBelow <- TRUE
DRV  == INSTANCE DriverRegistry

adcVars == <<adcState, sum, currentSample, invalidCount, nextBegin,
             pendingValue, analogInWake, stopped>>
pwmVars == <<pwmValue, duty, pwmCheckEnd, pwmHandler, pwmEnd>>
pinVars == <<level, on, toggling, checkEnd, handler, onDuration, offDuration,
             cycleTime, endTime, shut, pulse>>
endstopVars == <<sync, oversampling, triggerCount, nextLook, triggered, hits>>
driverVars == <<registered, configured, active, pollRate>>
stateVars == <<i2cReady, isShutdown>>
vars == <<timerVars, adcVars, pwmVars, pinVars, endstopVars, driverVars,
          stateVars, fitted, lost>>

TypeOK ==
  /\ TimersTypeOK
  /\ ADC!AdcTypeOK /\ PWM!PwmTypeOK /\ GPIO!TypeOK /\ DRV!DriverTypeOK
  /\ {sync, oversampling, triggered} \subseteq BOOLEAN
  /\ triggerCount \in 0 .. EndSampleCount /\ hits \in 0 .. EndSampleCount
  /\ oversampling /\ ~triggered /\ sync => triggerCount >= 1
  /\ nextLook \in Ticks
  /\ {i2cReady, isShutdown} \subseteq BOOLEAN
  /\ fitted \in Configurations
  /\ lost \subseteq Timers /\ lost \intersect Reached(list) = {}

(* Every component configured, every output at its default                 *)
Init ==
  /\ TimersInit
  /\ ADC!AdcInit /\ PWM!PwmInit /\ DRV!DriverInit
  /\ level = [p \in {Valve} |-> FALSE] /\ GPIO!Init
  /\ sync = FALSE /\ oversampling = FALSE /\ triggerCount = 0 /\ nextLook = 0
  /\ triggered = FALSE /\ hits = 0
  /\ i2cReady = FALSE /\ isShutdown = FALSE
  /\ fitted \in Configurations /\ lost = {}

Soon(w) == SignedDiff(w, now) \in 0 .. Ahead
Free(t) == "requeue" \in Careless \/ t \notin Reached(list)

(* What the list no longer leads to was lost, except the timer popped.     *)
Track ==
  lost' = ((lost \union Reached(list)) \ Reached(list'))
            \ (IF dispatching THEN {list.head} ELSE {})

-----------------------------------------------------------------------------
(* Shutdown                                                                *)

(* ShutdownAllAnalogIn and ShutdownAllDigitalOut clear these Next pointers.*)
Stopped == {AdcTimer, Valve}

(* ShutdownAllDigitalOut, ShutdownAllI2C: PWM, endstops and drivers go on. *)
ShutDown ==
  /\ isShutdown' = TRUE /\ i2cReady' = FALSE
  /\ GPIO!ToDefaults
  /\ UNCHANGED <<pwmVars, endstopVars, driverVars, fitted>>

(* emergency_stop, shut down already or not                                *)
EmergencyStop ==
  /\ InLoop
  /\ ShutDown /\ ADC!StopSampling
  /\ list' = Cut(list, Stopped)
  /\ UNCHANGED <<wake, now, dispatching, hung>>
  /\ Track

(* clear_shutdown, or ResetFirmwareState when the host begins anew         *)
ClearShutdown ==
  /\ InLoop /\ isShutdown
  /\ isShutdown' = FALSE
  /\ UNCHANGED <<timerVars, adcVars, pwmVars, pinVars, endstopVars, driverVars,
                 i2cReady, fitted, lost>>

(* i2c_set_bus; a bus that cannot be configured leaves the device as it is *)
I2CSetBus ==
  /\ InLoop /\ "i2c" \in fitted
  /\ i2cReady' = TRUE
  /\ UNCHANGED <<timerVars, adcVars, pwmVars, pinVars, endstopVars, driverVars,
                 isShutdown, fitted, lost>>

(* i2c_write or i2c_read fails: TryShutdown, once.                         *)
I2CFails ==
  /\ InLoop /\ "i2c" \in fitted /\ i2cReady /\ ~isShutdown
  /\ ShutDown /\ ADC!StopSampling
  /\ list' = Cut(list, Stopped)
  /\ UNCHANGED <<wake, now, dispatching, hung>>
  /\ Track

-----------------------------------------------------------------------------
(* The analog input                                                        *)

AdcCommand ==
  /\ InLoop /\ "adc" \in fitted
  /\ \/ Free(AdcTimer) /\ \E w \in Ticks : Soon(w) /\ ADC!Query(w)
     \/ "adc stop" \in fitted /\ ADC!QueryNone
  /\ UNCHANGED <<pwmVars, pinVars, endstopVars, driverVars, i2cReady,
                 isShutdown, fitted>>
  /\ Track

AnalogInTask ==
  /\ InLoop
  /\ ADC!AnalogInTask
  /\ UNCHANGED <<pwmVars, pinVars, endstopVars, driverVars, stateVars, fitted,
                 lost>>

AdcHandler ==
  /\ \/ ADC!SampleNothing \/ ADC!SampleFails
     \/ \E v \in Raw : ADC!Sample(v)
     \/ \E v \in Raw :
          /\ ~(ADC!Trips(ADC!Sum16(v)) /\ ~isShutdown)
          /\ ADC!LastSample(v, PopHead(list))
  /\ UNCHANGED <<pwmVars, pinVars, endstopVars, driverVars, stateVars, fitted>>
  /\ Track

(* Mutant: a trip inside the dispatch leaves the pins as they are.         *)
AdcTripsPinsOn ==
  \E v \in Raw :
    /\ ADC!Trips(ADC!Sum16(v)) /\ ~isShutdown
    /\ isShutdown' = TRUE /\ i2cReady' = FALSE
    /\ shut' = [p \in {Valve} |-> TRUE]
    /\ UNCHANGED <<level, on, toggling, checkEnd, handler, onDuration,
                   offDuration, cycleTime, endTime, pulse>>
    /\ UNCHANGED <<pwmVars, endstopVars, driverVars, fitted>>
    /\ ADC!LastSample(v, Cut(PopHead(list), Stopped))
    /\ Track

(* The last sample's sum calls TryShutdown, in the middle of the dispatch; *)
(* the handler goes on to report the sum and to reschedule its timer.      *)
AdcTrips ==
  \E v \in Raw :
    /\ ADC!Trips(ADC!Sum16(v)) /\ ~isShutdown
    /\ ShutDown
    /\ ADC!LastSample(v, Cut(PopHead(list), Stopped))
    /\ Track

-----------------------------------------------------------------------------
(* The other components                                                    *)

PwmStep ==
  /\ "pwm" \in fitted
  /\ \/ /\ InLoop /\ Free(PwmTimer)
        /\ \E w \in Ticks, value \in PwmValues : Soon(w) /\ PWM!QueuePWM(w, value)
     \/ /\ InLoop
        /\ \E value \in PwmValues :
             /\ "set" \in Careless \/ value = PwmDefault
             /\ PWM!SetPWM(value)
     \/ PWM!LoadPWM \/ PWM!EndPWM
  /\ UNCHANGED <<adcVars, pinVars, endstopVars, driverVars, stateVars, fitted>>
  /\ Track

GpioStep ==
  /\ "gpio" \in fitted
  /\ \/ /\ Free(Valve)
        /\ \E w \in Ticks, ticks \in {0, 1} : GPIO!Queue(Valve, w, ticks)
     \/ \E value \in BOOLEAN : GPIO!Update(Valve, value)
     \/ GPIO!LoadSets(Valve)
  /\ UNCHANGED <<adcVars, pwmVars, endstopVars, driverVars, stateVars, fitted>>
  /\ Track

AnalogEndstopStep ==
  /\ "analog endstop" \in fitted
  /\ \/ InLoop /\ Free(EndTimer) /\ \E w \in Ticks : Soon(w) /\ AES!Home(w)
     \/ InLoop /\ "stop" \in fitted /\ AES!HomeEnd
     \/ InLoop /\ Free(EndTimer) /\ AES!HomeFails
     \/ AES!LookMiss \/ AES!ConfirmMiss \/ AES!ConfirmHit \/ AES!ConfirmLast
  /\ UNCHANGED <<adcVars, pwmVars, pinVars, driverVars, stateVars, fitted>>
  /\ Track

I2CEndstopStep ==
  /\ "i2c endstop" \in fitted
  /\ \/ InLoop /\ Free(EndTimer) /\ \E w \in Ticks : Soon(w) /\ IES!Home(w)
     \/ InLoop /\ "stop" \in fitted /\ IES!HomeEnd
     \/ InLoop /\ Free(EndTimer) /\ IES!HomeFails
     \/ IES!Look
  /\ UNCHANGED <<adcVars, pwmVars, pinVars, driverVars, stateVars, fitted>>
  /\ Track

DriverStep ==
  /\ "driver" \in fitted
  /\ \/ /\ InLoop
        /\ \/ DRV!ConfigDriver \/ DRV!UnregisterDriver
           \/ "stop" \in fitted /\ DRV!StopPolling
           \/ Free(DriverTimer) /\ \E rate \in PollRates : DRV!StartPolling(rate)
     \/ DRV!PollNothing \/ DRV!Poll
  /\ UNCHANGED <<adcVars, pwmVars, pinVars, endstopVars, stateVars, fitted>>
  /\ Track

-----------------------------------------------------------------------------
Next ==
  \/ EmergencyStop \/ ClearShutdown \/ I2CSetBus \/ I2CFails
  \/ AdcCommand \/ AnalogInTask \/ AdcHandler \/ AdcTrips
  \/ PwmStep \/ GpioStep \/ AnalogEndstopStep \/ I2CEndstopStep \/ DriverStep
  \/ /\ TimerStep
     /\ UNCHANGED <<adcVars, pwmVars, pinVars, endstopVars, driverVars,
                    stateVars, fitted, lost>>

Spec == Init /\ [][Next]_vars

(* The main loop comes round, and the due handlers run.                    *)
FairSpec ==
  /\ Spec /\ TimerFairness
  /\ WF_vars(AnalogInTask) /\ WF_vars(AdcHandler) /\ WF_vars(AdcTrips)
-----------------------------------------------------------------------------
(***************************************************************************)
(* Properties                                                              *)
(***************************************************************************)

(* Whatever starts, stops and shuts down, in commands or handlers, the     *)
(* timer list never runs in a circle: every dispatch and every insertion   *)
(* ends (scheduler.go:27-49, adc.go:186-190, gpio.go:426, pwm.go:155).     *)
ListHolds ==
  ~hung /\ (list.head # Nil => \E t \in Reached(list) : list.next[t] = Nil)

(* What waits for its timer has it on the list, unless a stop or shutdown  *)
(* of another component cut it off: a sampling input, a PWM output away    *)
(* from its default, an active driver, an endstop that is homing.          *)
WaitingIsTimed ==
  LET onTime == Reached(list) \union lost IN
    /\ adcState = "sampling" => AdcTimer \in onTime
    /\ duty # PwmDefault => PwmTimer \in onTime
    /\ registered /\ active => DriverTimer \in onTime
    /\ sync /\ ~triggered => EndTimer \in onTime

(* A shutdown, also one that a timer handler decides while digital outputs *)
(* wait behind it on the list, leaves the output at its default until the  *)
(* host commands it again (commands.go:210-233, gpio.go:410-427).          *)
ShutdownHolds == GPIO!ShutdownHolds

(* Once stopped, by a command, by a failed transfer or by its own sum in   *)
(* the middle of its handler, the input takes no sample until the host     *)
(* queries it, whatever its timer still does and whenever the shutdown is  *)
(* cleared, and all it may still report is the sum that stopped it.  A sum *)
(* out of range stops the machine if the host asked for one such sum; if   *)
(* it asked for several in a row no sum ever does, against adc.go:302-304, *)
(* since the input samples once per query (adc.go:269-332, 340-358).       *)
SamplingStops ==
  /\ stopped => adcState # "sampling"
  /\ adcState = "pending" =>
       (stopped <=> RangeCheckCount <= 1 /\ ADC!OutOfRange(pendingValue))

(* An endstop triggers only after EndSampleCount looks in a row that held: *)
(* no miss, failed reading or new homing in between (endstop_analog.go:    *)
(* 235-290, endstop_i2c.go:383-427).                                       *)
TriggerNeedsReadings ==
  [][triggered' /\ ~triggered => hits' = EndSampleCount]_vars

(* adc.go:236-238, "the timer will later drive the state back into         *)
(* ADCStateSampling when the next sampling cycle starts".                  *)
ResumesSampling ==
  adcState = "pending" ~> (adcState = "sampling" \/ isShutdown)
=============================================================================
