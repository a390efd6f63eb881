------------------------------ MODULE AnalogIn -----------------------------
(***************************************************************************)
(* core/adc.go: an analog input that a timer samples, whose sums are       *)
(* checked against a range and handed to a task of the main loop, which    *)
(* reports them.  The shutdown a sum out of range causes is Firmware's:    *)
(* LastSample leaves it the list to reinsert the timer into.               *)
(***************************************************************************)
EXTENDS Dispatch

CONSTANTS
  AdcTimer,         \* ain.Timer
  Raw,              \* what the converter reads, 0-4095 in the code
  SampleCount, SampleTicks, RestTicks,
  MinValue, MaxValue, RangeCheckCount,
  SumRange          \* the sum is checked and kept modulo this, 2^16

VARIABLES
  adcState,         \* ain.State
  sum,              \* ain.Value
  currentSample,    \* ain.CurrentSample
  invalidCount,     \* ain.InvalidCount
  nextBegin,        \* ain.NextBeginTime until it is reported, zero after
  pendingValue,     \* ain.PendingValue
  analogInWake,     \* analogInWake
  stopped           \* history: TryShutdown or emergency_stop since the query

adcVars == <<adcState, sum, currentSample, invalidCount, nextBegin,
             pendingValue, analogInWake, stopped>>

AdcTypeOK ==
  /\ adcState \in {"ready", "sampling", "pending"}
  /\ sum \in Nat /\ currentSample \in 0 .. SampleCount - 1
  /\ adcState # "sampling" => sum = 0 /\ currentSample = 0
  /\ invalidCount \in 0 .. RangeCheckCount
  /\ nextBegin \in Ticks /\ pendingValue \in 0 .. SumRange - 1
  /\ {analogInWake, stopped} \subseteq BOOLEAN

(* config_analog_in                                                        *)
AdcInit ==
  /\ adcState = "ready" /\ sum = 0 /\ currentSample = 0 /\ invalidCount = 0
  /\ nextBegin = 0 /\ pendingValue = 0 /\ analogInWake = FALSE
  /\ stopped = FALSE

-----------------------------------------------------------------------------
(* query_analog_in                                                         *)
Query(w) ==
  /\ adcState' = "sampling" /\ sum' = 0 /\ currentSample' = 0
  /\ invalidCount' = 0 /\ nextBegin' = w /\ stopped' = FALSE
  /\ Insert(Cut(list, {AdcTimer}), [wake EXCEPT ![AdcTimer] = w], AdcTimer)
  /\ UNCHANGED <<now, dispatching, pendingValue, analogInWake>>

(* query_analog_in with a sample count of zero                             *)
QueryNone ==
  /\ adcState' = "ready" /\ sum' = 0 /\ currentSample' = 0
  /\ invalidCount' = 0 /\ nextBegin' = 0 /\ stopped' = FALSE
  /\ list' = Cut(list, {AdcTimer})
  /\ UNCHANGED <<wake, now, dispatching, hung, pendingValue, analogInWake>>

(* AnalogInTask: the report is sent and the input is ready, not sampling.  *)
AnalogInTask ==
  /\ analogInWake /\ analogInWake' = FALSE
  /\ IF adcState = "pending"
     THEN adcState' = "ready" /\ nextBegin' = 0
     ELSE UNCHANGED <<adcState, nextBegin>>
  /\ UNCHANGED <<timerVars, sum, currentSample, invalidCount, pendingValue,
                 stopped>>

(* Mutant: only the report that waits is dropped.                          *)
StopReporting ==
  /\ adcState' = IF adcState = "pending" THEN "ready" ELSE adcState
  /\ pendingValue' = 0 /\ stopped' = TRUE
  /\ UNCHANGED <<sum, currentSample, nextBegin, invalidCount, analogInWake>>

(* ShutdownAnalogIn, but for the timer                                     *)
StopSampling ==
  /\ adcState' = "ready" /\ pendingValue' = 0 /\ stopped' = TRUE
  /\ sum' = 0 /\ currentSample' = 0 /\ nextBegin' = 0
  /\ UNCHANGED <<invalidCount, analogInWake>>

-----------------------------------------------------------------------------
(* analogInTimerHandler in another state than sampling                     *)
SampleNothing ==
  /\ Fires(AdcTimer) /\ adcState # "sampling"
  /\ Done(AdcTimer)
  /\ UNCHANGED adcVars

(* The converter cannot be read.                                           *)
SampleFails ==
  /\ Fires(AdcTimer) /\ adcState = "sampling"
  /\ adcState' = "ready" /\ sum' = 0 /\ currentSample' = 0 /\ nextBegin' = 0
  /\ Done(AdcTimer)
  /\ UNCHANGED <<invalidCount, pendingValue, analogInWake, stopped>>

(* More samples needed.                                                    *)
Sample(v) ==
  /\ Fires(AdcTimer) /\ adcState = "sampling"
  /\ currentSample + 1 < SampleCount
  /\ sum' = sum + v /\ currentSample' = currentSample + 1
  /\ Reschedule(AdcTimer, ClockAdd(now, SampleTicks))
  /\ UNCHANGED <<adcState, invalidCount, nextBegin, pendingValue,
                 analogInWake, stopped>>

Sum16(v) == (sum + v) % SumRange
OutOfRange(s) == s < MinValue \/ s > MaxValue

(* The sum calls TryShutdown.                                              *)
Trips(s) ==
  OutOfRange(s) /\ (RangeCheckCount = 0 \/ invalidCount + 1 >= RangeCheckCount)

(* All samples collected; the timer goes back into the list from.          *)
LastSample(v, from) ==
  /\ Fires(AdcTimer) /\ adcState = "sampling"
  /\ currentSample + 1 >= SampleCount
  /\ invalidCount' = IF OutOfRange(Sum16(v)) /\ ~Trips(Sum16(v))
                     THEN invalidCount + 1 ELSE 0
  /\ stopped' = (stopped \/ Trips(Sum16(v)))
  /\ nextBegin' = ClockAdd(nextBegin, RestTicks)
  /\ pendingValue' = Sum16(v) /\ adcState' = "pending"
  /\ sum' = 0 /\ currentSample' = 0
  /\ analogInWake' = TRUE
  /\ Insert(from, [wake EXCEPT ![AdcTimer] = nextBegin'], AdcTimer)
=============================================================================
