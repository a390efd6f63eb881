--------------------------- MODULE FirmwareProofs --------------------------
(***************************************************************************)
(* Safety of Firmware for every number of samples, every range, duration   *)
(* and clock, and every way the components are fitted together.            *)
(*                                                                         *)
(* Unlike the components on their own, these cut the timer list: what hung *)
(* behind a timer whose Next is cleared keeps its own pointers and is no   *)
(* longer led to.  So the list is not the whole structure of pointers, but *)
(* what a walk from the head comes to: it is Whole.                        *)
(***************************************************************************)
EXTENDS Firmware, TimerListProofs

-----------------------------------------------------------------------------
(* Every component sees the one list: the operators of its instance are    *)
(* those of Firmware.                                                      *)

LEMMA AdcSame ==
  /\ \A l, w, t : ADC!Insert(l, w, t) <=> Insert(l, w, t)
  /\ \A t, w : ADC!Reschedule(t, w) <=> Reschedule(t, w)
  /\ \A t, w : ADC!Schedule(t, w) <=> Schedule(t, w)
  /\ \A t : ADC!Fires(t) <=> Fires(t)
  /\ \A t : ADC!Done(t) <=> Done(t)
  /\ \A l, ts : ADC!Cut(l, ts) = Cut(l, ts)
  /\ \A a, d : ADC!ClockAdd(a, d) = ClockAdd(a, d)
  /\ ADC!InLoop <=> InLoop
  /\ ADC!Ticks = Ticks
BY DEF ADC!Insert, ADC!InsertHangs, ADC!InsertTimer, ADC!GoesFirst,
       ADC!Walked, ADC!WalkClosed, ADC!StopsAt, ADC!Before,
       ADC!SignedDiff, ADC!ClockSub, ADC!ClockRange, ADC!Reschedule,
       ADC!Schedule, ADC!PopHead, ADC!Fires, ADC!Age, ADC!Done,
       ADC!Linked, ADC!InLoop, ADC!Cut, ADC!Ticks, ADC!ClockAdd, Insert,
       InsertHangs, InsertTimer, GoesFirst, Walked, WalkClosed, StopsAt,
       Before, SignedDiff, ClockSub, ClockRange, Reschedule, Schedule,
       PopHead, Fires, Age, Done, Linked, InLoop, Cut, Ticks, ClockAdd

LEMMA PwmSame ==
  /\ \A l, w, t : PWM!Insert(l, w, t) <=> Insert(l, w, t)
  /\ \A t, w : PWM!Reschedule(t, w) <=> Reschedule(t, w)
  /\ \A t, w : PWM!Schedule(t, w) <=> Schedule(t, w)
  /\ \A t : PWM!Fires(t) <=> Fires(t)
  /\ \A t : PWM!Done(t) <=> Done(t)
  /\ \A l, ts : PWM!Cut(l, ts) = Cut(l, ts)
  /\ \A a, d : PWM!ClockAdd(a, d) = ClockAdd(a, d)
  /\ PWM!InLoop <=> InLoop
  /\ PWM!Ticks = Ticks
BY DEF PWM!Insert, PWM!InsertHangs, PWM!InsertTimer, PWM!GoesFirst,
       PWM!Walked, PWM!WalkClosed, PWM!StopsAt, PWM!Before,
       PWM!SignedDiff, PWM!ClockSub, PWM!ClockRange, PWM!Reschedule,
       PWM!Schedule, PWM!PopHead, PWM!Fires, PWM!Age, PWM!Done,
       PWM!Linked, PWM!InLoop, PWM!Cut, PWM!Ticks, PWM!ClockAdd, Insert,
       InsertHangs, InsertTimer, GoesFirst, Walked, WalkClosed, StopsAt,
       Before, SignedDiff, ClockSub, ClockRange, Reschedule, Schedule,
       PopHead, Fires, Age, Done, Linked, InLoop, Cut, Ticks, ClockAdd

LEMMA PinSame ==
  /\ \A l, w, t : GPIO!Insert(l, w, t) <=> Insert(l, w, t)
  /\ \A t, w : GPIO!Reschedule(t, w) <=> Reschedule(t, w)
  /\ \A t, w : GPIO!Schedule(t, w) <=> Schedule(t, w)
  /\ \A t : GPIO!Fires(t) <=> Fires(t)
  /\ \A t : GPIO!Done(t) <=> Done(t)
  /\ \A l, ts : GPIO!Cut(l, ts) = Cut(l, ts)
  /\ \A a, d : GPIO!ClockAdd(a, d) = ClockAdd(a, d)
  /\ GPIO!InLoop <=> InLoop
  /\ GPIO!Ticks = Ticks
BY DEF GPIO!Insert, GPIO!InsertHangs, GPIO!InsertTimer, GPIO!GoesFirst,
       GPIO!Walked, GPIO!WalkClosed, GPIO!StopsAt, GPIO!Before,
       GPIO!SignedDiff, GPIO!ClockSub, GPIO!ClockRange, GPIO!Reschedule,
       GPIO!Schedule, GPIO!PopHead, GPIO!Fires, GPIO!Age, GPIO!Done,
       GPIO!Linked, GPIO!InLoop, GPIO!Cut, GPIO!Ticks, GPIO!ClockAdd,
       Insert, InsertHangs, InsertTimer, GoesFirst, Walked, WalkClosed,
       StopsAt, Before, SignedDiff, ClockSub, ClockRange, Reschedule,
       Schedule, PopHead, Fires, Age, Done, Linked, InLoop, Cut, Ticks,
       ClockAdd

LEMMA AnalogEndSame ==
  /\ \A l, w, t : AES!Insert(l, w, t) <=> Insert(l, w, t)
  /\ \A t, w : AES!Reschedule(t, w) <=> Reschedule(t, w)
  /\ \A t, w : AES!Schedule(t, w) <=> Schedule(t, w)
  /\ \A t : AES!Fires(t) <=> Fires(t)
  /\ \A t : AES!Done(t) <=> Done(t)
  /\ \A l, ts : AES!Cut(l, ts) = Cut(l, ts)
  /\ \A a, d : AES!ClockAdd(a, d) = ClockAdd(a, d)
  /\ AES!InLoop <=> InLoop
  /\ AES!Ticks = Ticks
BY DEF AES!Insert, AES!InsertHangs, AES!InsertTimer, AES!GoesFirst,
       AES!Walked, AES!WalkClosed, AES!StopsAt, AES!Before,
       AES!SignedDiff, AES!ClockSub, AES!ClockRange, AES!Reschedule,
       AES!Schedule, AES!PopHead, AES!Fires, AES!Age, AES!Done,
       AES!Linked, AES!InLoop, AES!Cut, AES!Ticks, AES!ClockAdd, Insert,
       InsertHangs, InsertTimer, GoesFirst, Walked, WalkClosed, StopsAt,
       Before, SignedDiff, ClockSub, ClockRange, Reschedule, Schedule,
       PopHead, Fires, Age, Done, Linked, InLoop, Cut, Ticks, ClockAdd

LEMMA I2CEndSame ==
  /\ \A l, w, t : IES!Insert(l, w, t) <=> Insert(l, w, t)
  /\ \A t, w : IES!Reschedule(t, w) <=> Reschedule(t, w)
  /\ \A t, w : IES!Schedule(t, w) <=> Schedule(t, w)
  /\ \A t : IES!Fires(t) <=> Fires(t)
  /\ \A t : IES!Done(t) <=> Done(t)
  /\ \A l, ts : IES!Cut(l, ts) = Cut(l, ts)
  /\ \A a, d : IES!ClockAdd(a, d) = ClockAdd(a, d)
  /\ IES!InLoop <=> InLoop
  /\ IES!Ticks = Ticks
BY DEF IES!Insert, IES!InsertHangs, IES!InsertTimer, IES!GoesFirst,
       IES!Walked, IES!WalkClosed, IES!StopsAt, IES!Before,
       IES!SignedDiff, IES!ClockSub, IES!ClockRange, IES!Reschedule,
       IES!Schedule, IES!PopHead, IES!Fires, IES!Age, IES!Done,
       IES!Linked, IES!InLoop, IES!Cut, IES!Ticks, IES!ClockAdd, Insert,
       InsertHangs, InsertTimer, GoesFirst, Walked, WalkClosed, StopsAt,
       Before, SignedDiff, ClockSub, ClockRange, Reschedule, Schedule,
       PopHead, Fires, Age, Done, Linked, InLoop, Cut, Ticks, ClockAdd

LEMMA DriverSame ==
  /\ \A l, w, t : DRV!Insert(l, w, t) <=> Insert(l, w, t)
  /\ \A t, w : DRV!Reschedule(t, w) <=> Reschedule(t, w)
  /\ \A t, w : DRV!Schedule(t, w) <=> Schedule(t, w)
  /\ \A t : DRV!Fires(t) <=> Fires(t)
  /\ \A t : DRV!Done(t) <=> Done(t)
  /\ \A l, ts : DRV!Cut(l, ts) = Cut(l, ts)
  /\ \A a, d : DRV!ClockAdd(a, d) = ClockAdd(a, d)
  /\ DRV!InLoop <=> InLoop
  /\ DRV!Ticks = Ticks
BY DEF DRV!Insert, DRV!InsertHangs, DRV!InsertTimer, DRV!GoesFirst,
       DRV!Walked, DRV!WalkClosed, DRV!StopsAt, DRV!Before,
       DRV!SignedDiff, DRV!ClockSub, DRV!ClockRange, DRV!Reschedule,
       DRV!Schedule, DRV!PopHead, DRV!Fires, DRV!Age, DRV!Done,
       DRV!Linked, DRV!InLoop, DRV!Cut, DRV!Ticks, DRV!ClockAdd, Insert,
       InsertHangs, InsertTimer, GoesFirst, Walked, WalkClosed, StopsAt,
       Before, SignedDiff, ClockSub, ClockRange, Reschedule, Schedule,
       PopHead, Fires, Age, Done, Linked, InLoop, Cut, Ticks, ClockAdd

LEMMA SomeTimers ==
  /\ {AdcTimer, PwmTimer, Valve, EndTimer, DriverTimer} \subseteq Timers
  /\ AdcTimer \notin {PwmTimer, Valve, EndTimer, DriverTimer}
  /\ PwmTimer \notin {Valve, EndTimer, DriverTimer}
  /\ Valve \notin {EndTimer, DriverTimer}
BY FirmwareAssumption

LEMMA Delays ==
  \A d \in {SampleTicks, RestTicks, MaxPwmDuration, EndSampleTicks,
            EndRestTicks} \union PollRates : d \in Nat /\ d < HalfRange
<1>1. \A d \in {SampleTicks, RestTicks, MaxPwmDuration, EndSampleTicks,
                 EndRestTicks, Ahead} \union PollRates :
        d \in Nat /\ d + MaxLate < HalfRange
  BY FirmwareAssumption
<1>2. MaxLate \in Nat /\ HalfRange \in Nat
  BY DispatchAssumption, TimerListAssumption
<1>3. QED BY <1>1, <1>2

LEMMA Counts ==
  /\ SampleCount \in Nat \ {0} /\ EndSampleCount \in Nat \ {0}
  /\ SumRange \in Nat \ {0} /\ RangeCheckCount \in Nat
  /\ Raw \subseteq Nat /\ PwmDefault \in PwmValues
<1>1. /\ {SampleCount, EndSampleCount, SumRange, WordRange} \subseteq Nat \ {0}
      /\ {MinValue, MaxValue, RangeCheckCount} \subseteq Nat
      /\ Raw \subseteq Nat /\ PwmDefault \in PwmValues
  BY FirmwareAssumption
<1>2. QED BY <1>1

-----------------------------------------------------------------------------
(* What each component keeps of its own state, for every host.             *)

(* A sum is the first after its query, so no other was counted before it.  *)
AdcPart ==
  /\ ADC!AdcTypeOK
  /\ isShutdown \in BOOLEAN
  /\ adcState = "sampling" => invalidCount = 0
  /\ SamplingStops

PwmPart == PWM!PwmTypeOK

(* A pin without a cycle is never pulsed, and what its load handler would  *)
(* set a shut-down pin to is its default.                                  *)
PinPart ==
  /\ {level, on, toggling, checkEnd, shut} \subseteq [{Valve} -> BOOLEAN]
  /\ handler \in [{Valve} -> GPIO!Handlers]
  /\ {onDuration, offDuration, cycleTime}
       \subseteq [{Valve} -> GPIO!Durations \intersect Nat]
  /\ endTime \in [{Valve} -> Ticks]
  /\ pulse = [p \in {Valve} |-> GPIO!NoPulse]
  /\ toggling[Valve] = FALSE /\ cycleTime[Valve] = 0
  /\ shut[Valve] = TRUE => level[Valve] = FALSE /\ on[Valve] = FALSE

(* Looks that held and looks that are still asked for add up.              *)
Counted ==
  /\ hits + triggerCount = EndSampleCount
  /\ triggerCount >= 1
  /\ ~oversampling => triggerCount = EndSampleCount

EndPart ==
  /\ sync \in BOOLEAN /\ oversampling \in BOOLEAN /\ triggered \in BOOLEAN
  /\ triggerCount \in 0 .. EndSampleCount /\ hits \in Nat
  /\ sync /\ ~triggered => Counted

DriverPart == DRV!DriverTypeOK

StatePart == i2cReady \in BOOLEAN /\ fitted \in Configurations

Parts == AdcPart /\ PwmPart /\ PinPart /\ EndPart /\ DriverPart /\ StatePart

LEMMA AdcKept == AdcPart /\ UNCHANGED <<adcVars, isShutdown>> => AdcPart'
BY DEF AdcPart, adcVars, SamplingStops, ADC!OutOfRange, ADC!AdcTypeOK,
       ADC!Ticks, ADC!ClockRange

LEMMA PwmKept == PwmPart /\ UNCHANGED pwmVars => PwmPart'
BY DEF PwmPart, pwmVars, PWM!PwmTypeOK, PWM!Ticks, PWM!ClockRange

LEMMA PinKept == PinPart /\ UNCHANGED pinVars => PinPart'
BY DEF PinPart, pinVars

LEMMA EndKept == EndPart /\ UNCHANGED endstopVars => EndPart'
BY DEF EndPart, endstopVars, Counted

LEMMA DriverKept == DriverPart /\ UNCHANGED driverVars => DriverPart'
BY DEF DriverPart, driverVars, DRV!DriverTypeOK

LEMMA InitParts == Init => Parts
<1> SUFFICES ASSUME Init PROVE Parts
  OBVIOUS
<1>1. 0 \in Ticks
  BY ZeroIsTick
<1>2. AdcPart
  <2>1. /\ adcState = "ready" /\ sum = 0 /\ currentSample = 0
        /\ invalidCount = 0 /\ nextBegin = 0 /\ pendingValue = 0
        /\ analogInWake = FALSE /\ stopped = FALSE
    BY DEF Init, ADC!AdcInit
  <2>2. /\ isShutdown \in BOOLEAN /\ analogInWake \in BOOLEAN
        /\ stopped \in BOOLEAN
    BY <2>1 DEF Init
  <2>3. /\ sum \in Nat /\ currentSample \in 0 .. SampleCount - 1
        /\ invalidCount \in 0 .. RangeCheckCount
        /\ pendingValue \in 0 .. SumRange - 1
    BY <2>1, Counts
  <2>4. ADC!AdcTypeOK
    BY <1>1, <2>1, <2>2, <2>3, AdcSame DEF ADC!AdcTypeOK
  <2>5. QED BY <2>1, <2>2, <2>4 DEF AdcPart, SamplingStops
<1>3. PwmPart
  BY <1>1, Counts, PwmSame DEF Init, PwmPart, PWM!PwmTypeOK, PWM!PwmInit
<1>4. PinPart
  <2>1. /\ level = [p \in {Valve} |-> FALSE] /\ on = level
        /\ toggling = [p \in {Valve} |-> FALSE] /\ checkEnd = toggling
        /\ shut = toggling
        /\ handler = [p \in {Valve} |-> "load"]
        /\ onDuration = [p \in {Valve} |-> 0]
        /\ offDuration = onDuration /\ cycleTime = onDuration
        /\ endTime = onDuration
        /\ pulse = [p \in {Valve} |-> GPIO!NoPulse]
    BY DEF Init, GPIO!Init
  <2>2. 0 \in GPIO!Durations /\ "load" \in GPIO!Handlers
    BY DEF GPIO!Durations, GPIO!Handlers
  <2>3. QED BY <1>1, <2>1, <2>2 DEF PinPart
<1>5. EndPart
  <2>1. /\ sync = FALSE /\ oversampling = FALSE /\ triggered = FALSE
        /\ triggerCount = 0 /\ hits = 0
    BY DEF Init
  <2>2. sync \in BOOLEAN /\ oversampling \in BOOLEAN /\ triggered \in BOOLEAN
    BY <2>1
  <2>3. triggerCount \in 0 .. EndSampleCount /\ hits \in Nat
    BY <2>1, Counts
  <2>4. QED BY <2>1, <2>2, <2>3 DEF EndPart
<1>6. DriverPart
  BY DEF Init, DriverPart, DRV!DriverTypeOK, DRV!DriverInit
<1>7. StatePart
  BY DEF Init, StatePart
<1>8. QED BY <1>2, <1>3, <1>4, <1>5, <1>6, <1>7 DEF Parts

(* What a step of the analog input does to its own state.                  *)
LEMMA QueryPart ==
  ASSUME AdcPart, NEW w \in Ticks, ADC!Query(w) \/ ADC!QueryNone,
         UNCHANGED isShutdown
  PROVE  AdcPart'
<1>1. /\ adcState' \in {"ready", "sampling"} /\ sum' = 0 /\ currentSample' = 0
      /\ invalidCount' = 0 /\ nextBegin' \in {0, w} /\ stopped' = FALSE
      /\ UNCHANGED <<pendingValue, analogInWake>>
  BY DEF ADC!Query, ADC!QueryNone
<1>2. 0 \in 0 .. SampleCount - 1 /\ 0 \in 0 .. RangeCheckCount /\ 0 \in Nat
      /\ 0 \in Ticks
  BY Counts, ZeroIsTick
<1>3. ADC!AdcTypeOK'
  <2>1. analogInWake' \in BOOLEAN /\ stopped' \in BOOLEAN
    BY <1>1 DEF AdcPart, ADC!AdcTypeOK
  <2>2. QED BY <1>1, <1>2, <2>1, AdcSame DEF AdcPart, ADC!AdcTypeOK
<1>4. isShutdown' \in BOOLEAN
  BY DEF AdcPart
<1>5. SamplingStops'
  BY <1>1 DEF SamplingStops
<1>6. QED BY <1>1, <1>3, <1>4, <1>5 DEF AdcPart

(* Readings that are not the last of their sum, or do not come.            *)
LEMMA SamplePart ==
  ASSUME AdcPart, UNCHANGED isShutdown,
         \/ ADC!SampleNothing \/ ADC!SampleFails \/ ADC!AnalogInTask
         \/ \E v \in Raw : ADC!Sample(v)
  PROVE  AdcPart'
<1>1. /\ ADC!AdcTypeOK /\ isShutdown' = isShutdown
      /\ adcState = "sampling" => invalidCount = 0 /\ ~stopped
      /\ 0 \in 0 .. SampleCount - 1 /\ 0 \in Ticks
  BY Counts, ZeroIsTick DEF AdcPart, SamplingStops
<1>2. CASE ADC!SampleNothing
  BY <1>2, AdcKept DEF ADC!SampleNothing, ADC!adcVars, adcVars
<1>3. CASE ADC!SampleFails
  <2>1. /\ adcState' = "ready" /\ sum' = 0 /\ currentSample' = 0 /\ nextBegin' = 0
        /\ UNCHANGED <<invalidCount, pendingValue, analogInWake, stopped>>
    BY <1>3 DEF ADC!SampleFails
  <2>2. ADC!AdcTypeOK'
    BY <1>1, <2>1, AdcSame DEF ADC!AdcTypeOK
  <2>3. SamplingStops'
    BY <2>1 DEF SamplingStops
  <2>4. QED BY <1>1, <2>1, <2>2, <2>3 DEF AdcPart
<1>4. CASE ADC!AnalogInTask
  <2>1. /\ analogInWake' = FALSE
        /\ UNCHANGED <<sum, currentSample, invalidCount, pendingValue, stopped>>
        /\ \/ adcState = "pending" /\ adcState' = "ready" /\ nextBegin' = 0
           \/ adcState' = adcState /\ nextBegin' = nextBegin
    BY <1>4 DEF ADC!AnalogInTask
  <2>2. analogInWake' \in BOOLEAN
    BY <2>1
  <2>3. ADC!AdcTypeOK'
    BY <1>1, <2>1, <2>2, AdcSame DEF ADC!AdcTypeOK
  <2>4. adcState' = "sampling" => adcState = "sampling"
    BY <2>1
  <2>5. SamplingStops'
    BY <2>1 DEF AdcPart, SamplingStops, ADC!OutOfRange
  <2>6. QED BY <1>1, <2>1, <2>3, <2>4, <2>5 DEF AdcPart
<1>5. ASSUME NEW v \in Raw, ADC!Sample(v) PROVE AdcPart'
  <2>1. /\ adcState = "sampling" /\ currentSample + 1 < SampleCount
        /\ sum' = sum + v /\ currentSample' = currentSample + 1
        /\ UNCHANGED <<adcState, invalidCount, nextBegin, pendingValue,
                       analogInWake, stopped>>
    BY <1>5 DEF ADC!Sample
  <2>2. sum' \in Nat /\ currentSample' \in 0 .. SampleCount - 1
    <3>1. sum \in Nat /\ currentSample \in 0 .. SampleCount - 1 /\ v \in Nat
      BY <1>1, Counts DEF ADC!AdcTypeOK
    <3>2. QED BY <2>1, <3>1, Counts
  <2>3. ADC!AdcTypeOK'
    BY <1>1, <2>1, <2>2, AdcSame DEF ADC!AdcTypeOK
  <2>4. SamplingStops'
    BY <1>1, <2>1 DEF SamplingStops
  <2>5. QED BY <1>1, <2>1, <2>3, <2>4 DEF AdcPart
<1>6. QED BY <1>2, <1>3, <1>4, <1>5

(* The last reading of a sum, the first one since the query.               *)
LEMMA LastSamplePart ==
  ASSUME AdcPart, NEW v \in Raw, NEW from, ADC!LastSample(v, from),
         isShutdown' = TRUE \/ UNCHANGED isShutdown
  PROVE  AdcPart'
<1> DEFINE s == ADC!Sum16(v)
           Out == ADC!OutOfRange(s)
           Trip == ADC!Trips(s)
<1>1. /\ ADC!AdcTypeOK
      /\ adcState = "sampling" /\ adcState' = "pending"
      /\ sum' = 0 /\ currentSample' = 0
      /\ pendingValue' = s /\ analogInWake' = TRUE
      /\ nextBegin' = ClockAdd(nextBegin, RestTicks)
      /\ invalidCount' = IF Out /\ ~Trip THEN invalidCount + 1 ELSE 0
      /\ stopped' = (stopped \/ Trip)
  BY AdcSame DEF ADC!LastSample, AdcPart
<1>2. /\ sum \in Nat /\ nextBegin \in Ticks /\ v \in Nat
      /\ invalidCount = 0 /\ ~stopped
  BY <1>1, Counts, AdcSame DEF ADC!AdcTypeOK, AdcPart, SamplingStops
<1>3. s \in 0 .. SumRange - 1
  BY <1>2, Counts DEF ADC!Sum16
<1>4. nextBegin' \in Ticks
  BY <1>1, <1>2, Delays, ClockAddType
<1>5. Trip <=> RangeCheckCount <= 1 /\ Out
  BY <1>2, Counts DEF ADC!Trips
<1>6. Trip \in BOOLEAN /\ Out \in BOOLEAN
  BY Zenon DEF ADC!Trips, ADC!OutOfRange
<1>7. ADC!OutOfRange(pendingValue') = Out
  BY <1>1
<1> HIDE DEF s, Out, Trip
<1>8. (stopped' <=> Trip) /\ stopped' \in BOOLEAN
  BY <1>1, <1>2, <1>6
<1>9. invalidCount' \in 0 .. RangeCheckCount
  BY <1>1, <1>2, <1>5, Counts
<1>10. 0 \in 0 .. SampleCount - 1 /\ 0 \in Nat
  BY Counts
<1>11. ADC!AdcTypeOK'
  <2>1. analogInWake' \in BOOLEAN
    BY <1>1
  <2>2. QED
    BY <1>1, <1>3, <1>4, <1>8, <1>9, <1>10, <2>1, AdcSame DEF ADC!AdcTypeOK
<1>12. SamplingStops'
  BY <1>1, <1>5, <1>7, <1>8 DEF SamplingStops
<1>13. isShutdown' \in BOOLEAN
  BY DEF AdcPart
<1>14. QED BY <1>1, <1>11, <1>12, <1>13 DEF AdcPart

(* A shutdown forgets what was sampled.                                    *)
LEMMA StopPart ==
  ASSUME AdcPart, ADC!StopSampling, isShutdown' = TRUE
  PROVE  AdcPart'
<1>1. /\ ADC!AdcTypeOK /\ adcState' = "ready" /\ pendingValue' = 0
      /\ sum' = 0 /\ currentSample' = 0 /\ nextBegin' = 0 /\ stopped' = TRUE
      /\ UNCHANGED <<invalidCount, analogInWake>>
  BY DEF AdcPart, ADC!StopSampling
<1>2. /\ 0 \in 0 .. SampleCount - 1 /\ 0 \in Nat /\ 0 \in Ticks
      /\ 0 \in 0 .. SumRange - 1
  BY Counts, ZeroIsTick
<1>3. stopped' \in BOOLEAN /\ isShutdown' \in BOOLEAN
  BY <1>1
<1>4. ADC!AdcTypeOK'
  BY <1>1, <1>2, <1>3, AdcSame DEF ADC!AdcTypeOK
<1>5. SamplingStops'
  BY <1>1 DEF SamplingStops
<1>6. QED BY <1>1, <1>3, <1>4, <1>5 DEF AdcPart

LEMMA ClearPart ==
  ASSUME AdcPart, isShutdown' = FALSE, UNCHANGED adcVars
  PROVE  AdcPart'
<1>1. isShutdown' \in BOOLEAN
  OBVIOUS
<1>2. ADC!AdcTypeOK'
  BY AdcSame DEF AdcPart, ADC!AdcTypeOK, adcVars
<1>3. SamplingStops' /\ (adcState' = "sampling" => invalidCount' = 0)
  BY DEF AdcPart, SamplingStops, ADC!OutOfRange, adcVars
<1>4. QED BY <1>1, <1>2, <1>3 DEF AdcPart

-----------------------------------------------------------------------------
(* The same for the others.                                                *)

LEMMA PwmStepPart ==
  ASSUME PwmPart,
         \/ \E w \in Ticks, value \in PwmValues : PWM!QueuePWM(w, value)
         \/ \E value \in PwmValues : PWM!SetPWM(value)
         \/ PWM!LoadPWM \/ PWM!EndPWM
  PROVE  PwmPart'
<1>1. PWM!PwmTypeOK /\ PwmDefault \in PwmValues /\ 0 \in Ticks
  BY Counts, ZeroIsTick DEF PwmPart
<1>2. ASSUME NEW w \in Ticks, NEW value \in PwmValues, PWM!QueuePWM(w, value)
      PROVE  PwmPart'
  <2>1. /\ pwmValue' = value /\ duty' = duty /\ pwmHandler' = "load"
        /\ pwmCheckEnd' = (value # PwmDefault)
        /\ pwmEnd' = IF pwmCheckEnd' THEN ClockAdd(w, MaxPwmDuration) ELSE 0
    BY <1>2, PwmSame DEF PWM!QueuePWM
  <2>2. pwmEnd' \in Ticks
    BY <1>1, <2>1, Delays, ClockAddType
  <2>3. pwmCheckEnd' \in BOOLEAN
    BY <2>1
  <2>4. QED BY <1>1, <2>1, <2>2, <2>3, PwmSame DEF PwmPart, PWM!PwmTypeOK
<1>3. ASSUME NEW value \in PwmValues, PWM!SetPWM(value) PROVE PwmPart'
  BY <1>1, <1>3, PwmSame DEF PWM!SetPWM, PwmPart, PWM!PwmTypeOK
<1>4. CASE PWM!LoadPWM
  BY <1>1, <1>4, PwmSame DEF PWM!LoadPWM, PwmPart, PWM!PwmTypeOK
<1>5. CASE PWM!EndPWM
  BY <1>1, <1>5, PwmSame DEF PWM!EndPWM, PwmPart, PWM!PwmTypeOK
<1>6. QED BY <1>2, <1>3, <1>4, <1>5

LEMMA DriverStepPart ==
  ASSUME DriverPart,
         \/ DRV!ConfigDriver \/ DRV!UnregisterDriver \/ DRV!StopPolling
         \/ \E rate \in PollRates : DRV!StartPolling(rate)
         \/ DRV!PollNothing \/ DRV!Poll
  PROVE  DriverPart'
BY DEF DriverPart, DRV!DriverTypeOK, DRV!ConfigDriver, DRV!UnregisterDriver,
       DRV!StopPolling, DRV!StartPolling, DRV!PollNothing, DRV!Poll,
       DRV!driverVars

LEMMA ValveDefaultsOff == GPIO!Default(Valve) = FALSE
<1> DEFINE d == GPIO!Default(Valve)
<1>1. ~d
  BY DEF GPIO!Default
<1>2. (Valve \in {}) \in BOOLEAN
  OBVIOUS
<1>3. d \in BOOLEAN
  BY <1>2, Zenon DEF GPIO!Default
<1> HIDE DEF d
<1>4. d = FALSE
  BY <1>1, <1>3
<1>5. QED BY <1>4 DEF d

LEMMA PinStepPart ==
  ASSUME PinPart,
         \/ \E w \in Ticks, ticks \in {0, 1} : GPIO!Queue(Valve, w, ticks)
         \/ \E value \in BOOLEAN : GPIO!Update(Valve, value)
         \/ GPIO!LoadSets(Valve) \/ GPIO!ToDefaults
  PROVE  PinPart'
<1>1. /\ {level, on, toggling, checkEnd, shut} \subseteq [{Valve} -> BOOLEAN]
      /\ handler \in [{Valve} -> GPIO!Handlers]
      /\ {onDuration, offDuration, cycleTime}
           \subseteq [{Valve} -> GPIO!Durations \intersect Nat]
      /\ endTime \in [{Valve} -> Ticks]
      /\ pulse = [p \in {Valve} |-> GPIO!NoPulse]
      /\ toggling[Valve] = FALSE /\ cycleTime[Valve] = 0
      /\ shut[Valve] = TRUE => level[Valve] = FALSE /\ on[Valve] = FALSE
  BY DEF PinPart
<1>2. {"load", "end"} \subseteq GPIO!Handlers
  BY DEF GPIO!Handlers
<1>3. ASSUME NEW w \in Ticks, NEW ticks \in {0, 1}, GPIO!Queue(Valve, w, ticks)
      PROVE  PinPart'
  <2>1. /\ toggling' = [toggling EXCEPT ![Valve] = FALSE]
        /\ shut' = [shut EXCEPT ![Valve] = FALSE]
        /\ handler' = [handler EXCEPT ![Valve] = "load"]
        /\ UNCHANGED <<level, checkEnd, onDuration, offDuration, cycleTime, endTime,
                       pulse>>
    <3>1. (ticks \in 1 .. cycleTime[Valve] - 1) = FALSE
      BY <1>1
    <3>2. QED BY <1>1, <1>3, <3>1 DEF GPIO!Queue, GPIO!QueueDurations
  <2>2. on' = [on EXCEPT ![Valve] = (ticks > 0)]
    <3>1. toggling'[Valve] = FALSE
      BY <1>1, <2>1
    <3>2. QED BY <1>3, <3>1 DEF GPIO!Queue
  <2>3. on' \in [{Valve} -> BOOLEAN]
    <3>1. (ticks > 0) \in BOOLEAN
      OBVIOUS
    <3> DEFINE b == ticks > 0
    <3> HIDE DEF b
    <3>2. QED BY <1>1, <2>2, <3>1, Zenon DEF b
  <2>4. {toggling', shut'} \subseteq [{Valve} -> BOOLEAN]
    BY <1>1, <2>1
  <2>5. toggling'[Valve] = FALSE /\ shut'[Valve] = FALSE
    BY <1>1, <2>1
  <2>6. QED BY <1>1, <1>2, <2>1, <2>3, <2>4, <2>5 DEF PinPart
<1>4. ASSUME NEW value \in BOOLEAN, GPIO!Update(Valve, value) PROVE PinPart'
  <2>1. /\ level' = [level EXCEPT ![Valve] = value]
        /\ on' = [on EXCEPT ![Valve] = value]
        /\ toggling' = [toggling EXCEPT ![Valve] = FALSE]
        /\ shut' = [shut EXCEPT ![Valve] = FALSE]
        /\ pulse' = [pulse EXCEPT ![Valve] = GPIO!NoPulse]
        /\ UNCHANGED <<checkEnd, handler, onDuration, offDuration, cycleTime, endTime>>
    BY <1>4 DEF GPIO!Update
  <2>2. {level', on', toggling', shut'} \subseteq [{Valve} -> BOOLEAN]
    BY <1>1, <2>1
  <2>3. toggling'[Valve] = FALSE /\ shut'[Valve] = FALSE
    BY <1>1, <2>1
  <2>4. pulse' = pulse
    BY <1>1, <2>1
  <2>5. QED BY <1>1, <2>1, <2>2, <2>3, <2>4 DEF PinPart
<1>5. CASE GPIO!LoadSets(Valve)
  <2>1. /\ level' = [level EXCEPT ![Valve] = on[Valve]]
        /\ handler' = handler \/ handler' = [handler EXCEPT ![Valve] = "end"]
        /\ UNCHANGED <<on, toggling, checkEnd, onDuration, offDuration,
                       cycleTime, endTime, shut, pulse>>
    BY <1>5 DEF GPIO!LoadSets
  <2>2. level' \in [{Valve} -> BOOLEAN] /\ handler' \in [{Valve} -> GPIO!Handlers]
    BY <1>1, <1>2, <2>1
  <2>3. level'[Valve] = on[Valve]
    BY <1>1, <2>1
  <2>4. QED BY <1>1, <2>1, <2>2, <2>3 DEF PinPart
<1>6. CASE GPIO!ToDefaults
  <2>1. /\ level' = [p \in {Valve} |-> GPIO!Default(p)] /\ on' = level'
        /\ toggling' = [p \in {Valve} |-> FALSE] /\ checkEnd' = toggling'
        /\ endTime' = [p \in {Valve} |-> 0] /\ shut' = [p \in {Valve} |-> TRUE]
        /\ pulse' = [p \in {Valve} |-> GPIO!NoPulse]
        /\ UNCHANGED <<handler, onDuration, offDuration, cycleTime>>
    BY <1>6, Zenon DEF GPIO!ToDefaults
  <2>2. level' \in [{Valve} -> BOOLEAN] /\ level'[Valve] = FALSE
    <3>1. GPIO!Default(Valve) \in BOOLEAN
      BY ValveDefaultsOff
    <3>2. level' \in [{Valve} -> BOOLEAN] /\ level'[Valve] = GPIO!Default(Valve)
      BY <2>1, <3>1, Zenon
    <3>3. QED BY <3>2, ValveDefaultsOff, Zenon
  <2>3. QED BY <1>1, <2>1, <2>2, ZeroIsTick DEF PinPart
<1>7. QED BY <1>3, <1>4, <1>5, <1>6

(* Each handler or command of an endstop: the counts begin anew, go on, or *)
(* have come to the end.                                                   *)
CountsAnew ==
  /\ triggerCount' = EndSampleCount /\ hits' = 0 /\ oversampling' = FALSE
  /\ sync' \in {sync, TRUE} /\ triggered' \in {triggered, FALSE}
CountsMiss ==
  /\ ~oversampling /\ hits' = 0
  /\ UNCHANGED <<sync, oversampling, triggerCount, triggered>>
CountsHit ==
  /\ triggerCount > 1 /\ triggerCount' = triggerCount - 1 /\ hits' = hits + 1
  /\ oversampling' = TRUE
  /\ UNCHANGED <<sync, triggered>>
CountsLast ==
  /\ triggerCount = 1 /\ hits' = hits + 1 /\ oversampling' = TRUE
  /\ triggered' = (triggered \/ sync)
  /\ UNCHANGED <<sync, triggerCount>>
CountsStay ==
  /\ sync' \in {sync, FALSE}
  /\ UNCHANGED <<oversampling, triggerCount, triggered, hits>>

CountsStep ==
  CountsAnew \/ CountsMiss \/ CountsHit \/ CountsLast \/ CountsStay

AnalogEndstopActs ==
  \/ \E w \in Ticks : AES!Home(w)
  \/ AES!HomeEnd \/ AES!HomeFails
  \/ AES!LookMiss \/ AES!ConfirmMiss \/ AES!ConfirmHit \/ AES!ConfirmLast
I2CEndstopActs ==
  \/ \E w \in Ticks : IES!Home(w)
  \/ IES!HomeEnd \/ IES!HomeFails \/ IES!Look

LEMMA EndstopCounts ==
  AnalogEndstopActs \/ I2CEndstopActs => CountsStep
<1>1. ASSUME AnalogEndstopActs PROVE CountsStep
  <2>1. ASSUME NEW w \in Ticks, AES!Home(w) PROVE CountsAnew
    BY <2>1 DEF AES!Home, CountsAnew
  <2>2. CASE AES!HomeEnd
    BY <2>2 DEF AES!HomeEnd, CountsStep, CountsStay
  <2>3. CASE AES!HomeFails
    BY <2>3 DEF AES!HomeFails, AES!endstopVars, CountsStep, CountsStay
  <2>4. CASE AES!LookMiss
    BY <2>4 DEF AES!LookMiss, CountsStep, CountsMiss
  <2>5. CASE AES!ConfirmMiss
    BY <2>5 DEF AES!ConfirmMiss, CountsStep, CountsAnew
  <2>6. CASE AES!ConfirmHit
    BY <2>6 DEF AES!ConfirmHit, CountsStep, CountsHit
  <2>7. CASE AES!ConfirmLast
    BY <2>7 DEF AES!ConfirmLast, CountsStep, CountsLast
  <2>8. QED
    BY <1>1, <2>1, <2>2, <2>3, <2>4, <2>5, <2>6, <2>7
    DEF AnalogEndstopActs, CountsStep
<1>2. ASSUME I2CEndstopActs PROVE CountsStep
  <2>1. ASSUME NEW w \in Ticks, IES!Home(w) PROVE CountsAnew
    BY <2>1 DEF IES!Home, CountsAnew
  <2>2. CASE IES!HomeEnd
    BY <2>2 DEF IES!HomeEnd, CountsStep, CountsStay
  <2>3. CASE IES!HomeFails
    BY <2>3 DEF IES!HomeFails, IES!endstopVars, CountsStep, CountsStay
  <2>4. CASE IES!LookMiss
    BY <2>4 DEF IES!LookMiss, CountsStep, CountsMiss
  <2>5. ASSUME NEW d, IES!ConfirmMiss(d) PROVE CountsAnew
    BY <2>5 DEF IES!ConfirmMiss, CountsAnew
  <2>6. ASSUME NEW d, IES!ConfirmHit(d) PROVE CountsHit
    BY <2>6 DEF IES!ConfirmHit, CountsHit
  <2>7. ASSUME NEW d, IES!ConfirmLast(d) PROVE CountsLast
    BY <2>7 DEF IES!ConfirmLast, CountsLast
  <2>8. QED
    BY <1>2, <2>1, <2>2, <2>3, <2>4, <2>5, <2>6, <2>7
    DEF I2CEndstopActs, IES!Look, CountsStep
<1>3. QED BY <1>1, <1>2

(* And an endstop triggers with its last count.                            *)
LEMMA CountsPart ==
  ASSUME EndPart, CountsStep
  PROVE  EndPart' /\ (triggered' /\ ~triggered => hits' = EndSampleCount)
<1>1. /\ sync \in BOOLEAN /\ oversampling \in BOOLEAN /\ triggered \in BOOLEAN
      /\ triggerCount \in 0 .. EndSampleCount /\ hits \in Nat
      /\ EndSampleCount \in Nat \ {0}
      /\ sync /\ ~triggered => Counted
  BY Counts DEF EndPart
<1>2. CASE CountsAnew
  <2>1. sync' \in BOOLEAN /\ oversampling' \in BOOLEAN /\ triggered' \in BOOLEAN
    BY <1>1, <1>2 DEF CountsAnew
  <2>2. triggerCount' \in 0 .. EndSampleCount /\ hits' \in Nat /\ Counted'
    BY <1>1, <1>2 DEF CountsAnew, Counted
  <2>3. ~(triggered' /\ ~triggered)
    BY <1>1, <1>2 DEF CountsAnew
  <2>4. QED BY <2>1, <2>2, <2>3 DEF EndPart
<1>3. CASE CountsMiss
  <2>1. triggerCount' \in 0 .. EndSampleCount /\ hits' \in Nat
    BY <1>1, <1>3 DEF CountsMiss
  <2>2. Counted => Counted'
    BY <1>1, <1>3 DEF CountsMiss, Counted
  <2>3. QED BY <1>1, <1>3, <2>1, <2>2 DEF EndPart, CountsMiss
<1>4. CASE CountsHit
  <2>1. triggerCount' \in 0 .. EndSampleCount /\ hits' \in Nat
    BY <1>1, <1>4 DEF CountsHit
  <2>2. Counted => Counted'
    BY <1>1, <1>4 DEF CountsHit, Counted
  <2>3. oversampling' \in BOOLEAN
    BY <1>4 DEF CountsHit
  <2>4. QED BY <1>1, <1>4, <2>1, <2>2, <2>3 DEF EndPart, CountsHit
<1>5. CASE CountsLast
  <2>1. triggerCount' \in 0 .. EndSampleCount /\ hits' \in Nat
    BY <1>1, <1>5 DEF CountsLast
  <2>2. oversampling' \in BOOLEAN /\ triggered' \in BOOLEAN
    BY <1>1, <1>5 DEF CountsLast
  <2>3. Counted => hits' = EndSampleCount
    BY <1>1, <1>5 DEF CountsLast, Counted
  <2>4. triggered' <=> triggered \/ sync
    BY <1>5 DEF CountsLast
  <2>5. QED BY <1>1, <1>5, <2>1, <2>2, <2>3, <2>4 DEF EndPart, CountsLast
<1>6. CASE CountsStay
  <2>1. sync' \in BOOLEAN /\ (sync' => sync)
    <3>1. sync' = sync \/ sync' = FALSE
      BY <1>6 DEF CountsStay
    <3>2. CASE sync' = sync
      BY <1>1, <3>2
    <3>3. CASE sync' = FALSE
      <4>1. sync' \in BOOLEAN
        BY <3>3
      <4>2. QED BY <3>3, <4>1
    <3>4. QED BY <3>1, <3>2, <3>3
  <2>2. Counted => Counted'
    BY <1>6 DEF CountsStay, Counted
  <2>3. QED BY <1>1, <1>6, <2>1, <2>2 DEF EndPart, CountsStay
<1>7. QED BY <1>2, <1>3, <1>4, <1>5, <1>6 DEF CountsStep

-----------------------------------------------------------------------------
(* And for the whole: a shutdown, then the components one by one.          *)

LEMMA ShutDownParts ==
  ASSUME Parts, ShutDown,
         \/ ADC!StopSampling
         \/ \E v \in Raw : ADC!LastSample(v, Cut(PopHead(list), Stopped))
  PROVE  Parts' /\ ~(triggered' /\ ~triggered)
<1>1. /\ isShutdown' = TRUE /\ i2cReady' = FALSE /\ GPIO!ToDefaults
      /\ UNCHANGED <<pwmVars, endstopVars, driverVars, fitted>>
  BY DEF ShutDown
<1>2. AdcPart'
  BY <1>1, StopPart, LastSamplePart DEF Parts
<1>3. PinPart'
  BY <1>1, PinStepPart DEF Parts
<1>4. PwmPart' /\ EndPart' /\ DriverPart'
  BY <1>1, PwmKept, EndKept, DriverKept DEF Parts
<1>5. i2cReady' \in BOOLEAN
  BY <1>1
<1>6. StatePart'
  BY <1>1, <1>5 DEF Parts, StatePart
<1>7. triggered' = triggered
  BY <1>1 DEF endstopVars
<1>8. QED BY <1>2, <1>3, <1>4, <1>6, <1>7 DEF Parts

LEMMA AdcParts ==
  ASSUME Parts, AdcCommand \/ AnalogInTask \/ AdcHandler
  PROVE  Parts' /\ ~(triggered' /\ ~triggered)
<1>1. UNCHANGED <<pwmVars, pinVars, endstopVars, driverVars, i2cReady,
                  isShutdown, fitted>>
  BY DEF AdcCommand, AnalogInTask, AdcHandler, stateVars
<1>2. AdcPart'
  <2>1. CASE AdcCommand
    <3>1. \E w \in Ticks : ADC!Query(w) \/ ADC!QueryNone
      BY <2>1, ZeroIsTick DEF AdcCommand
    <3>2. QED BY <1>1, <3>1, QueryPart DEF Parts
  <2>2. CASE AnalogInTask
    BY <1>1, <2>2, SamplePart DEF AnalogInTask, Parts
  <2>3. CASE AdcHandler
    BY <1>1, <2>3, SamplePart, LastSamplePart DEF AdcHandler, Parts
  <2>4. QED BY <2>1, <2>2, <2>3
<1>3. PwmPart' /\ PinPart' /\ EndPart' /\ DriverPart'
  BY <1>1, PwmKept, PinKept, EndKept, DriverKept DEF Parts
<1>4. StatePart'
  BY <1>1 DEF Parts, StatePart
<1>5. triggered' = triggered
  BY <1>1 DEF endstopVars
<1>6. QED BY <1>2, <1>3, <1>4, <1>5 DEF Parts

LEMMA OutputParts ==
  ASSUME Parts, PwmStep \/ GpioStep
  PROVE  Parts' /\ ~(triggered' /\ ~triggered)
<1>1. UNCHANGED <<adcVars, endstopVars, driverVars, stateVars, fitted>>
  BY DEF PwmStep, GpioStep
<1>2. AdcPart' /\ EndPart' /\ DriverPart'
  BY <1>1, AdcKept, EndKept, DriverKept DEF Parts, stateVars
<1>3. PwmPart' /\ PinPart'
  <2>1. CASE PwmStep
    BY <2>1, PwmStepPart, PinKept DEF PwmStep, Parts
  <2>2. CASE GpioStep
    BY <2>2, PinStepPart, PwmKept DEF GpioStep, Parts
  <2>3. QED BY <2>1, <2>2
<1>4. StatePart'
  BY <1>1 DEF Parts, StatePart, stateVars
<1>5. triggered' = triggered
  BY <1>1 DEF endstopVars
<1>6. QED BY <1>2, <1>3, <1>4, <1>5 DEF Parts

LEMMA EndstopParts ==
  ASSUME Parts, AnalogEndstopStep \/ I2CEndstopStep
  PROVE  Parts' /\ (triggered' /\ ~triggered => hits' = EndSampleCount)
<1>1. /\ AnalogEndstopActs \/ I2CEndstopActs
      /\ UNCHANGED <<adcVars, pwmVars, pinVars, driverVars, stateVars, fitted>>
  BY DEF AnalogEndstopStep, I2CEndstopStep, AnalogEndstopActs, I2CEndstopActs
<1>2. AdcPart' /\ PwmPart' /\ PinPart' /\ DriverPart'
  BY <1>1, AdcKept, PwmKept, PinKept, DriverKept DEF Parts, stateVars
<1>3. EndPart' /\ (triggered' /\ ~triggered => hits' = EndSampleCount)
  BY <1>1, EndstopCounts, CountsPart DEF Parts
<1>4. StatePart'
  BY <1>1 DEF Parts, StatePart, stateVars
<1>5. QED BY <1>2, <1>3, <1>4 DEF Parts

LEMMA DriverParts ==
  ASSUME Parts, DriverStep
  PROVE  Parts' /\ ~(triggered' /\ ~triggered)
<1>1. UNCHANGED <<adcVars, pwmVars, pinVars, endstopVars, stateVars, fitted>>
  BY DEF DriverStep
<1>2. AdcPart' /\ PwmPart' /\ PinPart' /\ EndPart'
  BY <1>1, AdcKept, PwmKept, PinKept, EndKept DEF Parts, stateVars
<1>3. DriverPart'
  BY DriverStepPart DEF Parts, DriverStep
<1>4. StatePart'
  BY <1>1 DEF Parts, StatePart, stateVars
<1>5. triggered' = triggered
  BY <1>1 DEF endstopVars
<1>6. QED BY <1>2, <1>3, <1>4, <1>5 DEF Parts

LEMMA NextParts ==
  ASSUME Parts, [Next]_vars
  PROVE  Parts' /\ (triggered' /\ ~triggered => hits' = EndSampleCount)
<1>1. CASE EmergencyStop \/ I2CFails \/ AdcTrips
  BY <1>1, ShutDownParts DEF EmergencyStop, I2CFails, AdcTrips
<1>2. CASE ClearShutdown
  <2>1. /\ isShutdown' = FALSE
        /\ UNCHANGED <<adcVars, pwmVars, pinVars, endstopVars, driverVars,
                       i2cReady, fitted>>
    BY <1>2 DEF ClearShutdown
  <2>2. AdcPart' /\ PwmPart' /\ PinPart' /\ EndPart' /\ DriverPart'
    BY <2>1, ClearPart, PwmKept, PinKept, EndKept, DriverKept DEF Parts
  <2>3. StatePart' /\ triggered' = triggered
    BY <2>1 DEF Parts, StatePart, endstopVars
  <2>4. QED BY <2>2, <2>3 DEF Parts
<1>3. CASE I2CSetBus
  <2>1. /\ i2cReady' = TRUE
        /\ UNCHANGED <<adcVars, pwmVars, pinVars, endstopVars, driverVars,
                       isShutdown, fitted>>
    BY <1>3 DEF I2CSetBus
  <2>2. AdcPart' /\ PwmPart' /\ PinPart' /\ EndPart' /\ DriverPart'
    BY <2>1, AdcKept, PwmKept, PinKept, EndKept, DriverKept DEF Parts
  <2>3. i2cReady' \in BOOLEAN
    BY <2>1
  <2>4. StatePart' /\ triggered' = triggered
    BY <2>1, <2>3 DEF Parts, StatePart, endstopVars
  <2>5. QED BY <2>2, <2>4 DEF Parts
<1>4. CASE AdcCommand \/ AnalogInTask \/ AdcHandler
  BY <1>4, AdcParts
<1>5. CASE PwmStep \/ GpioStep
  BY <1>5, OutputParts
<1>6. CASE AnalogEndstopStep \/ I2CEndstopStep
  BY <1>6, EndstopParts
<1>7. CASE DriverStep
  BY <1>7, DriverParts
<1>8. ASSUME UNCHANGED <<adcVars, pwmVars, pinVars, endstopVars, driverVars,
                         stateVars, fitted>>
      PROVE  Parts' /\ ~(triggered' /\ ~triggered)
  <2>1. AdcPart' /\ PwmPart' /\ PinPart' /\ EndPart' /\ DriverPart'
    BY <1>8, AdcKept, PwmKept, PinKept, EndKept, DriverKept DEF Parts, stateVars
  <2>2. StatePart' /\ triggered' = triggered
    BY <1>8 DEF Parts, StatePart, endstopVars, stateVars
  <2>3. QED BY <2>1, <2>2 DEF Parts
<1>9. QED
  BY <1>1, <1>2, <1>3, <1>4, <1>5, <1>6, <1>7, <1>8 DEF Next, vars

LEMMA AlwaysParts == Spec => []Parts
<1>1. Init => Parts
  BY InitParts
<1>2. Parts /\ [Next]_vars => Parts'
  BY NextParts
<1>3. QED BY <1>1, <1>2, PTL DEF Spec

(* After a shutdown, by command, by a failed transfer or inside the        *)
(* dispatch by a sum out of range, the output stays at its default until   *)
(* the host commands it, whatever its timer still does and however the     *)
(* host schedules (commands.go:210-233, gpio.go:410-427).                  *)
THEOREM ShutdownAlwaysHolds == Spec => []ShutdownHolds
<1>1. ASSUME PinPart PROVE ShutdownHolds
  <2>1. shut[Valve] => level[Valve] = FALSE
    <3>1. shut \in [{Valve} -> BOOLEAN]
      BY <1>1 DEF PinPart
    <3>2. shut[Valve] => shut[Valve] = TRUE
      BY <3>1
    <3>3. QED BY <1>1, <3>2 DEF PinPart
  <2>2. shut[Valve] => level[Valve] = GPIO!Default(Valve)
    BY <2>1, ValveDefaultsOff, Zenon
  <2>3. QED BY <2>2, Zenon DEF ShutdownHolds, GPIO!ShutdownHolds
<1>2. QED BY <1>1, AlwaysParts, PTL DEF Parts

(* Once stopped an input takes no sample until it is queried and reports   *)
(* at most the sum that stopped it; and a sum out of range stops the       *)
(* machine exactly when the host asked for at most one, whatever is        *)
(* sampled and whenever the host starts, stops and clears                  *)
(* (adc.go:269-332, 340-358, commands.go:209-233).                         *)
THEOREM SamplingAlwaysStops == Spec => []SamplingStops
<1>1. AdcPart => SamplingStops
  BY DEF AdcPart
<1>2. QED BY <1>1, AlwaysParts, PTL DEF Parts

(* No endstop triggers before as many looks in a row held as the homing    *)
(* asked for, analog or I2C, whatever comes between (endstop_analog.go:    *)
(* 235-290, endstop_i2c.go:383-427).                                       *)
THEOREM ReadingsBeforeTrigger == Spec => TriggerNeedsReadings
<1>1. Parts /\ [Next]_vars => [triggered' /\ ~triggered => hits' = EndSampleCount]_vars
  BY NextParts
<1>2. QED BY <1>1, AlwaysParts, PTL DEF Spec, TriggerNeedsReadings

-----------------------------------------------------------------------------
(* The list, for a host that schedules no timer the list leads to.         *)

OnTime == Reached(list) \union lost

Timed ==
  /\ TimersTypeOK /\ Whole(list) /\ hung = FALSE
  /\ lost \subseteq Timers /\ lost \intersect Reached(list) = {}

(* What a step does with the timers but those of ts: it cuts some off,     *)
(* which are then lost.                                                    *)
Moves(ts) ==
  /\ Timed'
  /\ OnTime \ ts \subseteq OnTime'
  /\ Reached(list)' \ ts \subseteq Reached(list)

Links(t) == Moves({t}) /\ t \in Reached(list)'
Unlinks(t) == Moves({t}) /\ t \notin Reached(list)'
Trims == Moves({})

(* Only the timer t of a command or of the running handler is spared.      *)
LEMMA TrackMoves ==
  ASSUME Timed, TimersTypeOK', Whole(list'), hung' = FALSE, Track,
         NEW ts, dispatching => list.head \in ts,
         Reached(list') \ ts \subseteq Reached(list)
  PROVE  Moves(ts)
<1> DEFINE R == Reached(list)
           S == Reached(list')
           H == IF dispatching THEN {list.head} ELSE {}
<1>1. lost' = ((lost \union R) \ S) \ H /\ H \subseteq ts
  BY DEF Track
<1>2. R \subseteq Timers /\ lost \subseteq Timers
  BY DEF Reached, Timed
<1>3. S \ ts \subseteq R
  OBVIOUS
<1> HIDE DEF R, S, H
<1>4. lost' \subseteq Timers /\ lost' \intersect S = {}
  BY <1>1, <1>2
<1>5. (R \union lost) \ ts \subseteq S \union lost'
  BY <1>1
<1>6. QED BY <1>3, <1>4, <1>5 DEF Moves, Timed, OnTime, R, S

LEMMA InsertMoves ==
  ASSUME Timed, NEW from, Whole(from), Reached(from) \subseteq Reached(list),
         NEW t \in Timers, t \notin Reached(from), dispatching => list.head = t,
         NEW w \in [Timers -> Ticks], Insert(from, w, t), Track,
         UNCHANGED <<now, dispatching>>
  PROVE  Links(t)
<1>1. /\ ~InsertHangs(from, w, t) /\ Whole(InsertTimer(from, w, t))
      /\ Reached(InsertTimer(from, w, t)) = Reached(from) \union {t}
  BY InsertReaches
<1>2. /\ wake' = w /\ hung' = InsertHangs(from, w, t)
      /\ list' = IF hung' THEN from ELSE InsertTimer(from, w, t)
  BY DEF Insert
<1>3. hung' = FALSE
  <2>1. InsertHangs(from, w, t) \in BOOLEAN
    BY Zenon DEF InsertHangs
  <2> DEFINE h == InsertHangs(from, w, t)
  <2>2. h \in BOOLEAN /\ ~h /\ hung' = h
    BY <1>1, <1>2, <2>1
  <2> HIDE DEF h
  <2>3. QED BY <2>2
<1>4. list' = InsertTimer(from, w, t)
  BY <1>2, <1>3
<1>5. Whole(list') /\ Reached(list') = Reached(from) \union {t}
  BY <1>1, <1>4
<1>6. hung' \in BOOLEAN
  BY <1>3
<1>7. TimersTypeOK'
  BY <1>2, <1>5, <1>6 DEF Timed, TimersTypeOK, Whole
<1>8. Moves({t})
  <2>1. Reached(list') \ {t} \subseteq Reached(list)
    BY <1>5
  <2>2. dispatching => list.head \in {t}
    OBVIOUS
  <2>3. QED BY <1>3, <1>5, <1>7, <2>1, <2>2, TrackMoves
<1>9. QED BY <1>5, <1>8 DEF Links

(* Commands.                                                               *)
LEMMA CommandSchedules ==
  ASSUME Timed, InLoop, NEW t \in Timers, t \notin Reached(list),
         NEW w \in Ticks,
         \/ Insert(Cut(list, {t}), [wake EXCEPT ![t] = w], t)
         \/ Insert(list, [wake EXCEPT ![t] = w], t),
         Track, UNCHANGED <<now, dispatching>>
  PROVE  Links(t)
<1>1. /\ Whole(Cut(list, {t})) /\ Reached(Cut(list, {t})) = Reached(list)
  <2>1. Whole(list) /\ {t} \intersect Reached(list) = {}
    BY DEF Timed
  <2>2. QED BY <2>1, CutReaches
<1>2. Whole(list) /\ ~dispatching
  BY DEF Timed, InLoop
<1> DEFINE v == [wake EXCEPT ![t] = w]
<1>3. v \in [Timers -> Ticks]
  BY DEF Timed, TimersTypeOK
<1> HIDE DEF v
<1>4. CASE Insert(Cut(list, {t}), v, t)
  BY <1>1, <1>2, <1>3, <1>4, InsertMoves
<1>5. CASE Insert(list, v, t)
  BY <1>2, <1>3, <1>5, InsertMoves
<1>6. QED BY <1>4, <1>5 DEF v

LEMMA CommandCuts ==
  ASSUME Timed, InLoop, NEW ts, list' = Cut(list, ts) \/ list' = list,
         Track, UNCHANGED <<wake, now, dispatching, hung>>
  PROVE  Trims
<1>1. Whole(list) /\ ~dispatching /\ hung' = FALSE
  BY DEF Timed, InLoop
<1>2. Whole(list') /\ Reached(list') \subseteq Reached(list)
  <2>1. Whole(Cut(list, ts)) /\ Reached(Cut(list, ts)) \subseteq Reached(list)
    BY <1>1, CutReaches
  <2>2. QED BY <1>1, <2>1
<1>3. TimersTypeOK'
  BY <1>2 DEF Timed, TimersTypeOK, Whole
<1>4. Reached(list') \ {} \subseteq Reached(list)
  BY <1>2
<1>5. QED BY <1>1, <1>2, <1>3, <1>4, TrackMoves DEF Trims

(* Steps that leave the list and the timers alone.                         *)
LEMMA NothingMoves ==
  ASSUME Timed, TimerStep \/ UNCHANGED timerVars, UNCHANGED lost
  PROVE  Trims
<1>1. UNCHANGED <<list, wake, hung>>
  BY DEF TimerStep, Tick, ProcessTimers, DispatchReturn, timerVars
<1>2. now' \in Ticks
  <2>1. now' = now \/ now' = ClockAdd(now, 1)
    BY DEF TimerStep, Tick, ProcessTimers, DispatchReturn, timerVars
  <2>2. now \in Ticks
    BY DEF Timed, TimersTypeOK
  <2>3. ClockAdd(now, 1) \in Ticks
    BY <2>2, TimerListAssumption DEF ClockAdd, Ticks, ClockRange
  <2>4. QED BY <2>1, <2>2, <2>3
<1>3. dispatching' \in BOOLEAN
  <2>1. dispatching' = dispatching \/ dispatching' = TRUE \/ dispatching' = FALSE
    BY DEF TimerStep, Tick, ProcessTimers, DispatchReturn, timerVars
  <2>2. QED BY <2>1 DEF Timed, TimersTypeOK
<1>4. Timed'
  BY <1>1, <1>2, <1>3 DEF Timed, TimersTypeOK
<1>5. QED BY <1>1, <1>4 DEF Trims, Moves, OnTime

(* Handlers.                                                               *)
LEMMA Fired ==
  ASSUME Timed, NEW t \in Timers, Fires(t)
  PROVE  /\ list.head = t /\ Whole(PopHead(list)) /\ t \in Reached(list)
         /\ Reached(PopHead(list)) = Reached(list) \ {t}
         /\ dispatching /\ UNCHANGED <<now, dispatching>>
<1>1. list.head = t /\ dispatching /\ UNCHANGED <<now, dispatching>>
  BY DEF Fires
<1>2. list.head # Nil
  BY <1>1, TimerListAssumption
<1>3. QED BY <1>1, <1>2, PopReaches DEF Timed

LEMMA HandlerReschedules ==
  ASSUME Timed, NEW t \in Timers, Fires(t), NEW w \in Ticks,
         \/ Reschedule(t, w)
         \/ \E ts : Insert(Cut(PopHead(list), ts), [wake EXCEPT ![t] = w], t),
         Track
  PROVE  Links(t)
<1>1. /\ list.head = t /\ Whole(PopHead(list))
      /\ Reached(PopHead(list)) = Reached(list) \ {t}
      /\ dispatching /\ UNCHANGED <<now, dispatching>>
  BY Fired
<1> DEFINE v == [wake EXCEPT ![t] = w]
<1>2. v \in [Timers -> Ticks]
  BY DEF Timed, TimersTypeOK
<1>3. \E from : /\ Whole(from) /\ Reached(from) \subseteq Reached(list) \ {t}
               /\ Insert(from, v, t)
  <2>1. CASE Reschedule(t, w)
    BY <1>1, <2>1 DEF Reschedule
  <2>2. ASSUME NEW ts, Insert(Cut(PopHead(list), ts), v, t)
        PROVE  \E from : /\ Whole(from) /\ Reached(from) \subseteq Reached(list) \ {t}
                        /\ Insert(from, v, t)
    <3>1. /\ Whole(Cut(PopHead(list), ts))
          /\ Reached(Cut(PopHead(list), ts)) \subseteq Reached(PopHead(list))
      BY <1>1, CutReaches
    <3>2. Reached(Cut(PopHead(list), ts)) \subseteq Reached(list) \ {t}
      BY <1>1, <3>1
    <3>3. QED BY <2>2, <3>1, <3>2
  <2>3. QED BY <2>1, <2>2
<1> HIDE DEF v
<1>4. PICK from : /\ Whole(from) /\ Reached(from) \subseteq Reached(list) \ {t}
                  /\ Insert(from, v, t)
  BY <1>3
<1>5. Reached(from) \subseteq Reached(list) /\ t \notin Reached(from)
  BY <1>4
<1>6. QED BY <1>1, <1>2, <1>4, <1>5, InsertMoves

LEMMA HandlerDone ==
  ASSUME Timed, NEW t \in Timers, Fires(t), Done(t), Track
  PROVE  Unlinks(t)
<1>1. /\ list.head = t /\ Whole(PopHead(list))
      /\ Reached(PopHead(list)) = Reached(list) \ {t}
      /\ dispatching /\ UNCHANGED <<now, dispatching>>
  BY Fired
<1>2. /\ list' = PopHead(list) /\ hung' = FALSE
      /\ wake' = wake \/ wake' = [wake EXCEPT ![t] = 0]
  BY DEF Done, Timed
<1>3. wake' \in [Timers -> Ticks]
  BY <1>2, ZeroIsTick DEF Timed, TimersTypeOK
<1>4. hung' \in BOOLEAN
  BY <1>2
<1>5. TimersTypeOK'
  BY <1>1, <1>2, <1>3, <1>4 DEF Timed, TimersTypeOK, Whole
<1>6. Reached(list') = Reached(list) \ {t} /\ Whole(list')
  BY <1>1, <1>2
<1>7. Reached(list') \ {t} \subseteq Reached(list) /\ list.head \in {t}
  BY <1>1, <1>6
<1>8. Moves({t})
  BY <1>2, <1>5, <1>6, <1>7, TrackMoves
<1>9. QED BY <1>6, <1>8 DEF Unlinks

-----------------------------------------------------------------------------
(* What waits for its timer, component by component.                       *)

HasDriver == "driver" \in fitted
HasEndstop == fitted \intersect {"analog endstop", "i2c endstop"} # {}

AdcDuty == adcState = "sampling" => AdcTimer \in OnTime

(* The value kept for the timer to load is watched to its end.             *)
PwmDuty ==
  /\ duty # PwmDefault => PwmTimer \in OnTime
  /\ pwmValue # PwmDefault => pwmCheckEnd

DriverDuty == registered /\ active => HasDriver /\ DriverTimer \in OnTime

(* As long as the list leads to an endstop's timer, what the handler has   *)
(* counted is right, also after the homing has ended.                      *)
EndDuty ==
  /\ sync /\ ~triggered => HasEndstop /\ EndTimer \in OnTime
  /\ HasEndstop /\ EndTimer \in Reached(list) => Counted
  /\ hits <= EndSampleCount
  /\ nextLook \in Ticks

IInv ==
  /\ Parts /\ Timed
  /\ AdcDuty /\ DriverDuty /\ EndDuty
  /\ "set" \notin Careless => PwmDuty

LEMMA FewerMove ==
  ASSUME NEW ts, Trims \/ Links(ts) \/ Unlinks(ts)
  PROVE  Moves({ts})
BY DEF Trims, Links, Unlinks, Moves

LEMMA LinksOnTime ==
  ASSUME NEW t, Links(t)
  PROVE  t \in OnTime'
BY DEF Links, OnTime

LEMMA AdcSpared ==
  ASSUME AdcDuty, NEW ts, Moves(ts), AdcTimer \notin ts, UNCHANGED adcVars
  PROVE  AdcDuty'
BY DEF AdcDuty, Moves, adcVars

LEMMA PwmSpared ==
  ASSUME PwmDuty, NEW ts, Moves(ts), PwmTimer \notin ts, UNCHANGED pwmVars
  PROVE  PwmDuty'
BY DEF PwmDuty, Moves, pwmVars

LEMMA DriverSpared ==
  ASSUME DriverDuty, NEW ts, Moves(ts), HasDriver => DriverTimer \notin ts,
         UNCHANGED <<driverVars, fitted>>
  PROVE  DriverDuty'
BY DEF DriverDuty, HasDriver, Moves, driverVars

LEMMA EndSpared ==
  ASSUME EndDuty, NEW ts, Moves(ts), HasEndstop => EndTimer \notin ts,
         UNCHANGED <<endstopVars, fitted>>
  PROVE  EndDuty'
<1>1. /\ OnTime \ ts \subseteq OnTime' /\ Reached(list)' \ ts \subseteq Reached(list)
  BY DEF Moves
<1>2. /\ UNCHANGED <<sync, triggered, hits, nextLook>>
      /\ HasEndstop' = HasEndstop /\ Counted' = Counted
  BY DEF endstopVars, HasEndstop, Counted
<1>3. sync' /\ ~triggered' => HasEndstop' /\ EndTimer \in OnTime'
  BY <1>1, <1>2 DEF EndDuty
<1>4. HasEndstop' /\ EndTimer \in Reached(list)' => Counted'
  BY <1>1, <1>2 DEF EndDuty
<1>5. hits' <= EndSampleCount /\ nextLook' \in Ticks
  BY <1>2 DEF EndDuty
<1>6. QED BY <1>3, <1>4, <1>5 DEF EndDuty

(* The one timer that may stand for two.                                   *)
LEMMA OneOfThem ==
  ASSUME StatePart, HasDriver, HasEndstop
  PROVE  EndTimer # DriverTimer
<1>1. EndTimer = DriverTimer =>
        \A c \in Configurations : "driver" \in c =>
          c \intersect {"analog endstop", "i2c endstop"} = {}
  BY FirmwareAssumption
<1>2. QED BY <1>1 DEF StatePart, HasDriver, HasEndstop

LEMMA AdcMoves ==
  ASSUME Parts, Timed, AdcDuty, "requeue" \notin Careless,
         AdcCommand \/ AnalogInTask \/ AdcHandler \/ AdcTrips
  PROVE  Moves({AdcTimer}) /\ AdcDuty'
<1>0. AdcTimer \in Timers
  BY SomeTimers
<1>1. CASE AdcCommand
  <2>1. InLoop /\ Track
    BY <1>1 DEF AdcCommand
  <2>2. ASSUME NEW w \in Ticks, Free(AdcTimer), ADC!Query(w)
        PROVE  Moves({AdcTimer}) /\ AdcDuty'
    <3>1. /\ Insert(Cut(list, {AdcTimer}), [wake EXCEPT ![AdcTimer] = w], AdcTimer)
          /\ UNCHANGED <<now, dispatching>>
      BY <2>2, AdcSame DEF ADC!Query
    <3>2. AdcTimer \notin Reached(list)
      BY <2>2 DEF Free
    <3>3. Links(AdcTimer)
      BY <1>0, <2>1, <3>1, <3>2, CommandSchedules
    <3>4. QED BY <3>3, FewerMove, LinksOnTime DEF AdcDuty
  <2>3. CASE ADC!QueryNone
    <3>1. /\ list' = Cut(list, {AdcTimer}) /\ UNCHANGED <<wake, now, dispatching, hung>>
          /\ adcState' = "ready"
      BY <2>3, AdcSame DEF ADC!QueryNone
    <3>2. Trims
      BY <2>1, <3>1, CommandCuts
    <3>3. QED BY <3>1, <3>2, FewerMove DEF AdcDuty
  <2>4. QED BY <1>1, <2>2, <2>3 DEF AdcCommand
<1>2. CASE AnalogInTask
  <2>1. /\ UNCHANGED timerVars /\ UNCHANGED lost
        /\ adcState' = "sampling" => adcState = "sampling"
    BY <1>2 DEF AnalogInTask, ADC!AnalogInTask, ADC!timerVars, timerVars
  <2>2. Trims
    BY <2>1, NothingMoves
  <2>3. AdcDuty'
    BY <2>1, <2>2 DEF AdcDuty, Trims, Moves
  <2>4. QED BY <2>2, <2>3, FewerMove
<1>3. CASE AdcHandler
  <2>1. Track
    BY <1>3 DEF AdcHandler
  <2>2. ASSUME ADC!SampleNothing \/ ADC!SampleFails
        PROVE  Moves({AdcTimer}) /\ AdcDuty'
    <3>1. Fires(AdcTimer) /\ Done(AdcTimer) /\ adcState' # "sampling"
      BY <2>2, AdcSame DEF ADC!SampleNothing, ADC!SampleFails, ADC!adcVars
    <3>2. Unlinks(AdcTimer)
      BY <1>0, <2>1, <3>1, HandlerDone
    <3>3. QED BY <3>1, <3>2, FewerMove DEF AdcDuty
  <2>3. ASSUME NEW v \in Raw, ADC!Sample(v) PROVE Moves({AdcTimer}) /\ AdcDuty'
    <3>1. Fires(AdcTimer) /\ Reschedule(AdcTimer, ClockAdd(now, SampleTicks))
      BY <2>3, AdcSame DEF ADC!Sample
    <3>2. ClockAdd(now, SampleTicks) \in Ticks
      BY Delays, ClockAddType DEF Timed, TimersTypeOK
    <3>3. Links(AdcTimer)
      BY <1>0, <2>1, <3>1, <3>2, HandlerReschedules
    <3>4. QED BY <3>3, FewerMove, LinksOnTime DEF AdcDuty
  <2>4. ASSUME NEW v \in Raw, ADC!LastSample(v, PopHead(list))
        PROVE  Moves({AdcTimer}) /\ AdcDuty'
    <3>1. /\ Fires(AdcTimer) /\ adcState' = "pending"
          /\ nextBegin' = ClockAdd(nextBegin, RestTicks)
          /\ Insert(PopHead(list), [wake EXCEPT ![AdcTimer] = nextBegin'], AdcTimer)
      BY <2>4, AdcSame DEF ADC!LastSample
    <3>2. nextBegin' \in Ticks
      BY <3>1, Delays, ClockAddType, AdcSame DEF Parts, AdcPart, ADC!AdcTypeOK
    <3>3. Reschedule(AdcTimer, nextBegin')
      BY <3>1 DEF Reschedule
    <3>4. Links(AdcTimer)
      BY <1>0, <2>1, <3>1, <3>2, <3>3, HandlerReschedules
    <3>5. QED BY <3>1, <3>4, FewerMove DEF AdcDuty
  <2>5. QED BY <1>3, <2>2, <2>3, <2>4 DEF AdcHandler
<1>4. CASE AdcTrips
  <2>1. PICK v \in Raw : ADC!LastSample(v, Cut(PopHead(list), Stopped)) /\ Track
    BY <1>4 DEF AdcTrips
  <2>2. /\ Fires(AdcTimer) /\ adcState' = "pending"
        /\ nextBegin' = ClockAdd(nextBegin, RestTicks)
        /\ Insert(Cut(PopHead(list), Stopped), [wake EXCEPT ![AdcTimer] = nextBegin'],
                  AdcTimer)
    BY <2>1, AdcSame DEF ADC!LastSample
  <2>3. nextBegin' \in Ticks
    BY <2>2, Delays, ClockAddType, AdcSame DEF Parts, AdcPart, ADC!AdcTypeOK
  <2>4. Links(AdcTimer)
    BY <1>0, <2>1, <2>2, <2>3, HandlerReschedules
  <2>5. QED BY <2>2, <2>4, FewerMove DEF AdcDuty
<1>5. QED BY <1>1, <1>2, <1>3, <1>4

LEMMA PwmMoves ==
  ASSUME Parts, Timed, "requeue" \notin Careless, PwmStep
  PROVE  Moves({PwmTimer}) /\ ("set" \notin Careless /\ PwmDuty => PwmDuty')
<1>1. PwmTimer \in Timers /\ Track
  BY SomeTimers DEF PwmStep
<1>2. /\ pwmEnd \in Ticks /\ pwmCheckEnd \in BOOLEAN
  BY PwmSame DEF Parts, PwmPart, PWM!PwmTypeOK
<1>3. ASSUME InLoop, Free(PwmTimer), NEW w \in Ticks, NEW value \in PwmValues,
             PWM!QueuePWM(w, value)
      PROVE  Moves({PwmTimer}) /\ PwmDuty'
  <2>1. /\ Insert(Cut(list, {PwmTimer}), [wake EXCEPT ![PwmTimer] = w], PwmTimer)
        /\ UNCHANGED <<now, dispatching>>
        /\ pwmValue' = value /\ pwmCheckEnd' = (value # PwmDefault)
    BY <1>3, PwmSame DEF PWM!QueuePWM
  <2>2. PwmTimer \notin Reached(list)
    BY <1>3 DEF Free
  <2>3. Links(PwmTimer)
    BY <1>1, <1>3, <2>1, <2>2, CommandSchedules
  <2>4. QED BY <2>1, <2>3, FewerMove, LinksOnTime DEF PwmDuty
<1>4. ASSUME InLoop, NEW value \in PwmValues, PWM!SetPWM(value),
             "set" \in Careless \/ value = PwmDefault
      PROVE  Moves({PwmTimer}) /\ ("set" \notin Careless => PwmDuty')
  <2>1. /\ list' = list /\ UNCHANGED <<wake, now, dispatching, hung>>
        /\ pwmValue' = value /\ duty' = value
    BY <1>4 DEF PWM!SetPWM, PWM!timerVars
  <2>2. Trims
    BY <1>1, <1>4, <2>1, CommandCuts
  <2>3. QED BY <1>4, <2>1, <2>2, FewerMove DEF PwmDuty
<1>5. CASE PWM!LoadPWM
  <2>1. /\ Fires(PwmTimer) /\ duty' = pwmValue
        /\ UNCHANGED <<pwmValue, pwmCheckEnd>>
        /\ \/ pwmCheckEnd /\ Reschedule(PwmTimer, pwmEnd)
           \/ ~pwmCheckEnd /\ Done(PwmTimer)
    BY <1>5, PwmSame DEF PWM!LoadPWM
  <2>2. CASE pwmCheckEnd /\ Reschedule(PwmTimer, pwmEnd)
    <3>1. Links(PwmTimer)
      BY <1>1, <1>2, <2>1, <2>2, HandlerReschedules
    <3>2. QED BY <2>1, <2>2, <3>1, FewerMove, LinksOnTime DEF PwmDuty
  <2>3. CASE ~pwmCheckEnd /\ Done(PwmTimer)
    <3>1. Unlinks(PwmTimer)
      BY <1>1, <2>1, <2>3, HandlerDone
    <3>2. QED BY <2>1, <2>3, <3>1, FewerMove DEF PwmDuty
  <2>4. QED BY <2>1, <2>2, <2>3
<1>6. CASE PWM!EndPWM
  <2>1. /\ Fires(PwmTimer) /\ Done(PwmTimer)
        /\ pwmValue' = PwmDefault /\ duty' = PwmDefault
    BY <1>6, PwmSame DEF PWM!EndPWM
  <2>2. Unlinks(PwmTimer)
    BY <1>1, <2>1, HandlerDone
  <2>3. QED BY <2>1, <2>2, FewerMove DEF PwmDuty
<1>7. QED BY <1>3, <1>4, <1>5, <1>6 DEF PwmStep

LEMMA GpioMoves ==
  ASSUME Parts, Timed, "requeue" \notin Careless, GpioStep
  PROVE  Moves({Valve})
<1>1. Valve \in Timers /\ Track
  BY SomeTimers DEF GpioStep
<1>2. ASSUME Free(Valve), NEW w \in Ticks, NEW ticks \in {0, 1},
             GPIO!Queue(Valve, w, ticks)
      PROVE  Moves({Valve})
  <2>1. /\ InLoop /\ UNCHANGED <<now, dispatching>>
        /\ Insert([list EXCEPT !.next[Valve] = Nil], [wake EXCEPT ![Valve] = w], Valve)
    BY <1>2, PinSame DEF GPIO!Queue
  <2>2. [list EXCEPT !.next[Valve] = Nil] = Cut(list, {Valve})
    <3>1. list \in Lists
      BY DEF Timed, TimersTypeOK
    <3>2. [list.next EXCEPT ![Valve] = Nil]
            = [t \in Timers |-> IF t \in {Valve} THEN Nil ELSE list.next[t]]
      BY <1>1, <3>1 DEF Lists
    <3>3. QED BY <3>2 DEF Cut
  <2>3. Valve \notin Reached(list)
    BY <1>2 DEF Free
  <2>4. Links(Valve)
    BY <1>1, <2>1, <2>2, <2>3, CommandSchedules
  <2>5. QED BY <2>4, FewerMove
<1>3. ASSUME NEW value \in BOOLEAN, GPIO!Update(Valve, value) PROVE Moves({Valve})
  <2>1. InLoop /\ list' = list /\ UNCHANGED <<wake, now, dispatching, hung>>
    BY <1>3, PinSame DEF GPIO!Update, GPIO!timerVars
  <2>2. Trims
    BY <1>1, <2>1, CommandCuts
  <2>3. QED BY <2>2, FewerMove
<1>4. CASE GPIO!LoadSets(Valve)
  <2>1. Fires(Valve) /\ (Reschedule(Valve, endTime[Valve]) \/ Done(Valve))
    BY <1>4, PinSame DEF GPIO!LoadSets
  <2>2. endTime[Valve] \in Ticks
    BY DEF Parts, PinPart
  <2>3. Links(Valve) \/ Unlinks(Valve)
    BY <1>1, <2>1, <2>2, HandlerReschedules, HandlerDone
  <2>4. QED BY <2>3, FewerMove
<1>5. QED BY <1>2, <1>3, <1>4 DEF GpioStep

LEMMA DriverMoves ==
  ASSUME Parts, Timed, DriverDuty, "requeue" \notin Careless, DriverStep
  PROVE  Moves({DriverTimer}) /\ DriverDuty'
<1>1. /\ DriverTimer \in Timers /\ Track /\ HasDriver /\ HasDriver'
  BY SomeTimers DEF DriverStep, HasDriver
<1>2. ASSUME InLoop, DRV!ConfigDriver \/ DRV!UnregisterDriver \/ DRV!StopPolling
      PROVE  Moves({DriverTimer}) /\ DriverDuty'
  <2>1. /\ list' = Cut(list, {DriverTimer}) \/ list' = list
        /\ UNCHANGED <<wake, now, dispatching, hung>>
        /\ registered' /\ active' => registered /\ active
    BY <1>2, DriverSame
    DEF DRV!ConfigDriver, DRV!UnregisterDriver, DRV!StopPolling, DRV!timerVars
  <2>2. Trims
    BY <1>1, <1>2, <2>1, CommandCuts
  <2>3. DriverDuty'
    BY <1>1, <2>1, <2>2 DEF DriverDuty, Trims, Moves
  <2>4. QED BY <2>2, <2>3, FewerMove
<1>3. ASSUME InLoop, Free(DriverTimer), NEW rate \in PollRates, DRV!StartPolling(rate)
      PROVE  Moves({DriverTimer}) /\ DriverDuty'
  <2>1. /\ Insert(list, [wake EXCEPT ![DriverTimer] = ClockAdd(now, rate)], DriverTimer)
        /\ UNCHANGED <<now, dispatching>>
    BY <1>3, DriverSame DEF DRV!StartPolling, Schedule
  <2>2. ClockAdd(now, rate) \in Ticks
    BY Delays, ClockAddType DEF Timed, TimersTypeOK
  <2>3. DriverTimer \notin Reached(list)
    BY <1>3 DEF Free
  <2>4. Links(DriverTimer)
    BY <1>1, <1>3, <2>1, <2>2, <2>3, CommandSchedules
  <2>5. QED BY <1>1, <2>4, FewerMove, LinksOnTime DEF DriverDuty
<1>4. CASE DRV!PollNothing
  <2>1. /\ Fires(DriverTimer) /\ Done(DriverTimer) /\ ~(registered /\ active)
        /\ UNCHANGED <<registered, active>>
    BY <1>4, DriverSame DEF DRV!PollNothing, DRV!driverVars
  <2>2. Unlinks(DriverTimer)
    BY <1>1, <2>1, HandlerDone
  <2>3. QED BY <2>1, <2>2, FewerMove DEF DriverDuty
<1>5. CASE DRV!Poll
  <2>1. /\ Fires(DriverTimer)
        /\ Reschedule(DriverTimer, ClockAdd(wake[DriverTimer], pollRate))
    BY <1>5, DriverSame DEF DRV!Poll
  <2>2. ClockAdd(wake[DriverTimer], pollRate) \in Ticks
    <3>1. wake[DriverTimer] \in Ticks
      BY <1>1 DEF Timed, TimersTypeOK
    <3>2. pollRate \in Nat /\ pollRate < HalfRange
      BY Delays, TimerListAssumption DEF Parts, DriverPart, DRV!DriverTypeOK
    <3>3. QED BY <3>1, <3>2, ClockAddType
  <2>3. Links(DriverTimer)
    BY <1>1, <2>1, <2>2, HandlerReschedules
  <2>4. QED BY <1>1, <2>3, FewerMove, LinksOnTime DEF DriverDuty
<1>6. QED BY <1>2, <1>3, <1>4, <1>5 DEF DriverStep

-----------------------------------------------------------------------------
(* The endstops: what is counted goes with what happens to the timer.      *)

EndMoves ==
  /\ nextLook' \in Ticks
  /\ \/ Links(EndTimer) /\ CountsAnew
     \/ Links(EndTimer) /\ EndTimer \in Reached(list) /\ (CountsMiss \/ CountsHit)
     \/ Unlinks(EndTimer) /\ EndTimer \in Reached(list) /\ CountsLast
     \/ Trims /\ CountsStay

LEMMA RestLookType ==
  ASSUME Timed, EndDuty
  PROVE  /\ \A d \in {EndRestTicks, EndSampleTicks} :
              ClockAdd(wake[EndTimer], d) \in Ticks
         /\ AES!RestLook \in Ticks /\ IES!RestLook \in Ticks
<1>1. wake[EndTimer] \in Ticks /\ nextLook \in Ticks
  BY SomeTimers DEF Timed, TimersTypeOK, EndDuty
<1>2. \A d \in {EndRestTicks, EndSampleTicks} : ClockAdd(wake[EndTimer], d) \in Ticks
  BY <1>1, Delays, ClockAddType
<1>3. QED
  BY <1>1, <1>2, AnalogEndSame, I2CEndSame DEF AES!RestLook, IES!RestLook

(* What both endstops do to the timer and the counts.                      *)
LEMMA HomeMoves ==
  ASSUME Timed, InLoop, Track, EndTimer \notin Reached(list), NEW w \in Ticks,
         Insert(Cut(list, {EndTimer}), [wake EXCEPT ![EndTimer] = w], EndTimer),
         UNCHANGED <<now, dispatching>>, CountsAnew, nextLook' = 0
  PROVE  EndMoves
<1>1. EndTimer \in Timers
  BY SomeTimers
<1>2. Links(EndTimer)
  BY <1>1, CommandSchedules
<1>3. QED BY <1>2, ZeroIsTick DEF EndMoves

LEMMA HomeStays ==
  ASSUME Timed, InLoop, Track, EndDuty, list' = Cut(list, {EndTimer}),
         UNCHANGED <<wake, now, dispatching, hung, nextLook>>, CountsStay
  PROVE  EndMoves
<1>1. Trims
  BY CommandCuts
<1>2. QED BY <1>1 DEF EndMoves, EndDuty

LEMMA LookMoves ==
  ASSUME Timed, Track, Fires(EndTimer), NEW w \in Ticks, Reschedule(EndTimer, w),
         CountsAnew \/ CountsMiss \/ CountsHit, nextLook' \in Ticks
  PROVE  EndMoves
<1>1. EndTimer \in Timers
  BY SomeTimers
<1>2. EndTimer \in Reached(list)
  BY <1>1, Fired
<1>3. Links(EndTimer)
  BY <1>1, HandlerReschedules
<1>4. QED BY <1>2, <1>3 DEF EndMoves

LEMMA LastLookMoves ==
  ASSUME Timed, Track, Fires(EndTimer), Done(EndTimer), CountsLast, nextLook' = 0
  PROVE  EndMoves
<1>1. EndTimer \in Timers
  BY SomeTimers
<1>2. EndTimer \in Reached(list)
  BY <1>1, Fired
<1>3. Unlinks(EndTimer)
  BY <1>1, HandlerDone
<1>4. QED BY <1>2, <1>3, ZeroIsTick DEF EndMoves

LEMMA AnalogEndstopMoves ==
  ASSUME Timed, EndDuty, "requeue" \notin Careless, AnalogEndstopStep
  PROVE  EndMoves
<1>1. Track /\ now \in Ticks
  BY DEF AnalogEndstopStep, Timed, TimersTypeOK
<1>2. ASSUME InLoop, Free(EndTimer), NEW w \in Ticks, AES!Home(w) PROVE EndMoves
  <2>1. /\ Insert(Cut(list, {EndTimer}), [wake EXCEPT ![EndTimer] = w], EndTimer)
        /\ UNCHANGED <<now, dispatching>> /\ nextLook' = 0
    BY <1>2, AnalogEndSame DEF AES!Home
  <2>2. CountsAnew
    BY <1>2 DEF AES!Home, CountsAnew
  <2>3. EndTimer \notin Reached(list)
    BY <1>2 DEF Free
  <2>4. QED BY <1>1, <1>2, <2>1, <2>2, <2>3, HomeMoves
<1>3. ASSUME InLoop, AES!HomeEnd \/ AES!HomeFails PROVE EndMoves
  <2>1. /\ list' = Cut(list, {EndTimer})
        /\ UNCHANGED <<wake, now, dispatching, hung, nextLook>>
    BY <1>3, AnalogEndSame DEF AES!HomeEnd, AES!HomeFails, AES!endstopVars
  <2>2. CountsStay
    BY <1>3 DEF AES!HomeEnd, AES!HomeFails, AES!endstopVars, CountsStay
  <2>3. QED BY <1>1, <1>3, <2>1, <2>2, HomeStays
<1>4. CASE AES!LookMiss
  <2>1. /\ Fires(EndTimer) /\ nextLook' = nextLook
        /\ Reschedule(EndTimer, ClockAdd(wake[EndTimer], EndRestTicks))
    BY <1>4, AnalogEndSame DEF AES!LookMiss
  <2>2. CountsMiss
    BY <1>4 DEF AES!LookMiss, CountsMiss
  <2>3. nextLook' \in Ticks
    BY <2>1 DEF EndDuty
  <2>4. QED BY <1>1, <2>1, <2>2, <2>3, RestLookType, LookMoves
<1>5. CASE AES!ConfirmMiss
  <2>1. /\ Fires(EndTimer) /\ nextLook' = 0 /\ Reschedule(EndTimer, AES!RestLook)
    BY <1>5, AnalogEndSame DEF AES!ConfirmMiss, AES!Confirms
  <2>2. CountsAnew
    BY <1>5 DEF AES!ConfirmMiss, CountsAnew
  <2>3. QED BY <1>1, <2>1, <2>2, RestLookType, ZeroIsTick, LookMoves
<1>6. CASE AES!ConfirmHit
  <2>1. /\ Fires(EndTimer) /\ nextLook' = AES!RestLook
        /\ Reschedule(EndTimer, ClockAdd(wake[EndTimer], EndSampleTicks))
    BY <1>6, AnalogEndSame DEF AES!ConfirmHit, AES!Confirms
  <2>2. CountsHit
    BY <1>6 DEF AES!ConfirmHit, CountsHit
  <2>3. QED BY <1>1, <2>1, <2>2, RestLookType, LookMoves
<1>7. CASE AES!ConfirmLast
  <2>1. Fires(EndTimer) /\ Done(EndTimer) /\ nextLook' = 0
    BY <1>7, AnalogEndSame DEF AES!ConfirmLast, AES!Confirms
  <2>2. CountsLast
    BY <1>7 DEF AES!ConfirmLast, CountsLast
  <2>3. QED BY <1>1, <2>1, <2>2, LastLookMoves
<1>8. QED BY <1>2, <1>3, <1>4, <1>5, <1>6, <1>7 DEF AnalogEndstopStep

LEMMA I2CEndstopMoves ==
  ASSUME Timed, EndDuty, "requeue" \notin Careless, I2CEndstopStep
  PROVE  EndMoves
<1>1. Track /\ now \in Ticks
  BY DEF I2CEndstopStep, Timed, TimersTypeOK
<1>2. ASSUME InLoop, Free(EndTimer), NEW w \in Ticks, IES!Home(w) PROVE EndMoves
  <2>1. /\ Insert(Cut(list, {EndTimer}), [wake EXCEPT ![EndTimer] = w], EndTimer)
        /\ UNCHANGED <<now, dispatching>> /\ nextLook' = 0
    BY <1>2, I2CEndSame DEF IES!Home
  <2>2. CountsAnew
    BY <1>2 DEF IES!Home, CountsAnew
  <2>3. EndTimer \notin Reached(list)
    BY <1>2 DEF Free
  <2>4. QED BY <1>1, <1>2, <2>1, <2>2, <2>3, HomeMoves
<1>3. ASSUME InLoop, IES!HomeEnd \/ IES!HomeFails PROVE EndMoves
  <2>1. /\ list' = Cut(list, {EndTimer})
        /\ UNCHANGED <<wake, now, dispatching, hung, nextLook>>
    BY <1>3, I2CEndSame DEF IES!HomeEnd, IES!HomeFails, IES!endstopVars
  <2>2. CountsStay
    BY <1>3 DEF IES!HomeEnd, IES!HomeFails, IES!endstopVars, CountsStay
  <2>3. QED BY <1>1, <1>3, <2>1, <2>2, HomeStays
<1>4. CASE IES!LookMiss
  <2>1. /\ Fires(EndTimer) /\ nextLook' = nextLook
        /\ Reschedule(EndTimer, ClockAdd(wake[EndTimer], EndRestTicks))
    BY <1>4, I2CEndSame DEF IES!LookMiss
  <2>2. CountsMiss
    BY <1>4 DEF IES!LookMiss, CountsMiss
  <2>3. nextLook' \in Ticks
    BY <2>1 DEF EndDuty
  <2>4. QED BY <1>1, <2>1, <2>2, <2>3, RestLookType, LookMoves
<1>5. ASSUME NEW d, IES!ConfirmMiss(d) PROVE EndMoves
  <2>1. /\ Fires(EndTimer) /\ nextLook' = 0 /\ Reschedule(EndTimer, IES!RestLook)
    BY <1>5, I2CEndSame DEF IES!ConfirmMiss, IES!Confirms
  <2>2. CountsAnew
    BY <1>5 DEF IES!ConfirmMiss, CountsAnew
  <2>3. QED BY <1>1, <2>1, <2>2, RestLookType, ZeroIsTick, LookMoves
<1>6. ASSUME NEW d, IES!ConfirmHit(d) PROVE EndMoves
  <2>1. /\ Fires(EndTimer) /\ nextLook' = IES!RestLook
        /\ Reschedule(EndTimer, ClockAdd(wake[EndTimer], EndSampleTicks))
    BY <1>6, I2CEndSame DEF IES!ConfirmHit, IES!Confirms
  <2>2. CountsHit
    BY <1>6 DEF IES!ConfirmHit, CountsHit
  <2>3. QED BY <1>1, <2>1, <2>2, RestLookType, LookMoves
<1>7. ASSUME NEW d, IES!ConfirmLast(d) PROVE EndMoves
  <2>1. Fires(EndTimer) /\ Done(EndTimer) /\ nextLook' = 0
    BY <1>7, I2CEndSame DEF IES!ConfirmLast, IES!Confirms
  <2>2. CountsLast
    BY <1>7 DEF IES!ConfirmLast, CountsLast
  <2>3. QED BY <1>1, <2>1, <2>2, LastLookMoves
<1>8. QED BY <1>2, <1>3, <1>4, <1>5, <1>6, <1>7 DEF I2CEndstopStep, IES!Look

LEMMA EndstopMoves ==
  ASSUME EndPart, EndDuty, HasEndstop, UNCHANGED fitted, EndMoves
  PROVE  Moves({EndTimer}) /\ EndDuty'
<1>1. /\ sync \in BOOLEAN /\ triggered \in BOOLEAN /\ hits \in Nat
      /\ triggerCount \in Nat /\ EndSampleCount \in Nat /\ EndSampleCount >= 1
      /\ nextLook' \in Ticks /\ HasEndstop'
      /\ hits <= EndSampleCount
  <2>1. EndSampleCount \in Nat /\ EndSampleCount >= 1
    BY Counts
  <2>2. /\ sync \in BOOLEAN /\ triggered \in BOOLEAN /\ hits \in Nat
        /\ triggerCount \in Nat
    BY <2>1 DEF EndPart
  <2>3. HasEndstop'
    BY DEF HasEndstop
  <2>4. QED BY <2>1, <2>2, <2>3 DEF EndDuty, EndMoves
<1>2. CASE Links(EndTimer) /\ CountsAnew
  <2>1. hits' <= EndSampleCount /\ Counted'
    BY <1>1, <1>2 DEF CountsAnew, Counted
  <2>2. QED BY <1>1, <1>2, <2>1, FewerMove, LinksOnTime DEF EndDuty
<1>3. CASE Links(EndTimer) /\ EndTimer \in Reached(list) /\ (CountsMiss \/ CountsHit)
  <2>1. Counted
    BY <1>1, <1>3 DEF EndDuty
  <2>2. Counted' /\ hits' <= EndSampleCount
    <3>1. CASE CountsMiss
      BY <1>1, <2>1, <3>1 DEF Counted, CountsMiss
    <3>2. CASE CountsHit
      BY <1>1, <2>1, <3>2 DEF Counted, CountsHit
    <3>3. QED BY <1>3, <3>1, <3>2
  <2>3. QED BY <1>1, <1>3, <2>2, FewerMove, LinksOnTime DEF EndDuty
<1>4. CASE Unlinks(EndTimer) /\ EndTimer \in Reached(list) /\ CountsLast
  <2>1. Counted
    BY <1>1, <1>4 DEF EndDuty
  <2>2. hits' <= EndSampleCount
    BY <1>1, <1>4, <2>1 DEF CountsLast, Counted
  <2>3. ~(sync' /\ ~triggered')
    BY <1>4 DEF CountsLast
  <2>4. EndTimer \notin Reached(list)'
    BY <1>4 DEF Unlinks
  <2>5. QED BY <1>1, <1>4, <2>2, <2>3, <2>4, FewerMove DEF EndDuty
<1>5. CASE Trims /\ CountsStay
  <2>1. /\ OnTime \subseteq OnTime' /\ Reached(list)' \subseteq Reached(list)
    BY <1>5 DEF Trims, Moves
  <2>2. /\ sync' = sync \/ sync' = FALSE
        /\ UNCHANGED <<triggered, hits>> /\ (Counted => Counted')
    BY <1>5 DEF CountsStay, Counted
  <2>3. sync' /\ ~triggered' => EndTimer \in OnTime'
    BY <1>1, <2>1, <2>2 DEF EndDuty
  <2>4. EndTimer \in Reached(list)' => Counted'
    BY <1>1, <2>1, <2>2 DEF EndDuty
  <2>5. QED BY <1>1, <1>5, <2>2, <2>3, <2>4, FewerMove DEF EndDuty
<1>6. QED BY <1>2, <1>3, <1>4, <1>5 DEF EndMoves

-----------------------------------------------------------------------------
LEMMA InitIInv == Init => IInv
<1> SUFFICES ASSUME Init PROVE IInv
  OBVIOUS
<1>1. Parts
  BY InitParts
<1>2. /\ list = EmptyList /\ wake = [t \in Timers |-> 0] /\ now = 0
      /\ dispatching = FALSE /\ hung = FALSE /\ lost = {}
  BY DEF Init, TimersInit
<1>3. Whole(list) /\ Reached(list) = {}
  BY <1>2, EmptyIsWhole
<1>4. dispatching \in BOOLEAN /\ hung \in BOOLEAN
  BY <1>2
<1>5. Timed
  BY <1>2, <1>3, <1>4, ZeroIsTick DEF Timed, TimersTypeOK, Whole
<1>6. AdcDuty /\ PwmDuty /\ DriverDuty
  <2>1. /\ adcState = "ready" /\ duty = PwmDefault /\ pwmValue = PwmDefault
        /\ active = FALSE
    BY DEF Init, ADC!AdcInit, PWM!PwmInit, DRV!DriverInit
  <2>2. QED BY <2>1 DEF AdcDuty, PwmDuty, DriverDuty
<1>7. EndDuty
  <2>1. sync = FALSE /\ hits = 0 /\ nextLook = 0
    BY DEF Init
  <2>2. hits <= EndSampleCount
    BY <2>1, Counts
  <2>3. QED BY <1>3, <2>1, <2>2, ZeroIsTick DEF EndDuty
<1>8. QED BY <1>1, <1>5, <1>6, <1>7 DEF IInv

LEMMA NextIInv ==
  ASSUME "requeue" \notin Careless, IInv, [Next]_vars
  PROVE  IInv'
<1>1. Parts'
  BY NextParts DEF IInv
<1>2. ASSUME AdcCommand \/ AnalogInTask \/ AdcHandler \/ AdcTrips PROVE IInv'
  <2>1. UNCHANGED <<pwmVars, endstopVars, driverVars, fitted>>
    BY <1>2 DEF AdcCommand, AnalogInTask, AdcHandler, AdcTrips, ShutDown
  <2>2. Moves({AdcTimer}) /\ AdcDuty'
    BY <1>2, AdcMoves DEF IInv
  <2>3. {PwmTimer, EndTimer, DriverTimer} \intersect {AdcTimer} = {}
    BY SomeTimers
  <2>4. /\ PwmDuty => PwmDuty'
        /\ EndDuty' /\ DriverDuty'
    BY <2>1, <2>2, <2>3, PwmSpared, EndSpared, DriverSpared DEF IInv
  <2>5. QED BY <1>1, <2>2, <2>4 DEF IInv, Moves
<1>3. CASE PwmStep
  <2>1. UNCHANGED <<adcVars, endstopVars, driverVars, fitted>>
    BY <1>3 DEF PwmStep
  <2>2. Moves({PwmTimer}) /\ ("set" \notin Careless => PwmDuty')
    BY <1>3, PwmMoves DEF IInv
  <2>3. {AdcTimer, EndTimer, DriverTimer} \intersect {PwmTimer} = {}
    BY SomeTimers
  <2>4. AdcDuty' /\ EndDuty' /\ DriverDuty'
    BY <2>1, <2>2, <2>3, AdcSpared, EndSpared, DriverSpared DEF IInv
  <2>5. QED BY <1>1, <2>2, <2>4 DEF IInv, Moves
<1>4. CASE GpioStep
  <2>1. UNCHANGED <<adcVars, pwmVars, endstopVars, driverVars, fitted>>
    BY <1>4 DEF GpioStep
  <2>2. Moves({Valve})
    BY <1>4, GpioMoves DEF IInv
  <2>3. {AdcTimer, PwmTimer, EndTimer, DriverTimer} \intersect {Valve} = {}
    BY SomeTimers
  <2>4. /\ PwmDuty => PwmDuty'
        /\ AdcDuty' /\ EndDuty' /\ DriverDuty'
    BY <2>1, <2>2, <2>3, AdcSpared, PwmSpared, EndSpared, DriverSpared DEF IInv
  <2>5. QED BY <1>1, <2>2, <2>4 DEF IInv, Moves
<1>5. CASE AnalogEndstopStep \/ I2CEndstopStep
  <2>1. UNCHANGED <<adcVars, pwmVars, driverVars, fitted>>
    BY <1>5 DEF AnalogEndstopStep, I2CEndstopStep
  <2>2. EndMoves /\ HasEndstop
    BY <1>5, AnalogEndstopMoves, I2CEndstopMoves
    DEF IInv, AnalogEndstopStep, I2CEndstopStep, HasEndstop
  <2>3. Moves({EndTimer}) /\ EndDuty'
    BY <2>1, <2>2, EndstopMoves DEF IInv, Parts
  <2>4. /\ {AdcTimer, PwmTimer} \intersect {EndTimer} = {}
        /\ HasDriver => DriverTimer \notin {EndTimer}
    BY <2>2, SomeTimers, OneOfThem DEF IInv, Parts
  <2>5. /\ PwmDuty => PwmDuty'
        /\ AdcDuty' /\ DriverDuty'
    BY <2>1, <2>3, <2>4, AdcSpared, PwmSpared, DriverSpared DEF IInv
  <2>6. QED BY <1>1, <2>3, <2>5 DEF IInv, Moves
<1>6. CASE DriverStep
  <2>1. UNCHANGED <<adcVars, pwmVars, endstopVars, fitted>> /\ HasDriver
    BY <1>6 DEF DriverStep, HasDriver
  <2>2. Moves({DriverTimer}) /\ DriverDuty'
    BY <1>6, DriverMoves DEF IInv
  <2>3. /\ {AdcTimer, PwmTimer} \intersect {DriverTimer} = {}
        /\ HasEndstop => EndTimer \notin {DriverTimer}
    BY <2>1, SomeTimers, OneOfThem DEF IInv, Parts
  <2>4. /\ PwmDuty => PwmDuty'
        /\ AdcDuty' /\ EndDuty'
    BY <2>1, <2>2, <2>3, AdcSpared, PwmSpared, EndSpared DEF IInv
  <2>5. QED BY <1>1, <2>2, <2>4 DEF IInv, Moves
<1>7. ASSUME Trims, adcState' = "sampling" => adcState = "sampling",
             UNCHANGED <<pwmVars, endstopVars, driverVars, fitted>>
      PROVE  IInv'
  <2>1. Moves({}) /\ AdcDuty'
    BY <1>7 DEF Trims, Moves, IInv, AdcDuty
  <2>2. /\ PwmDuty => PwmDuty'
        /\ EndDuty' /\ DriverDuty'
    BY <1>7, <2>1, PwmSpared, EndSpared, DriverSpared DEF IInv
  <2>3. QED BY <1>1, <2>1, <2>2 DEF IInv, Moves
<1>8. CASE EmergencyStop \/ I2CFails
  <2>1. /\ InLoop /\ Track /\ list' = Cut(list, Stopped)
        /\ UNCHANGED <<wake, now, dispatching, hung>> /\ adcState' = "ready"
        /\ UNCHANGED <<pwmVars, endstopVars, driverVars, fitted>>
    BY <1>8 DEF EmergencyStop, I2CFails, ShutDown, ADC!StopSampling
  <2>2. Trims
    BY <2>1, CommandCuts DEF IInv
  <2>3. QED BY <1>7, <2>1, <2>2
<1>9. CASE \/ ClearShutdown \/ I2CSetBus \/ UNCHANGED vars
           \/ TimerStep /\ UNCHANGED <<adcVars, pwmVars, endstopVars,
                                       driverVars, fitted, lost>>
  <2>1. /\ TimerStep \/ UNCHANGED timerVars
        /\ UNCHANGED <<adcState, pwmVars, endstopVars, driverVars, fitted, lost>>
    BY <1>9 DEF ClearShutdown, I2CSetBus, vars, adcVars
  <2>2. Trims
    BY <2>1, NothingMoves DEF IInv
  <2>3. QED BY <1>7, <2>1, <2>2
<1>10. QED
  BY <1>2, <1>3, <1>4, <1>5, <1>6, <1>8, <1>9 DEF Next

(* For a host that never schedules a linked timer, every way the           *)
(* components are fitted together and every order of their commands,       *)
(* handlers and shutdowns: the walk from the head of the timer list ends,  *)
(* whatever was cut off, and what waits for its timer is on it or lost     *)
(* with it (scheduler.go:27-49, commands.go:210-233).                      *)
THEOREM Invariance ==
  ASSUME "requeue" \notin Careless
  PROVE  Spec => []IInv
<1>1. Init => IInv
  BY InitIInv
<1>2. IInv /\ [Next]_vars => IInv'
  BY NextIInv
<1>3. QED BY <1>1, <1>2, PTL DEF Spec

(* Every component's state stays in its type, the wrapped sums and clocks  *)
(* and the counts of an endstop at their limits (adc.go:252-337,           *)
(* endstop_analog.go:210-311, endstop_i2c.go:319-428).                     *)
THEOREM TypeCorrect ==
  ASSUME "requeue" \notin Careless
  PROVE  Spec => []TypeOK
<1>1. ASSUME IInv PROVE TypeOK
  <2>1. TimersTypeOK /\ lost \subseteq Timers /\ lost \intersect Reached(list) = {}
    BY <1>1 DEF IInv, Timed
  <2>2. /\ ADC!AdcTypeOK /\ PWM!PwmTypeOK /\ DRV!DriverTypeOK
        /\ isShutdown \in BOOLEAN /\ i2cReady \in BOOLEAN
        /\ fitted \in Configurations
    BY <1>1 DEF IInv, Parts, AdcPart, PwmPart, DriverPart, StatePart
  <2>3. GPIO!TypeOK
    <3>1. GPIO!TimersTypeOK
      BY <2>1, PinSame
      DEF TimersTypeOK, GPIO!TimersTypeOK, Lists, Pointers, GPIO!Lists, GPIO!Pointers
    <3>2. pulse \in [{Valve} -> [since : Ticks, first : BOOLEAN]]
      BY <1>1, ZeroIsTick DEF IInv, Parts, PinPart, GPIO!NoPulse
    <3>3. QED BY <1>1, <3>1, <3>2, PinSame DEF IInv, Parts, PinPart, GPIO!TypeOK
  <2>4. /\ {sync, oversampling, triggered} \subseteq BOOLEAN
        /\ triggerCount \in 0 .. EndSampleCount /\ nextLook \in Ticks
        /\ oversampling /\ ~triggered /\ sync => triggerCount >= 1
    BY <1>1 DEF IInv, Parts, EndPart, EndDuty, Counted
  <2>5. hits \in 0 .. EndSampleCount
    BY <1>1, Counts DEF IInv, Parts, EndPart, EndDuty
  <2>6. {i2cReady, isShutdown} \subseteq BOOLEAN
    BY <2>2
  <2>7. QED BY <2>1, <2>2, <2>3, <2>4, <2>5, <2>6 DEF TypeOK
<1>2. QED BY <1>1, Invariance, PTL

(* No dispatch and no insertion runs in a circle: cutting the list, also   *)
(* in the middle of a dispatch, and linking a timer that was cut off never *)
(* close it (scheduler.go:27-49, adc.go:186-190, gpio.go:426, pwm.go:155). *)
THEOREM ListAlwaysHolds ==
  ASSUME "requeue" \notin Careless
  PROVE  Spec => []ListHolds
<1>1. ASSUME IInv PROVE ListHolds
  <2>1. Whole(list) /\ ~hung
    BY <1>1 DEF IInv, Timed
  <2>2. QED BY <2>1, WholeEnds DEF ListHolds
<1>2. QED BY <1>1, Invariance, PTL

(* Nothing waits for a timer that its own component has taken off: what    *)
(* is not on the list was cut off by another's stop or by a shutdown       *)
(* (adc.go:112-337, pwm.go:119-254, driver_registry.go:239-304,            *)
(* endstop_analog.go:92-311).                                              *)
THEOREM WaitingIsAlwaysTimed ==
  ASSUME "requeue" \notin Careless, "set" \notin Careless
  PROVE  Spec => []WaitingIsTimed
<1>1. ASSUME IInv PROVE WaitingIsTimed
  BY <1>1 DEF IInv, AdcDuty, PwmDuty, DriverDuty, EndDuty, OnTime, WaitingIsTimed
<1>2. QED BY <1>1, Invariance, PTL
=============================================================================
