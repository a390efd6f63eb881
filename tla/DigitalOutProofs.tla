-------------------------- MODULE DigitalOutProofs --------------------------
(***************************************************************************)
(* Theorems about DigitalOut, for every set of pins and every on time,     *)
(* cycle time, maximum duration and clock range.  What a shutdown does     *)
(* holds with any host; what depends on a pin's timer being linked once    *)
(* holds with a host that queues no change while it is linked.             *)
(***************************************************************************)
EXTENDS DigitalOut, TimerListProofs

LEMMA Delays ==
  /\ \A d \in {MaxDuration, Ahead} \union Cycles :
       d \in Nat /\ d < HalfRange /\ d + MaxLate < HalfRange
  /\ MaxLate \in Nat /\ HalfRange \in Nat \ {0}
  /\ \A d \in OnTicks : d \in Nat
BY DigitalOutAssumption, DispatchAssumption, TimerListAssumption

LEMMA ClockSame == \A a \in Ticks : SignedDiff(a, a) = 0
BY TimerListAssumption DEF SignedDiff, ClockSub, Ticks

LEMMA PinsAreTimers == \A p \in Pins : p \in Timers /\ p # Nil
BY DigitalOutAssumption, TimerListAssumption

-----------------------------------------------------------------------------
(* Types, and what a shutdown does: with any host.                         *)

(* A pin that was shut down and not commanded since would not be driven    *)
(* away from its default by what its timer still does.                     *)
AtDefault ==
  \A p \in Pins : shut[p] =>
    level[p] = Default(p) /\ on[p] = Default(p) /\ ~toggling[p]

(* The two parts of a pulse make up a cycle.                               *)
DurationsFit ==
  \A p \in Pins :
    /\ cycleTime[p] \in {0} \union Cycles
    /\ onDuration[p] < HalfRange /\ offDuration[p] < HalfRange

TypeInv == TypeOK /\ DurationsFit /\ AtDefault

LEMMA InsertTyped ==
  ASSUME TimersTypeOK, NEW from \in Lists, NEW w \in [Timers -> Ticks],
         NEW t \in Timers, Insert(from, w, t), UNCHANGED <<now, dispatching>>
  PROVE  TimersTypeOK'
<1>1. hung' \in BOOLEAN /\ hung' = InsertHangs(from, w, t)
  BY DEF Insert, InsertHangs
<1>2. list' \in Lists
  BY <1>1, InsertType DEF Insert
<1>3. wake' \in [Timers -> Ticks]
  BY DEF Insert
<1>4. QED BY <1>1, <1>2, <1>3 DEF TimersTypeOK

LEMMA FiresTyped ==
  ASSUME TimersTypeOK, NEW t \in Timers, Fires(t)
  PROVE  PopHead(list) \in Lists /\ UNCHANGED <<now, dispatching>>
BY PopType DEF TimersTypeOK, Fires

LEMMA DoneTyped ==
  ASSUME TimersTypeOK, NEW t \in Timers, Fires(t), Done(t)
  PROVE  TimersTypeOK'
<1>1. list' \in Lists /\ UNCHANGED <<now, dispatching>>
  BY FiresTyped DEF Done
<1>2. wake' \in [Timers -> Ticks]
  BY ZeroIsTick DEF Done, TimersTypeOK
<1>3. hung' = hung
  BY DEF Done
<1>4. QED BY <1>1, <1>2, <1>3 DEF TimersTypeOK

LEMMA RescheduleTyped ==
  ASSUME TimersTypeOK, NEW t \in Timers, Fires(t),
         NEW w \in Ticks, Reschedule(t, w)
  PROVE  TimersTypeOK'
<1>1. PopHead(list) \in Lists /\ UNCHANGED <<now, dispatching>>
  BY FiresTyped
<1>2. [wake EXCEPT ![t] = w] \in [Timers -> Ticks]
  BY DEF TimersTypeOK
<1>3. QED BY <1>1, <1>2, InsertTyped DEF Reschedule

LEMMA InitTypeInv == Init => TypeInv
<1> SUFFICES ASSUME Init PROVE TypeInv
  OBVIOUS
<1>1. TimersTypeOK
  BY EmptyIsList, ZeroIsTick DEF Init, TimersInit, TimersTypeOK, IsList
<1>2. {level, on, toggling, checkEnd, shut} \subseteq [Pins -> BOOLEAN]
  BY DEF Init
<1>3. /\ {onDuration, offDuration, cycleTime} \subseteq [Pins -> Durations \intersect Nat]
      /\ handler \in [Pins -> Handlers] /\ endTime \in [Pins -> Ticks]
  BY ZeroIsTick DEF Init, Durations, Handlers
<1>4. pulse \in [Pins -> [since : Ticks, first : BOOLEAN]]
  BY ZeroIsTick DEF Init, NoPulse
<1>5. DurationsFit
  BY Delays DEF Init, DurationsFit
<1>6. \A p \in Pins : shut[p] = FALSE
  BY DEF Init
<1>7. QED BY <1>1, <1>2, <1>3, <1>5, <1>6, <1>4 DEF TypeInv, TypeOK, AtDefault

LEMMA QueueTypeInv ==
  ASSUME TypeInv, NEW p \in Pins, NEW w \in Ticks, NEW ticks \in OnTicks,
         Queue(p, w, ticks)
  PROVE  TypeInv'
<1>1. TimersTypeOK'
  <2>1. list \in Lists /\ p \in Timers /\ wake \in [Timers -> Ticks]
    BY PinsAreTimers DEF TypeInv, TypeOK, TimersTypeOK
  <2>2. [list EXCEPT !.next[p] = Nil] \in Lists
    BY <2>1 DEF Lists, Pointers
  <2>3. [wake EXCEPT ![p] = w] \in [Timers -> Ticks]
    BY <2>1
  <2>4. QED BY <2>1, <2>2, <2>3, InsertTyped DEF Queue, TypeInv, TypeOK
<1>2. /\ toggling' \in [Pins -> BOOLEAN] /\ shut' \in [Pins -> BOOLEAN]
      /\ level' = level /\ shut'[p] = FALSE /\ pulse' = pulse
  BY DEF Queue, TypeInv, TypeOK
<1>3. on' \in [Pins -> BOOLEAN]
  BY DEF Queue, TypeInv, TypeOK
<1>4. checkEnd' \in [Pins -> BOOLEAN] /\ endTime' \in [Pins -> Ticks]
  <2>1. CASE p \notin Limited
    BY <2>1 DEF Queue, TypeInv, TypeOK
  <2>2. CASE p \in Limited
    <3>1. (on'[p] # Default(p)) \in BOOLEAN /\ ClockAdd(w, MaxDuration) \in Ticks
      BY Delays, ClockAddType
    <3>2. checkEnd' = [checkEnd EXCEPT ![p] = on'[p] # Default(p)]
      BY <2>2 DEF Queue
    <3>3. endTime' = [endTime EXCEPT ![p] =
                        IF checkEnd'[p] THEN ClockAdd(w, MaxDuration) ELSE 0]
      BY <2>2 DEF Queue
    <3>4. checkEnd' \in [Pins -> BOOLEAN]
      BY <3>1, <3>2 DEF TypeInv, TypeOK
    <3>5. endTime' \in [Pins -> Ticks]
      BY <3>1, <3>3, ZeroIsTick DEF TypeInv, TypeOK
    <3>6. QED BY <3>4, <3>5
  <2>3. QED BY <2>1, <2>2
<1>5. handler' \in [Pins -> Handlers]
  BY DEF Queue, TypeInv, TypeOK, Handlers
<1>6. /\ onDuration' \in [Pins -> Durations \intersect Nat]
      /\ offDuration' \in [Pins -> Durations \intersect Nat]
      /\ cycleTime' = cycleTime
      /\ \A q \in Pins : onDuration'[q] < HalfRange /\ offDuration'[q] < HalfRange
  <2>1. QueueDurations(p, ticks) /\ cycleTime' = cycleTime
    BY DEF Queue
  <2>2. /\ onDuration \in [Pins -> Durations \intersect Nat]
        /\ offDuration \in [Pins -> Durations \intersect Nat]
        /\ \A q \in Pins : onDuration[q] < HalfRange /\ offDuration[q] < HalfRange
    BY DEF TypeInv, TypeOK, DurationsFit
  <2>3. CASE cycleTime[p] = 0
    BY <2>1, <2>2, <2>3 DEF QueueDurations
  <2>4. CASE cycleTime[p] # 0
    <3> DEFINE d == OnTime(p, ticks)
               c == cycleTime[p]
    <3>1. c \in Cycles /\ c \in Nat /\ c < HalfRange /\ ticks \in Nat
      BY <2>4, Delays DEF TypeInv, DurationsFit
    <3>2. d \in Nat /\ d <= c /\ (d = c \/ d \in OnTicks)
      BY <3>1 DEF OnTime
    <3>3. d \in Durations
      BY <3>1, <3>2 DEF Durations
    <3>4. c - d \in Durations
      BY <3>1, <3>2 DEF Durations
    <3>5. c - d \in Nat /\ d < HalfRange /\ c - d < HalfRange
      BY <3>1, <3>2, Delays
    <3>6. /\ onDuration' = [onDuration EXCEPT ![p] = d]
          /\ offDuration' = [offDuration EXCEPT ![p] = c - d]
      BY <2>1, <2>4 DEF QueueDurations
    <3> HIDE DEF d, c
    <3>7. QED BY <2>1, <2>2, <3>2, <3>3, <3>4, <3>5, <3>6
  <2>5. QED BY <2>3, <2>4
<1>7. TypeOK'
  BY <1>1, <1>2, <1>3, <1>4, <1>5, <1>6 DEF TypeInv, TypeOK
<1>8. AtDefault'
  <2>1. ASSUME NEW q \in Pins, shut'[q]
        PROVE  level'[q] = Default(q) /\ on'[q] = Default(q) /\ ~toggling'[q]
    <3>1. q # p /\ shut[q]
      BY <1>2, <2>1 DEF Queue, TypeInv, TypeOK
    <3>2. toggling'[q] = toggling[q] /\ on'[q] = on[q]
      BY <3>1 DEF Queue, TypeInv, TypeOK
    <3>3. QED BY <1>2, <3>1, <3>2 DEF TypeInv, AtDefault
  <2>2. QED BY <2>1 DEF AtDefault
<1>9. QED BY <1>6, <1>7, <1>8 DEF TypeInv, DurationsFit

LEMMA UpdateTypeInv ==
  ASSUME TypeInv, NEW p \in Pins, NEW value \in BOOLEAN, Update(p, value)
  PROVE  TypeInv'
<1>1. /\ {level', on', toggling', shut'} \subseteq [Pins -> BOOLEAN]
      /\ shut' = [shut EXCEPT ![p] = FALSE]
      /\ level' = [level EXCEPT ![p] = value] /\ on' = [on EXCEPT ![p] = value]
      /\ toggling' = [toggling EXCEPT ![p] = FALSE]
      /\ UNCHANGED <<timerVars, checkEnd, handler, onDuration, offDuration,
                     cycleTime, endTime>>
  BY DEF Update, TypeInv, TypeOK
<1>2. pulse' \in [Pins -> [since : Ticks, first : BOOLEAN]]
  BY ZeroIsTick DEF Update, TypeInv, TypeOK, NoPulse
<1>3. TypeOK' /\ DurationsFit'
  <2>1. TimersTypeOK' /\ DurationsFit'
    BY <1>1 DEF TypeInv, TypeOK, TimersTypeOK, timerVars, DurationsFit
  <2>2. {level, on, toggling, checkEnd, shut}' \subseteq [Pins -> BOOLEAN]
    BY <1>1 DEF TypeInv, TypeOK
  <2>3. /\ handler' \in [Pins -> Handlers] /\ endTime' \in [Pins -> Ticks]
        /\ {onDuration, offDuration, cycleTime}' \subseteq [Pins -> Durations \intersect Nat]
    BY <1>1 DEF TypeInv, TypeOK
  <2>4. QED BY <1>2, <2>1, <2>2, <2>3 DEF TypeOK
<1>4. AtDefault'
  BY <1>1 DEF TypeInv, TypeOK, AtDefault
<1>5. QED BY <1>3, <1>4 DEF TypeInv

LEMMA SetPWMCycleTypeInv ==
  ASSUME TypeInv, NEW p \in Pins, NEW ticks \in Cycles, SetPWMCycle(p, ticks)
  PROVE  TypeInv'
<1>1. ticks \in Durations \intersect Nat
  BY Delays DEF Durations
<1>2. /\ cycleTime' = [cycleTime EXCEPT ![p] = ticks]
      /\ UNCHANGED <<timerVars, level, on, toggling, checkEnd, handler,
                     onDuration, offDuration, endTime, shut, pulse>>
  BY DEF SetPWMCycle
<1>3. TypeOK'
  BY <1>1, <1>2 DEF TypeInv, TypeOK, TimersTypeOK, timerVars
<1>4. DurationsFit' /\ AtDefault'
  BY <1>2 DEF TypeInv, TypeOK, DurationsFit, AtDefault
<1>5. QED BY <1>3, <1>4 DEF TypeInv

LEMMA ShutdownAllTypeInv == TypeInv /\ ShutdownAll => TypeInv'
<1> SUFFICES ASSUME TypeInv, ShutdownAll PROVE TypeInv'
  OBVIOUS
<1>1. TimersTypeOK'
  <2>1. list' \in Lists
    BY DEF ShutdownAll, Cut, TypeInv, TypeOK, TimersTypeOK, Lists, Pointers
  <2>2. QED BY <2>1 DEF ShutdownAll, TypeInv, TypeOK, TimersTypeOK
<1>2. /\ level' = [p \in Pins |-> Default(p)] /\ on' = level'
      /\ toggling' = [p \in Pins |-> FALSE] /\ checkEnd' = toggling'
      /\ endTime' = [p \in Pins |-> 0] /\ shut' = [p \in Pins |-> TRUE]
      /\ pulse' = [p \in Pins |-> NoPulse]
      /\ UNCHANGED <<handler, onDuration, offDuration, cycleTime>>
  BY DEF ShutdownAll, ToDefaults
<1>3. {level', on', toggling', checkEnd', shut'} \subseteq [Pins -> BOOLEAN]
  BY <1>2 DEF Default
<1>4. endTime' \in [Pins -> Ticks] /\ pulse' \in [Pins -> [since : Ticks, first : BOOLEAN]]
  BY <1>2, ZeroIsTick DEF NoPulse
<1>5. TypeOK'
  BY <1>1, <1>2, <1>3, <1>4 DEF TypeInv, TypeOK
<1>6. DurationsFit' /\ AtDefault'
  BY <1>2 DEF TypeInv, DurationsFit, AtDefault
<1>7. QED BY <1>5, <1>6 DEF TypeInv

LEMMA LoadStartsPWMTypeInv ==
  ASSUME TypeInv, NEW p \in Pins, LoadStartsPWM(p)
  PROVE  TypeInv'
<1>1. TimersTypeOK'
  <2>1. ClockAdd(now, onDuration[p]) \in Ticks
    BY ClockAddType DEF TypeInv, TypeOK, TimersTypeOK, DurationsFit
  <2>2. QED
    BY <2>1, PinsAreTimers, RescheduleTyped DEF LoadStartsPWM, TypeInv, TypeOK
<1>2. /\ level' = [level EXCEPT ![p] = TRUE]
      /\ handler' = [handler EXCEPT ![p] = "toggle"] /\ toggling[p]
      /\ UNCHANGED <<on, toggling, checkEnd, onDuration, offDuration, cycleTime,
                     endTime, shut>>
  BY DEF LoadStartsPWM
<1>3. pulse' \in [Pins -> [since : Ticks, first : BOOLEAN]]
  <2>1. now \in Ticks /\ (~on[p]) \in BOOLEAN
    BY DEF TypeInv, TypeOK, TimersTypeOK
  <2>2. QED BY <2>1 DEF LoadStartsPWM, TypeInv, TypeOK
<1>4. level' \in [Pins -> BOOLEAN] /\ handler' \in [Pins -> Handlers]
  BY <1>2 DEF TypeInv, TypeOK, Handlers
<1>5. TypeOK'
  BY <1>1, <1>2, <1>3, <1>4 DEF TypeInv, TypeOK
<1>6. ~shut[p]
  BY <1>2 DEF TypeInv, AtDefault
<1>7. DurationsFit' /\ AtDefault'
  BY <1>2, <1>6 DEF TypeInv, TypeOK, DurationsFit, AtDefault
<1>8. QED BY <1>5, <1>7 DEF TypeInv

LEMMA LoadSetsTypeInv ==
  ASSUME TypeInv, NEW p \in Pins, LoadSets(p)
  PROVE  TypeInv'
<1>1. TimersTypeOK' /\ handler' \in [Pins -> Handlers]
  <2>1. CASE checkEnd[p]
    <3>1. endTime[p] \in Ticks
      BY DEF TypeInv, TypeOK
    <3>2. TimersTypeOK'
      BY <2>1, <3>1, PinsAreTimers, RescheduleTyped DEF LoadSets, TypeInv, TypeOK
    <3>3. handler' \in [Pins -> Handlers]
      BY <2>1 DEF LoadSets, TypeInv, TypeOK, Handlers
    <3>4. QED BY <3>2, <3>3
  <2>2. CASE ~checkEnd[p]
    <3>1. TimersTypeOK'
      BY <2>2, PinsAreTimers, DoneTyped DEF LoadSets, TypeInv, TypeOK
    <3>2. handler' \in [Pins -> Handlers]
      BY <2>2 DEF LoadSets, TypeInv, TypeOK
    <3>3. QED BY <3>1, <3>2
  <2>3. QED BY <2>1, <2>2
<1>2. /\ level' = [level EXCEPT ![p] = on[p]] /\ on[p] \in BOOLEAN
      /\ UNCHANGED <<on, toggling, checkEnd, onDuration, offDuration, cycleTime,
                     endTime, shut, pulse>>
  BY DEF LoadSets, TypeInv, TypeOK
<1>3. TypeOK'
  BY <1>1, <1>2 DEF TypeInv, TypeOK
<1>4. DurationsFit' /\ AtDefault'
  BY <1>2 DEF TypeInv, TypeOK, DurationsFit, AtDefault
<1>5. QED BY <1>3, <1>4 DEF TypeInv

LEMMA ToggleStopsTypeInv ==
  ASSUME TypeInv, NEW p \in Pins, ToggleStops(p)
  PROVE  TypeInv'
<1>1. TimersTypeOK'
  BY PinsAreTimers, DoneTyped DEF ToggleStops, TypeInv, TypeOK
<1>2. UNCHANGED pinVars
  BY DEF ToggleStops
<1>3. QED BY <1>1, <1>2 DEF TypeInv, TypeOK, DurationsFit, AtDefault, pinVars

LEMMA ToggleTypeInv ==
  ASSUME TypeInv, NEW p \in Pins, Toggle(p)
  PROVE  TypeInv'
<1>1. /\ toggling[p] /\ ~shut[p]
      /\ on' = [on EXCEPT ![p] = ~on[p]] /\ level' = [level EXCEPT ![p] = on'[p]]
      /\ UNCHANGED <<toggling, checkEnd, onDuration, offDuration, cycleTime,
                     endTime, shut>>
  BY DEF Toggle, TypeInv, AtDefault
<1>2. on' \in [Pins -> BOOLEAN] /\ level' \in [Pins -> BOOLEAN]
  BY <1>1 DEF TypeInv, TypeOK
<1>3. ClockAdd(now, PulseLeft(p)) \in Ticks /\ endTime[p] \in Ticks
  <2>1. PulseLeft(p) \in Nat /\ PulseLeft(p) < HalfRange
    BY DEF PulseLeft, TypeInv, TypeOK, DurationsFit
  <2>2. QED BY <2>1, ClockAddType DEF TypeInv, TypeOK, TimersTypeOK
<1>4. TimersTypeOK' /\ handler' \in [Pins -> Handlers]
  <2>1. CASE EndComesFirst(p)
    <3>1. TimersTypeOK'
      BY <1>3, <2>1, PinsAreTimers, RescheduleTyped DEF Toggle, TypeInv, TypeOK
    <3>2. handler' \in [Pins -> Handlers]
      BY <2>1 DEF Toggle, TypeInv, TypeOK, Handlers
    <3>3. QED BY <3>1, <3>2
  <2>2. CASE ~EndComesFirst(p)
    <3>1. TimersTypeOK'
      BY <1>3, <2>2, PinsAreTimers, RescheduleTyped DEF Toggle, TypeInv, TypeOK
    <3>2. handler' \in [Pins -> Handlers]
      BY <2>2 DEF Toggle, TypeInv, TypeOK
    <3>3. QED BY <3>1, <3>2
  <2>3. QED BY <2>1, <2>2
<1>5. pulse' \in [Pins -> [since : Ticks, first : BOOLEAN]]
  <2>1. now \in Ticks
    BY DEF TypeInv, TypeOK, TimersTypeOK
  <2>2. QED BY <2>1 DEF Toggle, TypeInv, TypeOK
<1>6. TypeOK'
  BY <1>1, <1>2, <1>4, <1>5 DEF TypeInv, TypeOK
<1>7. DurationsFit' /\ AtDefault'
  BY <1>1 DEF TypeInv, TypeOK, DurationsFit, AtDefault
<1>8. QED BY <1>6, <1>7 DEF TypeInv

LEMMA EndTypeInv ==
  ASSUME TypeInv, NEW p \in Pins, End(p)
  PROVE  TypeInv'
<1>1. TimersTypeOK'
  BY PinsAreTimers, DoneTyped DEF End, TypeInv, TypeOK
<1>2. /\ level' = [level EXCEPT ![p] = Default(p)]
      /\ on' = [on EXCEPT ![p] = Default(p)]
      /\ toggling' = [toggling EXCEPT ![p] = FALSE]
      /\ checkEnd' = [checkEnd EXCEPT ![p] = FALSE]
      /\ endTime' = [endTime EXCEPT ![p] = 0]
      /\ UNCHANGED <<handler, onDuration, offDuration, cycleTime, shut, pulse>>
  BY DEF End
<1>3. Default(p) \in BOOLEAN
  BY DEF Default
<1>4. {level', on', toggling', checkEnd', shut'} \subseteq [Pins -> BOOLEAN]
  BY <1>2, <1>3 DEF TypeInv, TypeOK
<1>5. endTime' \in [Pins -> Ticks]
  BY <1>2, ZeroIsTick DEF TypeInv, TypeOK
<1>6. TypeOK'
  BY <1>1, <1>2, <1>4, <1>5 DEF TypeInv, TypeOK
<1>7. DurationsFit' /\ AtDefault'
  BY <1>2 DEF TypeInv, TypeOK, DurationsFit, AtDefault
<1>8. QED BY <1>6, <1>7 DEF TypeInv

LEMMA TimerStepChanges ==
  ASSUME TypeInv, TimerStep
  PROVE  /\ list' = list /\ wake' = wake /\ hung' = hung
         /\ \/ now' = now
            \/ now' = ClockAdd(now, 1) /\ \A t \in Reached(list) : Age(t) < MaxLate
         /\ TimersTypeOK'
<1>1. /\ list' = list /\ wake' = wake /\ hung' = hung
      /\ \/ now' = now
         \/ now' = ClockAdd(now, 1) /\ \A t \in Reached(list) : Age(t) < MaxLate
  BY DEF TimerStep, Tick, ProcessTimers, DispatchReturn
<1>2. dispatching' \in BOOLEAN
  BY DEF TypeInv, TypeOK, TimersTypeOK, TimerStep, Tick, ProcessTimers, DispatchReturn
<1>3. now' \in Ticks
  BY <1>1, ClockTicks DEF TypeInv, TypeOK, TimersTypeOK
<1>4. TimersTypeOK'
  BY <1>1, <1>2, <1>3 DEF TypeInv, TypeOK, TimersTypeOK
<1>5. QED BY <1>1, <1>4

LEMMA NextTypeInv == TypeInv /\ [Next]_vars => TypeInv'
<1> SUFFICES ASSUME TypeInv, [Next]_vars PROVE TypeInv'
  OBVIOUS
<1>1. ASSUME NEW p \in Pins, NEW w \in Ticks, NEW ticks \in OnTicks, Queue(p, w, ticks)
      PROVE  TypeInv'
  BY <1>1, QueueTypeInv
<1>2. ASSUME NEW p \in Pins, NEW value \in BOOLEAN, Update(p, value) PROVE TypeInv'
  BY <1>2, UpdateTypeInv
<1>3. ASSUME NEW p \in Pins, NEW ticks \in Cycles, SetPWMCycle(p, ticks) PROVE TypeInv'
  BY <1>3, SetPWMCycleTypeInv
<1>4. CASE ShutdownAll
  BY <1>4, ShutdownAllTypeInv
<1>5. ASSUME NEW p \in Pins,
             LoadStartsPWM(p) \/ LoadSets(p) \/ ToggleStops(p) \/ Toggle(p) \/ End(p)
      PROVE  TypeInv'
  BY <1>5, LoadStartsPWMTypeInv, LoadSetsTypeInv, ToggleStopsTypeInv, ToggleTypeInv,
     EndTypeInv
<1>6. CASE TimerStep /\ UNCHANGED pinVars
  BY <1>6, TimerStepChanges DEF TypeInv, TypeOK, DurationsFit, AtDefault, pinVars
<1>7. CASE UNCHANGED vars
  BY <1>7 DEF vars, timerVars, pinVars, TypeInv, TypeOK, TimersTypeOK, DurationsFit,
     AtDefault
<1>8. QED BY <1>1, <1>2, <1>3, <1>4, <1>5, <1>6, <1>7 DEF Next, Command, Handler

LEMMA TypeInvariance == Spec => []TypeInv
BY InitTypeInv, NextTypeInv, PTL DEF Spec

(* Whatever the host sends, and also when it queues a change on a pin      *)
(* whose timer is linked: pointers stay pointers of timers, the parts of a *)
(* pulse are not negative, clock values wrap (gpio.go:88-427).             *)
THEOREM TypeCorrect == Spec => []TypeOK
<1>1. TypeInv => TypeOK
  BY DEF TypeInv
<1>2. QED BY <1>1, TypeInvariance, PTL

(* Once shut down a pin stays at its default until the host commands it    *)
(* again: no change queued before, no pulse and no end of a maximum        *)
(* duration drives it, with any host (gpio.go:410-427).                    *)
THEOREM ShutdownAlwaysHolds == Spec => []ShutdownHolds
<1>1. TypeInv => ShutdownHolds
  BY DEF TypeInv, AtDefault, ShutdownHolds
<1>2. QED BY <1>1, TypeInvariance, PTL

-----------------------------------------------------------------------------
(* Clock and list: with a host that queues no change on a linked pin.      *)

(* Every linked timer is due within half the clock's range, and none is    *)
(* later than the main loop lets it be.                                    *)
OnTimeOrAhead(p) == Age(p) > -HalfRange /\ Age(p) <= MaxLate

(* A watched pin has its end before it: at its change, or at the end.      *)
Watched(p) ==
  /\ p \in Limited /\ p \in Linked(list)
  /\ \/ handler[p] = "load" /\ endTime[p] = ClockAdd(wake[p], MaxDuration)
     \/ handler[p] = "end" /\ endTime[p] = wake[p]

(* A pin with a maximum duration is never pulsed.                          *)
Steady(p) == cycleTime[p] = 0 /\ ~toggling[p] /\ handler[p] # "toggle"

(* Unless it is updated, it is away from its default only while its end is *)
(* awaited.                                                                *)
Held(p) ==
  /\ ~checkEnd[p] => on[p] = Default(p)
  /\ level[p] # Default(p) =>
       checkEnd[p] /\ handler[p] = "end" /\ Age(p) >= -MaxDuration

(* Both parts of a pulse, and the first one twice, end within half the     *)
(* clock's range.                                                          *)
Fits(p) ==
  /\ 2 * (onDuration[p] + MaxLate) < HalfRange
  /\ offDuration[p] + MaxLate < HalfRange

(* How long before the wake time of its timer the level of a pulsed pin    *)
(* began: at the toggle before, or, in the second half of a first pulse,   *)
(* one toggle earlier, which may have been late.                           *)
Lead(p) ==
  IF pulse[p].first /\ on[p] THEN 2 * onDuration[p]
  ELSE IF level[p] THEN onDuration[p] ELSE offDuration[p]
Slack(p) == IF pulse[p].first /\ on[p] THEN MaxLate ELSE 0

Pulsed(p) == toggling[p] /\ handler[p] = "toggle"

Pulsing(p) ==
  /\ IF pulse[p].first THEN level[p] ELSE level[p] = on[p]
  /\ Lasted(p) - Age(p) \in Lead(p) .. Lead(p) + Slack(p)

(* What is kept of each pin.                                               *)
PinInv(p) ==
  /\ p \in Linked(list) => OnTimeOrAhead(p)
  /\ checkEnd[p] => Watched(p)
  /\ p \in Limited => Steady(p)
  /\ p \in Limited /\ "update" \notin Careless => Held(p)
  /\ toggling[p] => p \in Linked(list) /\ Fits(p)
  /\ Pulsed(p) => Pulsing(p)

IInv ==
  /\ TypeInv
  /\ IsList(list) /\ Linked(list) \subseteq Pins
  /\ hung = FALSE
  /\ \A p \in Pins : PinInv(p)

LEMMA InitIInv == Init => IInv
<1> SUFFICES ASSUME Init PROVE IInv
  OBVIOUS
<1>1. IsList(list) /\ Linked(list) = {} /\ hung = FALSE
  BY EmptyIsList DEF Init, TimersInit
<1>2. \A p \in Pins : /\ checkEnd[p] = FALSE /\ toggling[p] = FALSE
                      /\ cycleTime[p] = 0 /\ handler[p] = "load"
  BY DEF Init
<1>3. \A p \in Limited : level[p] = Default(p) /\ on[p] = Default(p)
  BY DEF Init
<1>4. QED
  BY <1>1, <1>2, <1>3, InitTypeInv DEF IInv, PinInv, Steady, Held, Pulsed

(* A step that schedules nothing for q and leaves its part of the state.   *)
LEMMA OtherPin ==
  ASSUME NEW q \in Pins, PinInv(q),
         q \in Linked(list') <=> q \in Linked(list),
         wake'[q] = wake[q], now' = now,
         level'[q] = level[q], on'[q] = on[q], toggling'[q] = toggling[q],
         checkEnd'[q] = checkEnd[q], handler'[q] = handler[q],
         onDuration'[q] = onDuration[q], offDuration'[q] = offDuration[q],
         cycleTime'[q] = cycleTime[q], endTime'[q] = endTime[q],
         pulse'[q] = pulse[q]
  PROVE  PinInv(q)'
BY DEF PinInv, OnTimeOrAhead, Watched, Steady, Held, Fits, Pulsed, Pulsing, Lead,
       Slack, Lasted, Age

(* A timer that is set between now and half the clock's range ahead.       *)
LEMMA SetAhead ==
  ASSUME NEW p, now \in Ticks, now' = now, NEW d \in Nat, d < HalfRange,
         wake'[p] = ClockAdd(now, d)
  PROVE  OnTimeOrAhead(p)' /\ Age(p)' = -d
<1>1. SignedDiff(now, ClockAdd(now, d)) = -d
  BY ClockAhead
<1>2. QED BY <1>1, Delays DEF OnTimeOrAhead, Age

LEMMA FiresAged ==
  ASSUME IInv, NEW p \in Pins, Fires(p)
  PROVE  /\ p \in Linked(list) /\ IsList(PopHead(list))
         /\ Linked(PopHead(list)) = Linked(list) \ {p}
         /\ Age(p) \in 0 .. MaxLate /\ now' = now
         /\ now \in Ticks /\ wake \in [Timers -> Ticks] /\ p \in Timers
<1>1. list.head = p /\ p # Nil /\ p \in Timers /\ Age(p) >= 0 /\ now' = now
  BY PinsAreTimers DEF Fires
<1>2. /\ p \in Linked(list) /\ IsList(PopHead(list))
      /\ Linked(PopHead(list)) = Linked(list) \ {p}
  BY <1>1, PopUnlinks DEF IInv
<1>3. now \in Ticks /\ wake \in [Timers -> Ticks]
  BY DEF IInv, TypeInv, TypeOK, TimersTypeOK
<1>4. Age(p) \in Int
  BY <1>1, <1>3, SignedDiffType, Delays DEF Age
<1>5. Age(p) <= MaxLate
  BY <1>2 DEF IInv, PinInv, OnTimeOrAhead
<1>6. QED BY <1>1, <1>2, <1>3, <1>4, <1>5, Delays

LEMMA PinRescheduled ==
  ASSUME IInv, NEW p \in Pins, Fires(p), NEW w, Reschedule(p, w)
  PROVE  /\ hung' = FALSE /\ wake' = [wake EXCEPT ![p] = w] /\ IsList(list')
         /\ Linked(list') = Linked(list)
<1> DEFINE rest == PopHead(list)
           new == [wake EXCEPT ![p] = w]
<1>1. /\ IsList(rest) /\ Linked(rest) = Linked(list) \ {p}
      /\ p \in Linked(list) /\ p \in Timers
  BY FiresAged
<1>2. Insert(rest, new, p)
  BY DEF Reschedule
<1> HIDE DEF rest, new
<1>3. /\ ~InsertHangs(rest, new, p) /\ IsList(InsertTimer(rest, new, p))
      /\ Linked(InsertTimer(rest, new, p)) = Linked(rest) \union {p}
  BY <1>1, InsertLinks
<1>4. hung' = FALSE
  BY <1>2, <1>3 DEF Insert, InsertHangs
<1>5. list' = InsertTimer(rest, new, p) /\ wake' = new
  BY <1>2, <1>3 DEF Insert
<1>6. QED BY <1>1, <1>3, <1>4, <1>5 DEF new

LEMMA PinDone ==
  ASSUME IInv, NEW p \in Pins, Fires(p), Done(p)
  PROVE  /\ hung' = FALSE /\ wake' = [wake EXCEPT ![p] = 0] /\ IsList(list')
         /\ Linked(list') = Linked(list) \ {p}
BY FiresAged DEF Done, IInv

LEMMA QueueStep ==
  ASSUME IInv, "queue" \notin Careless, "pulse" \notin Careless,
         NEW p \in Pins, NEW w \in Ticks, NEW ticks \in OnTicks, Queue(p, w, ticks)
  PROVE  IInv'
<1>1. p \notin Linked(list) /\ p \in Timers /\ now' = now /\ IsList(list)
      /\ now \in Ticks /\ wake \in [Timers -> Ticks]
  BY PinsAreTimers DEF Queue, IInv, TypeInv, TypeOK, TimersTypeOK
<1>2. /\ hung' = FALSE /\ wake' = [wake EXCEPT ![p] = w] /\ IsList(list')
      /\ Linked(list') = Linked(list) \union {p}
  <2> DEFINE new == [wake EXCEPT ![p] = w]
  <2>1. Insert(list, new, p)
    BY <1>1, NotLinkedIsClear DEF Queue
  <2> HIDE DEF new
  <2>2. /\ ~InsertHangs(list, new, p) /\ IsList(InsertTimer(list, new, p))
        /\ Linked(InsertTimer(list, new, p)) = Linked(list) \union {p}
    BY <1>1, InsertLinks
  <2>3. hung' = FALSE
    BY <2>1, <2>2 DEF Insert, InsertHangs
  <2>4. list' = InsertTimer(list, new, p) /\ wake' = new
    BY <2>1, <2>2 DEF Insert
  <2>5. QED BY <2>2, <2>3, <2>4 DEF new
<1>3. TypeInv'
  BY QueueTypeInv DEF IInv
<1>4. PinInv(p)'
  <2>1. OnTimeOrAhead(p)'
    <3>1. SignedDiff(w, now) \in 0 .. Ahead
      BY DEF Queue
    <3>2. SignedDiff(now, w) = -SignedDiff(w, now)
      BY <1>1, <3>1, ClockNegated, Delays
    <3>3. wake'[p] = w
      BY <1>1, <1>2
    <3>4. QED BY <1>1, <3>1, <3>2, <3>3, Delays DEF OnTimeOrAhead, Age
  <2>2. /\ handler'[p] = "load" /\ cycleTime' = cycleTime
        /\ toggling'[p] = (ticks \in 1 .. cycleTime[p] - 1)
    BY DEF Queue, IInv, TypeInv, TypeOK
  <2>3. p \in Limited => cycleTime[p] = 0
    BY DEF IInv, PinInv, Steady
  <2>4. p \in Limited => Steady(p)'
    <3>1. cycleTime[p] = 0 => ~(ticks \in 1 .. cycleTime[p] - 1)
      OBVIOUS
    <3>2. p \in Limited => ~toggling'[p]
      BY <2>2, <2>3, <3>1
    <3>3. QED BY <2>2, <2>3, <3>2 DEF Steady
  <2>5. checkEnd'[p] => Watched(p)'
    <3>1. CASE p \notin Limited
      <4>1. ~checkEnd[p]
        BY <3>1 DEF IInv, PinInv, Watched
      <4>2. QED BY <3>1, <4>1 DEF Queue
    <3>2. CASE p \in Limited
      <4>1. checkEnd'[p] => endTime'[p] = ClockAdd(w, MaxDuration)
        BY <3>2 DEF Queue, IInv, TypeInv, TypeOK
      <4>2. QED BY <1>1, <1>2, <2>2, <3>2, <4>1 DEF Watched
    <3>3. QED BY <3>1, <3>2
  <2>6. p \in Limited /\ "update" \notin Careless => Held(p)'
    <3> SUFFICES ASSUME p \in Limited, "update" \notin Careless PROVE Held(p)'
      OBVIOUS
    <3>1. level'[p] = Default(p)
      BY <1>1 DEF Queue, IInv, PinInv, Held, Watched
    <3>2. checkEnd'[p] = (on'[p] # Default(p))
      BY DEF Queue, IInv, TypeInv, TypeOK
    <3>3. QED BY <3>1, <3>2 DEF Held, Default
  <2>7. toggling'[p] => Fits(p)'
    <3> DEFINE c == cycleTime[p]
    <3> SUFFICES ASSUME ticks \in 1 .. c - 1 PROVE Fits(p)'
      BY <2>2
    <3>1. c \in {0} \union Cycles
      BY DEF IInv, TypeInv, DurationsFit
    <3>2. c \in Cycles /\ c \in Nat /\ c + MaxLate < HalfRange /\ ticks < c
      BY <3>1, Delays
    <3>3. OnTime(p, ticks) = ticks /\ cycleTime[p] # 0
      BY <3>2, Delays DEF OnTime
    <3>4. onDuration'[p] = ticks /\ offDuration'[p] = c - ticks
      BY <3>3 DEF Queue, QueueDurations, IInv, TypeInv, TypeOK
    <3>5. 2 * (ticks + MaxLate) < HalfRange
      BY <3>2, DigitalOutAssumption
    <3> HIDE DEF c
    <3>6. QED BY <3>2, <3>4, <3>5, Delays DEF Fits
  <2>8. QED BY <1>2, <2>1, <2>2, <2>4, <2>5, <2>6, <2>7 DEF PinInv, Pulsed
<1>5. ASSUME NEW q \in Pins, q # p PROVE PinInv(q)'
  <2>1. /\ wake'[q] = wake[q] /\ (q \in Linked(list') <=> q \in Linked(list))
        /\ q \in Timers
    BY <1>1, <1>2, <1>5, PinsAreTimers
  <2>2. /\ level'[q] = level[q] /\ toggling'[q] = toggling[q]
        /\ on'[q] = on[q] /\ pulse' = pulse
        /\ handler'[q] = handler[q] /\ cycleTime'[q] = cycleTime[q]
    BY <1>5 DEF Queue, IInv, TypeInv, TypeOK
  <2>3. checkEnd'[q] = checkEnd[q] /\ endTime'[q] = endTime[q]
    BY <1>5 DEF Queue, IInv, TypeInv, TypeOK
  <2>4. onDuration'[q] = onDuration[q] /\ offDuration'[q] = offDuration[q]
    BY <1>5 DEF Queue, QueueDurations, IInv, TypeInv, TypeOK
  <2>5. PinInv(q)
    BY DEF IInv
  <2>6. QED BY <1>1, <2>1, <2>2, <2>3, <2>4, <2>5, OtherPin
<1>6. QED BY <1>2, <1>3, <1>4, <1>5 DEF IInv

LEMMA UpdateStep ==
  ASSUME IInv, NEW p \in Pins, NEW value \in BOOLEAN, Update(p, value)
  PROVE  IInv'
<1>1. /\ UNCHANGED <<timerVars, checkEnd, handler, onDuration, offDuration,
                     cycleTime, endTime>>
      /\ toggling'[p] = FALSE
      /\ \A q \in Pins \ {p} :
           /\ level'[q] = level[q] /\ toggling'[q] = toggling[q]
           /\ on'[q] = on[q] /\ pulse'[q] = pulse[q]
      /\ p \in Limited => "update" \in Careless
  BY DEF Update, IInv, TypeInv, TypeOK
<1>2. TypeInv'
  BY UpdateTypeInv DEF IInv
<1>3. PinInv(p)'
  BY <1>1 DEF IInv, PinInv, OnTimeOrAhead, Age, Watched, Steady, Pulsed, timerVars
<1>4. ASSUME NEW q \in Pins \ {p} PROVE PinInv(q)'
  BY <1>1, <1>4, OtherPin DEF IInv, timerVars
<1>5. QED BY <1>1, <1>2, <1>3, <1>4 DEF IInv, timerVars

LEMMA SetPWMCycleStep ==
  ASSUME IInv, "pulse" \notin Careless,
         NEW p \in Pins, NEW ticks \in Cycles, SetPWMCycle(p, ticks)
  PROVE  IInv'
<1>1. /\ UNCHANGED <<timerVars, level, on, toggling, checkEnd, handler,
                     onDuration, offDuration, endTime, shut, pulse>>
      /\ p \notin Limited
      /\ \A q \in Pins \ {p} : cycleTime'[q] = cycleTime[q]
  BY DEF SetPWMCycle, IInv, TypeInv, TypeOK
<1>2. TypeInv'
  BY SetPWMCycleTypeInv DEF IInv
<1>3. PinInv(p)'
  BY <1>1 DEF IInv, PinInv, OnTimeOrAhead, Age, Watched, Steady, Fits, Pulsed, Pulsing,
              Lead, Slack, Lasted, timerVars
<1>4. ASSUME NEW q \in Pins \ {p} PROVE PinInv(q)'
  BY <1>1, <1>4, OtherPin DEF IInv, timerVars
<1>5. QED BY <1>1, <1>2, <1>3, <1>4 DEF IInv, timerVars

(* Shutdown cuts the list behind its first timer, which runs once more and *)
(* finds nothing to do.                                                    *)
LEMMA ShutdownAllStep == IInv /\ ShutdownAll => IInv'
<1> SUFFICES ASSUME IInv, ShutdownAll PROVE IInv'
  OBVIOUS
<1>1. IsList(list') /\ Linked(list') \subseteq Linked(list)
  <2>1. list' = [list EXCEPT !.next = [t \in Timers |-> Nil]]
    <3>1. \A t \in Timers \ Pins : list.next[t] = Nil
      BY NotLinkedIsClear DEF IInv
    <3>2. [t \in Timers |-> IF t \in Pins THEN Nil ELSE list.next[t]]
            = [t \in Timers |-> Nil]
      BY <3>1
    <3>3. list' = [list EXCEPT !.next = [t \in Timers |->
                                          IF t \in Pins THEN Nil ELSE list.next[t]]]
      BY DEF ShutdownAll, Cut, IInv, IsList, Lists
    <3>4. QED BY <3>2, <3>3
  <2>2. QED BY <2>1, ClearLeavesFirst DEF IInv
<1>2. /\ UNCHANGED <<wake, now, dispatching, hung, handler, onDuration,
                     offDuration, cycleTime>>
      /\ \A p \in Pins : /\ toggling'[p] = FALSE /\ checkEnd'[p] = FALSE
                         /\ level'[p] = Default(p) /\ on'[p] = Default(p)
  BY DEF ShutdownAll, ToDefaults
<1>3. TypeInv'
  BY ShutdownAllTypeInv DEF IInv
<1>4. ASSUME NEW p \in Pins PROVE PinInv(p)'
  BY <1>1, <1>2 DEF IInv, PinInv, OnTimeOrAhead, Age, Steady, Held, Pulsed
<1>5. QED BY <1>1, <1>2, <1>3, <1>4 DEF IInv

LEMMA LoadStartsPWMStep ==
  ASSUME IInv, NEW p \in Pins, LoadStartsPWM(p)
  PROVE  IInv'
<1> DEFINE w == ClockAdd(now, onDuration[p])
<1>1. /\ hung' = FALSE /\ wake' = [wake EXCEPT ![p] = w] /\ IsList(list')
      /\ Linked(list') = Linked(list)
  BY PinRescheduled DEF LoadStartsPWM
<1>2. /\ p \in Linked(list) /\ now' = now /\ now \in Ticks
      /\ wake \in [Timers -> Ticks] /\ p \in Timers
  BY FiresAged DEF LoadStartsPWM
<1>3. TypeInv'
  BY LoadStartsPWMTypeInv DEF IInv
<1>4. /\ toggling[p] /\ level'[p] = TRUE /\ handler'[p] = "toggle"
      /\ UNCHANGED <<on, toggling, checkEnd, onDuration, offDuration, cycleTime,
                     endTime, shut>>
      /\ pulse'[p] = [since |-> now, first |-> ~on[p]]
      /\ \A q \in Pins \ {p} : /\ level'[q] = level[q] /\ handler'[q] = handler[q]
                               /\ pulse'[q] = pulse[q]
  BY DEF LoadStartsPWM, IInv, TypeInv, TypeOK
<1>5. PinInv(p)'
  <2>1. p \notin Limited /\ ~checkEnd[p]
    BY <1>4 DEF IInv, PinInv, Steady, Watched
  <2>2. onDuration[p] \in Nat /\ onDuration[p] < HalfRange
    BY DEF IInv, TypeInv, TypeOK, DurationsFit
  <2>3. OnTimeOrAhead(p)' /\ Age(p)' = -onDuration[p]
    <3>1. wake'[p] = w
      BY <1>1, <1>2
    <3>2. QED BY <1>2, <2>2, <3>1, SetAhead
  <2>4. Fits(p)'
    BY <1>4 DEF IInv, PinInv, Fits
  <2>5. Pulsing(p)'
    <3>1. pulse'[p].first = ~on[p] /\ on' = on /\ on[p] \in BOOLEAN
      BY <1>4 DEF IInv, TypeInv, TypeOK
    <3>2. (IF pulse[p].first THEN level[p] ELSE level[p] = on[p])'
      BY <1>4, <3>1, Zenon
    <3>3. Lasted(p)' = 0
      BY <1>2, <1>4, ClockSame DEF Lasted
    <3>4. Lead(p)' = onDuration[p] /\ Slack(p)' = 0
      <4>1. ~(pulse'[p].first /\ on'[p])
        BY <3>1, Zenon
      <4>2. level'[p]
        BY <1>4
      <4>3. QED BY <1>4, <4>1, <4>2 DEF Lead, Slack
    <3>5. (Lasted(p) - Age(p))' = onDuration[p]
      BY <2>2, <2>3, <3>3
    <3>6. (Lasted(p) - Age(p))' \in (Lead(p) .. Lead(p) + Slack(p))'
      BY <2>2, <3>4, <3>5
    <3>7. QED BY <3>2, <3>6 DEF Pulsing
  <2>6. QED BY <1>1, <1>2, <1>4, <2>1, <2>3, <2>4, <2>5 DEF PinInv
<1>6. ASSUME NEW q \in Pins \ {p} PROVE PinInv(q)'
  BY <1>1, <1>2, <1>4, <1>6, PinsAreTimers, OtherPin DEF IInv
<1>7. QED BY <1>1, <1>3, <1>5, <1>6 DEF IInv

LEMMA LoadSetsStep ==
  ASSUME IInv, NEW p \in Pins, LoadSets(p)
  PROVE  IInv'
<1>1. /\ p \in Linked(list) /\ now' = now /\ now \in Ticks
      /\ wake \in [Timers -> Ticks] /\ p \in Timers /\ Age(p) \in 0 .. MaxLate
  BY FiresAged DEF LoadSets
<1>2. TypeInv'
  BY LoadSetsTypeInv DEF IInv
<1>3. /\ ~toggling[p] /\ handler[p] = "load"
      /\ UNCHANGED <<on, toggling, checkEnd, onDuration, offDuration, cycleTime,
                     endTime, shut, pulse>>
      /\ \A q \in Pins \ {p} : level'[q] = level[q]
      /\ level'[p] = on[p]
  BY DEF LoadSets, IInv, TypeInv, TypeOK
<1>4. CASE checkEnd[p]
  <2>1. /\ hung' = FALSE /\ wake' = [wake EXCEPT ![p] = endTime[p]] /\ IsList(list')
        /\ Linked(list') = Linked(list)
    BY <1>4, PinRescheduled DEF LoadSets
  <2>2. handler' = [handler EXCEPT ![p] = "end"]
    BY <1>4 DEF LoadSets
  <2>3. handler'[p] = "end" /\ \A q \in Pins \ {p} : handler'[q] = handler[q]
    BY <2>2 DEF IInv, TypeInv, TypeOK
  <2>4. /\ p \in Limited /\ endTime[p] = ClockAdd(wake[p], MaxDuration)
    BY <1>3, <1>4 DEF IInv, PinInv, Watched
  <2>5. OnTimeOrAhead(p)'
    <3>1. SignedDiff(now, wake[p]) \in 0 .. MaxLate
      BY <1>1 DEF Age
    <3>2. SignedDiff(now, ClockAdd(wake[p], MaxDuration))
            = SignedDiff(now, wake[p]) - MaxDuration
      BY <1>1, <3>1, Delays, ClockFurther
    <3>3. wake'[p] = endTime[p]
      BY <1>1, <2>1
    <3>4. QED BY <1>1, <2>4, <3>1, <3>2, <3>3, Delays DEF OnTimeOrAhead, Age
  <2>6. Age(p)' >= -MaxDuration
    <3>1. SignedDiff(now, wake[p]) \in 0 .. MaxLate
      BY <1>1 DEF Age
    <3>2. SignedDiff(now, ClockAdd(wake[p], MaxDuration))
            = SignedDiff(now, wake[p]) - MaxDuration
      BY <1>1, <3>1, Delays, ClockFurther
    <3>3. wake'[p] = endTime[p]
      BY <1>1, <2>1
    <3>4. QED BY <1>1, <2>4, <3>1, <3>2, <3>3, Delays DEF Age
  <2>7. PinInv(p)'
    <3>1. Watched(p)'
      BY <1>1, <1>3, <2>1, <2>3, <2>4 DEF Watched
    <3>2. Steady(p)'
      BY <1>3, <2>3, <2>4 DEF IInv, PinInv, Steady
    <3>3. Held(p)'
      BY <1>3, <1>4, <2>3, <2>6 DEF Held
    <3>4. QED BY <1>3, <2>5, <3>1, <3>2, <3>3 DEF PinInv, Pulsed
  <2>8. ASSUME NEW q \in Pins \ {p} PROVE PinInv(q)'
    BY <1>1, <1>3, <2>1, <2>3, <2>8, PinsAreTimers, OtherPin DEF IInv
  <2>9. QED BY <1>2, <2>1, <2>7, <2>8 DEF IInv
<1>5. CASE ~checkEnd[p]
  <2>1. /\ hung' = FALSE /\ wake' = [wake EXCEPT ![p] = 0] /\ IsList(list')
        /\ Linked(list') = Linked(list) \ {p} /\ handler' = handler
    BY <1>5, PinDone DEF LoadSets
  <2>2. PinInv(p)'
    BY <1>3, <1>5, <2>1 DEF IInv, PinInv, Steady, Held, Pulsed
  <2>3. ASSUME NEW q \in Pins \ {p} PROVE PinInv(q)'
    BY <1>1, <1>3, <2>1, <2>3, PinsAreTimers, OtherPin DEF IInv
  <2>4. QED BY <1>2, <2>1, <2>2, <2>3 DEF IInv
<1>6. QED BY <1>4, <1>5

LEMMA ToggleStopsStep ==
  ASSUME IInv, NEW p \in Pins, ToggleStops(p)
  PROVE  IInv'
<1>1. now' = now /\ wake \in [Timers -> Ticks] /\ p \in Timers
  BY FiresAged DEF ToggleStops
<1>2. /\ hung' = FALSE /\ wake' = [wake EXCEPT ![p] = 0] /\ IsList(list')
      /\ Linked(list') = Linked(list) \ {p} /\ ~toggling[p]
      /\ handler[p] = "toggle" /\ UNCHANGED pinVars
  BY PinDone DEF ToggleStops
<1>3. TypeInv'
  BY ToggleStopsTypeInv DEF IInv
<1>4. PinInv(p)'
  <2>1. ~checkEnd[p]
    BY <1>2 DEF IInv, PinInv, Watched
  <2>2. p \notin Limited
    BY <1>2 DEF IInv, PinInv, Steady
  <2>3. QED BY <1>2, <2>1, <2>2 DEF IInv, PinInv, Pulsed, pinVars
<1>5. ASSUME NEW q \in Pins \ {p} PROVE PinInv(q)'
  BY <1>1, <1>2, <1>5, PinsAreTimers, OtherPin DEF IInv, pinVars
<1>6. QED BY <1>2, <1>3, <1>4, <1>5 DEF IInv

LEMMA ToggleStep ==
  ASSUME IInv, NEW p \in Pins, Toggle(p)
  PROVE  IInv'
<1>1. /\ toggling[p] /\ handler[p] = "toggle" /\ Fires(p)
      /\ on' = [on EXCEPT ![p] = ~on[p]] /\ level' = [level EXCEPT ![p] = on'[p]]
      /\ UNCHANGED <<toggling, checkEnd, onDuration, offDuration, cycleTime,
                     endTime, shut>>
  BY DEF Toggle
<1>2. p \notin Limited /\ ~checkEnd[p]
  BY <1>1 DEF IInv, PinInv, Steady, Watched
<1> DEFINE d == PulseLeft(p)
<1>3. handler' = handler /\ Reschedule(p, ClockAdd(now, d))
  BY <1>2 DEF Toggle, EndComesFirst
<1>4. /\ hung' = FALSE /\ wake' = [wake EXCEPT ![p] = ClockAdd(now, d)]
      /\ IsList(list') /\ Linked(list') = Linked(list)
  BY <1>1, <1>3, PinRescheduled
<1>5. /\ p \in Linked(list) /\ now' = now /\ now \in Ticks
      /\ wake \in [Timers -> Ticks] /\ p \in Timers
  BY <1>1, FiresAged
<1>6. TypeInv'
  BY ToggleTypeInv DEF IInv
<1>7. /\ level'[p] = on'[p]
      /\ \A q \in Pins \ {p} : level'[q] = level[q] /\ on'[q] = on[q]
  BY <1>1 DEF IInv, TypeInv, TypeOK
<1>8. /\ on'[p] = ~on[p] /\ on[p] \in BOOLEAN /\ level[p] \in BOOLEAN
       /\ pulse[p].first \in BOOLEAN
       /\ onDuration[p] \in Nat /\ offDuration[p] \in Nat
  BY <1>1 DEF IInv, TypeInv, TypeOK
<1>9. d \in Nat /\ d < HalfRange
  BY DEF PulseLeft, IInv, TypeInv, TypeOK, DurationsFit
<1>10. OnTimeOrAhead(p)' /\ Age(p)' = -d
  <2>1. wake'[p] = ClockAdd(now, d)
    BY <1>4, <1>5
  <2> HIDE DEF d
  <2>2. QED BY <1>5, <1>9, <2>1, SetAhead
<1>11. Pulsing(p)
  BY <1>1 DEF IInv, PinInv, Pulsed
<1>12. /\ level'[p] = level[p] => pulse'[p] = pulse[p]
       /\ level'[p] # level[p] => pulse'[p] = [since |-> now, first |-> FALSE]
       /\ \A q \in Pins \ {p} : pulse'[q] = pulse[q]
  <2>1. pulse' = IF level' = level THEN pulse
                 ELSE [pulse EXCEPT ![p] = [since |-> now, first |-> FALSE]]
    BY DEF Toggle
  <2>2. level'[p] = level[p] => level' = level
    BY <1>1, <1>7 DEF IInv, TypeInv, TypeOK
  <2>3. QED BY <2>1, <2>2 DEF IInv, TypeInv, TypeOK
<1>13. ASSUME NEW q \in Pins \ {p} PROVE PinInv(q)'
  BY <1>1, <1>3, <1>4, <1>5, <1>7, <1>13, <1>12, PinsAreTimers, OtherPin DEF IInv
<1>14. CASE pulse[p].first /\ ~on[p]
  <2>1. level[p] /\ level'[p] /\ on'[p]
    BY <1>7, <1>8, <1>11, <1>14 DEF Pulsing
  <2>2. level'[p] = level[p]
    BY <1>7, <1>8, <2>1, Zenon
  <2>3. pulse'[p] = pulse[p]
    BY <1>12, <2>2
  <2>4. d = onDuration[p]
    BY <2>1 DEF PulseLeft
  <2>5. Lead(p) = onDuration[p] /\ Slack(p) = 0
    BY <1>14, <2>1 DEF Lead, Slack
  <2>6. Lead(p)' = 2 * onDuration[p] /\ Slack(p)' = MaxLate
    BY <1>1, <1>14, <2>1, <2>3 DEF Lead, Slack
  <2>7. Lasted(p)' = Lasted(p)
    BY <1>5, <2>3 DEF Lasted
  <2>8. Lasted(p) - Age(p) = onDuration[p] /\ Age(p) \in 0 .. MaxLate
    BY <1>1, <1>8, <1>11, <2>5, FiresAged DEF Pulsing
  <2>9. Lasted(p) \in Int
    BY <1>5, SignedDiffType, Delays DEF Lasted, IInv, TypeInv, TypeOK
  <2>10. Lasted(p) - (-onDuration[p]) \in 2 * onDuration[p] .. 2 * onDuration[p] + MaxLate
    BY <1>8, <2>8, <2>9, Delays
  <2>11. (Lasted(p) - Age(p))' \in (Lead(p) .. Lead(p) + Slack(p))'
    BY <1>10, <2>4, <2>6, <2>7, <2>10
  <2>12. Pulsing(p)'
    BY <1>14, <2>1, <2>3, <2>11 DEF Pulsing
  <2>13. PinInv(p)'
    BY <1>1, <1>2, <1>4, <1>5, <1>10, <2>12 DEF PinInv, IInv, Fits
  <2>14. QED BY <1>4, <1>6, <1>13, <2>13 DEF IInv
<1>15. CASE ~(pulse[p].first /\ ~on[p])
  <2>1. level[p] = on[p]
    BY <1>8, <1>11, <1>15, Zenon DEF Pulsing
  <2>2. level'[p] # level[p]
    BY <1>7, <1>8, <2>1, Zenon
  <2>3. pulse'[p] = [since |-> now, first |-> FALSE]
    BY <1>12, <2>2
  <2>4. ~pulse'[p].first /\ pulse'[p].since = now
    BY <2>3
  <2>5. Lasted(p)' = 0
    BY <1>5, <2>4, ClockSame DEF Lasted
  <2>6. Lead(p)' = d
    BY <1>1, <1>7, <2>4 DEF Lead, PulseLeft
  <2>7. Slack(p)' = 0
    BY <2>4 DEF Slack
  <2>8. (Lasted(p) - Age(p))' \in (Lead(p) .. Lead(p) + Slack(p))'
    <3> HIDE DEF d
    <3>1. QED BY <1>9, <1>10, <2>5, <2>6, <2>7
  <2>9. Pulsing(p)'
    BY <1>7, <2>4, <2>8 DEF Pulsing
  <2>10. PinInv(p)'
    BY <1>1, <1>2, <1>4, <1>5, <1>10, <2>9 DEF PinInv, IInv, Fits
  <2>11. QED BY <1>4, <1>6, <1>13, <2>10 DEF IInv
<1>16. QED BY <1>14, <1>15

LEMMA EndStep ==
  ASSUME IInv, NEW p \in Pins, End(p)
  PROVE  IInv'
<1>1. now' = now /\ wake \in [Timers -> Ticks] /\ p \in Timers
  BY FiresAged DEF End
<1>2. /\ hung' = FALSE /\ wake' = [wake EXCEPT ![p] = 0] /\ IsList(list')
      /\ Linked(list') = Linked(list) \ {p}
  BY PinDone DEF End
<1>3. /\ toggling'[p] = FALSE /\ checkEnd'[p] = FALSE /\ handler[p] = "end"
      /\ level'[p] = Default(p) /\ on'[p] = Default(p)
      /\ UNCHANGED <<handler, onDuration, offDuration, cycleTime, shut, pulse>>
      /\ \A q \in Pins \ {p} :
           /\ level'[q] = level[q] /\ toggling'[q] = toggling[q] /\ on'[q] = on[q]
           /\ checkEnd'[q] = checkEnd[q] /\ endTime'[q] = endTime[q]
  BY DEF End, IInv, TypeInv, TypeOK
<1>4. TypeInv'
  BY EndTypeInv DEF IInv
<1>5. PinInv(p)'
  BY <1>2, <1>3 DEF IInv, PinInv, Steady, Held, Pulsed
<1>6. ASSUME NEW q \in Pins \ {p} PROVE PinInv(q)'
  BY <1>1, <1>2, <1>3, <1>6, PinsAreTimers, OtherPin DEF IInv
<1>7. QED BY <1>2, <1>4, <1>5, <1>6 DEF IInv

(* The clock goes on only while every linked timer may still run in time.  *)
LEMMA ClockStep ==
  ASSUME IInv, TimerStep, UNCHANGED pinVars
  PROVE  IInv'
<1>1. /\ list' = list /\ wake' = wake /\ hung' = hung
      /\ \/ now' = now
         \/ now' = ClockAdd(now, 1) /\ \A t \in Linked(list) : Age(t) < MaxLate
  BY TimerStepChanges, ListReached DEF IInv
<1>2. TypeInv'
  BY TimerStepChanges DEF IInv, TypeInv, TypeOK, DurationsFit, AtDefault, pinVars
<1>3. ASSUME NEW p \in Pins PROVE PinInv(p)'
  <2>1. CASE now' = now
    BY <1>1, <2>1, OtherPin DEF IInv, pinVars
  <2>2. CASE now' = ClockAdd(now, 1) /\ p \in Linked(list) /\ Age(p) < MaxLate
    <3>1. /\ now \in Ticks /\ wake[p] \in Ticks /\ pulse[p].since \in Ticks
          /\ onDuration[p] \in Nat /\ offDuration[p] \in Nat
      BY PinsAreTimers DEF IInv, TypeInv, TypeOK, TimersTypeOK
    <3>2. Age(p) \in Int /\ Age(p) > -HalfRange /\ Age(p) < MaxLate
      BY <2>2, <3>1, SignedDiffType, Delays DEF IInv, PinInv, OnTimeOrAhead, Age
    <3>3. Age(p)' = Age(p) + 1
      <4>1. SignedDiff(now, wake[p]) < HalfRange - 1
        BY <3>2, Delays DEF Age
      <4>2. QED BY <1>1, <2>2, <3>1, <4>1, ClockTicks DEF Age
    <3>4. OnTimeOrAhead(p)'
      BY <3>2, <3>3, Delays DEF OnTimeOrAhead
    <3>5. Held(p) => Held(p)'
      <4>1. Age(p) >= -MaxDuration => Age(p)' >= -MaxDuration
        BY <3>2, <3>3, Delays
      <4>2. QED BY <4>1 DEF Held, pinVars
    <3>6. Pulsing(p) /\ Fits(p) => Pulsing(p)'
      <4> SUFFICES ASSUME Pulsing(p), Fits(p) PROVE Pulsing(p)'
        OBVIOUS
      <4>1. /\ Lead(p) \in Nat /\ Slack(p) \in Nat
            /\ Lead(p) + Slack(p) + MaxLate < HalfRange
        BY <3>1, Delays DEF Lead, Slack, Fits
      <4>2. Lasted(p) \in Int /\ Lasted(p) - Age(p) \in Lead(p) .. Lead(p) + Slack(p)
        BY <3>1, SignedDiffType, Delays DEF Pulsing, Lasted
      <4>3. Lasted(p) < HalfRange - 1
        BY <3>2, <4>1, <4>2, Delays
      <4>4. Lasted(p)' = Lasted(p) + 1
        BY <2>2, <3>1, <4>3, ClockTicks DEF Lasted, pinVars
      <4>5. (Lasted(p) - Age(p))' = Lasted(p) - Age(p)
        BY <3>2, <3>3, <4>2, <4>4
      <4>6. (Lead(p) .. Lead(p) + Slack(p))' = Lead(p) .. Lead(p) + Slack(p)
        BY DEF Lead, Slack, pinVars
      <4>7. QED BY <4>2, <4>5, <4>6 DEF Pulsing, pinVars
    <3>7. Pulsed(p)' = Pulsed(p) /\ Fits(p)' = Fits(p) /\ Steady(p)' = Steady(p)
      BY DEF Pulsed, Fits, Steady, pinVars
    <3>8. Watched(p)' = Watched(p)
      BY <1>1 DEF Watched, pinVars
    <3>9. checkEnd' = checkEnd /\ toggling' = toggling
      BY DEF pinVars
    <3>10. PinInv(p) /\ (Pulsed(p) => toggling[p])
      BY DEF IInv, Pulsed
    <3>11. QED
      BY <1>1, <2>2, <3>4, <3>5, <3>6, <3>7, <3>8, <3>9, <3>10 DEF PinInv
  <2>3. CASE now' = ClockAdd(now, 1) /\ p \notin Linked(list)
    <3>1. ~checkEnd[p] /\ ~toggling[p]
      BY <2>3 DEF IInv, PinInv, Watched
    <3>2. QED
      BY <1>1, <2>3, <3>1 DEF IInv, PinInv, Steady, Held, Pulsed, pinVars
  <2>4. QED BY <1>1, <2>1, <2>2, <2>3
<1>4. QED BY <1>1, <1>2, <1>3 DEF IInv

LEMMA NextIInv ==
  ASSUME "queue" \notin Careless, "pulse" \notin Careless, IInv, [Next]_vars
  PROVE  IInv'
<1>1. ASSUME NEW p \in Pins, NEW w \in Ticks, NEW ticks \in OnTicks, Queue(p, w, ticks)
      PROVE  IInv'
  BY <1>1, QueueStep
<1>2. ASSUME NEW p \in Pins, NEW value \in BOOLEAN, Update(p, value) PROVE IInv'
  BY <1>2, UpdateStep
<1>3. ASSUME NEW p \in Pins, NEW ticks \in Cycles, SetPWMCycle(p, ticks) PROVE IInv'
  BY <1>3, SetPWMCycleStep
<1>4. CASE ShutdownAll
  BY <1>4, ShutdownAllStep
<1>5. ASSUME NEW p \in Pins,
             LoadStartsPWM(p) \/ LoadSets(p) \/ ToggleStops(p) \/ Toggle(p) \/ End(p)
      PROVE  IInv'
  BY <1>5, LoadStartsPWMStep, LoadSetsStep, ToggleStopsStep, ToggleStep, EndStep
<1>6. CASE TimerStep /\ UNCHANGED pinVars
  BY <1>6, ClockStep
<1>7. CASE UNCHANGED vars
  <2>1. TypeInv'
    BY <1>7, NextTypeInv DEF IInv
  <2>2. UNCHANGED <<list, wake, now, hung, pinVars>>
    BY <1>7 DEF vars, timerVars
  <2>3. \A p \in Pins : PinInv(p)'
    BY <2>2, OtherPin DEF IInv, pinVars
  <2>4. QED BY <2>1, <2>2, <2>3 DEF IInv
<1>8. QED BY <1>1, <1>2, <1>3, <1>4, <1>5, <1>6, <1>7 DEF Next, Command, Handler

(* Under that discipline the pointers are one list, no insertion hangs, no *)
(* pin's timer is later than the main loop, a pulsed pin's timer is linked *)
(* with the next edge, and a pin with a maximum duration is watched until  *)
(* its end (gpio.go:186-427).                                              *)
THEOREM Invariance ==
  ASSUME "queue" \notin Careless, "pulse" \notin Careless
  PROVE  Spec => []IInv
<1>1. Init => IInv
  BY InitIInv
<1>2. IInv /\ [Next]_vars => IInv'
  BY NextIInv
<1>3. QED BY <1>1, <1>2, PTL DEF Spec

(* What a step may do to a pulsed pin.                                     *)
LEMMA EdgeIsToggle ==
  ASSUME TypeInv, [Next]_vars, NEW p \in Pins, Pulsed(p),
         toggling'[p], level'[p] # level[p]
  PROVE  Toggle(p)
<1>1. ASSUME NEW q \in Pins, NEW w \in Ticks, NEW ticks \in OnTicks, Queue(q, w, ticks)
      PROVE  FALSE
  BY <1>1 DEF Queue
<1>2. ASSUME NEW q \in Pins, NEW value \in BOOLEAN, Update(q, value) PROVE FALSE
  BY <1>2 DEF Update, TypeInv, TypeOK
<1>3. ASSUME NEW q \in Pins, NEW ticks \in Cycles, SetPWMCycle(q, ticks) PROVE FALSE
  BY <1>3 DEF SetPWMCycle
<1>4. CASE ShutdownAll
  BY <1>4 DEF ShutdownAll, ToDefaults
<1>5. ASSUME NEW q \in Pins,
             LoadStartsPWM(q) \/ LoadSets(q) \/ ToggleStops(q) \/ Toggle(q) \/ End(q)
      PROVE  Toggle(p)
  <2>1. q = p
    <3>1. q # p => level'[p] = level[p]
      BY <1>5 DEF LoadStartsPWM, LoadSets, ToggleStops, Toggle, End, pinVars, TypeInv, TypeOK
    <3>2. QED BY <3>1
  <2>2. handler[p] = "toggle" /\ toggling[p]
    BY DEF Pulsed
  <2>3. QED
    BY <1>5, <2>1, <2>2 DEF LoadStartsPWM, LoadSets, ToggleStops, End
<1>6. CASE TimerStep /\ UNCHANGED pinVars
  BY <1>6 DEF pinVars
<1>7. CASE UNCHANGED vars
  BY <1>7 DEF vars, pinVars
<1>8. QED BY <1>1, <1>2, <1>3, <1>4, <1>5, <1>6, <1>7 DEF Next, Command, Handler

(* A level of a pulsed pin lasts its share of the cycle, and longer only   *)
(* by what the main loop is late, for every on time and cycle time, also   *)
(* when the host changes the cycle meanwhile.  The first level of a pin    *)
(* that was off lasts twice on_ticks, against docs/gpio.md:154             *)
(* (gpio.go:285-371).                                                      *)
THEOREM DutyAlwaysKept ==
  ASSUME "queue" \notin Careless, "pulse" \notin Careless
  PROVE  Spec => DutyKept
<1>1. ASSUME IInv, [Next]_vars, NEW p \in Pins, toggling[p], handler[p] = "toggle"
      PROVE  /\ Lasted(p) <= Share(p) + (IF pulse[p].first THEN 2 ELSE 1) * MaxLate
             /\ toggling'[p] /\ level'[p] # level[p] => Lasted(p) >= Share(p)
  <2>1. Pulsed(p) /\ Pulsing(p) /\ p \in Linked(list) /\ TypeInv
    BY <1>1 DEF IInv, PinInv, Pulsed
  <2>2. /\ onDuration[p] \in Nat /\ offDuration[p] \in Nat
        /\ now \in Ticks /\ wake[p] \in Ticks /\ pulse[p].since \in Ticks
    BY <2>1, PinsAreTimers DEF TypeInv, TypeOK, TimersTypeOK
  <2>3. Age(p) \in Int /\ Age(p) <= MaxLate
    BY <1>1, <2>1, <2>2, SignedDiffType, Delays DEF IInv, PinInv, OnTimeOrAhead, Age
  <2>4. Lasted(p) \in Int /\ Lasted(p) - Age(p) \in Lead(p) .. Lead(p) + Slack(p)
    BY <2>1, <2>2, SignedDiffType, Delays DEF Pulsing, Lasted
  <2>5. pulse[p].first => level[p]
    BY <2>1 DEF Pulsing
  <2>6. Lasted(p) <= Share(p) + (IF pulse[p].first THEN 2 ELSE 1) * MaxLate
    BY <2>2, <2>3, <2>4, <2>5, Delays DEF Lead, Slack, Share
  <2>7. ASSUME toggling'[p], level'[p] # level[p] PROVE Lasted(p) >= Share(p)
    <3>1. Toggle(p)
      BY <1>1, <2>1, <2>7, EdgeIsToggle
    <3>2. Age(p) >= 0
      BY <3>1 DEF Toggle, Fires
    <3>3. level'[p] = ~on[p]
      BY <2>1, <3>1 DEF Toggle, TypeInv, TypeOK
    <3>4. pulse[p].first => on[p]
      BY <2>5, <2>7, <3>3
    <3>5. Lead(p) = Share(p)
      BY <2>5, <3>4 DEF Lead, Share
    <3>6. Share(p) \in Nat
      BY <2>2 DEF Share
    <3>7. QED BY <2>3, <2>4, <3>2, <3>5, <3>6, Delays DEF Slack
  <2>8. QED BY <2>6, <2>7
<1>2. IInv /\ [Next]_vars =>
        [\A p \in Pins : toggling[p] /\ handler[p] = "toggle" =>
           /\ Lasted(p) <= Share(p) + (IF pulse[p].first THEN 2 ELSE 1) * MaxLate
           /\ toggling'[p] /\ level'[p] # level[p] => Lasted(p) >= Share(p)]_vars
  BY <1>1
<1>3. QED BY <1>2, Invariance, PTL DEF Spec, DutyKept

(* A pin with a maximum duration is away from its default only while its   *)
(* end is awaited, and never longer than the main loop is late after it,   *)
(* if it is changed by queue_digital_out alone and never pulsed            *)
(* (gpio.go:264-312, 375-407, docs/gpio.md:169).                           *)
THEOREM AlwaysEndsInTime ==
  ASSUME Careless = {}
  PROVE  Spec => []EndsInTime
<1>1. IInv => EndsInTime
  <2> SUFFICES ASSUME IInv, NEW p \in Limited, level[p] # Default(p)
               PROVE  /\ checkEnd[p]
                      /\ SignedDiff(now, endTime[p]) \in -MaxDuration .. MaxLate
    BY DEF EndsInTime
  <2>1. p \in Pins
    BY DigitalOutAssumption
  <2>2. checkEnd[p] /\ handler[p] = "end" /\ Age(p) >= -MaxDuration
    BY <2>1 DEF IInv, PinInv, Held
  <2>3. p \in Linked(list) /\ endTime[p] = wake[p]
    BY <2>1, <2>2 DEF IInv, PinInv, Watched
  <2>4. Age(p) <= MaxLate
    BY <2>1, <2>3 DEF IInv, PinInv, OnTimeOrAhead
  <2>5. Age(p) \in Int /\ Age(p) = SignedDiff(now, endTime[p])
    BY <2>1, <2>3, PinsAreTimers, SignedDiffType, Delays
    DEF Age, IInv, TypeInv, TypeOK, TimersTypeOK
  <2>6. QED BY <2>2, <2>4, <2>5, Delays
<1>2. Spec => []IInv
  BY Invariance
<1>3. QED BY <1>1, <1>2, PTL

(* Every linked timer is on the one list: a shutdown, which cuts the list  *)
(* at every pin, leaves no stray pointer (gpio.go:410-427).                *)
THEOREM ListAlwaysSound ==
  ASSUME "queue" \notin Careless, "pulse" \notin Careless
  PROVE  Spec => []OneList
<1>1. ASSUME IInv PROVE OneList
  <2>1. PICK n, s : Represents(list, n, s)
    BY <1>1 DEF IInv, IsList
  <2>2. list \in Lists /\ ~hung
    BY <1>1 DEF IInv, IsList
  <2>3. QED BY <1>1, <2>1, <2>2, RepresentedSound, ListReached DEF IInv, OneList
<1>2. QED BY <1>1, Invariance, PTL
=============================================================================
