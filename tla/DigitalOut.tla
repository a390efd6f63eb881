----------------------------- MODULE DigitalOut ----------------------------
(***************************************************************************)
(* core/gpio.go: output pins that the host sets at once or at a clock,     *)
(* that toggle by software PWM, that return to their default after a       *)
(* maximum duration, and that shutdown returns to their default.  Each pin *)
(* has one timer, whose handler changes with what is scheduled next; pin   *)
(* and timer share a name here.  Setting a configured pin cannot fail on   *)
(* either target, so the error returns are left out.                       *)
(*                                                                         *)
(* The host is disciplined: it queues a change only while the pin's timer  *)
(* is not linked; a pin that has a maximum duration it configures at its   *)
(* default, and changes it by queue_digital_out alone, without pulses.     *)
(* Careless names the rules this instance's host breaks.                   *)
(***************************************************************************)
EXTENDS Dispatch

CONSTANTS
  Pins,          \* the configured pins, each the name of its timer
  DefaultOn,     \* pins with DF_DEFAULT_ON
  Limited,       \* pins configured with a maximum duration
  MaxDuration,   \* what it is
  OnTicks,       \* the on_ticks the host sends
  Cycles,        \* the cycle times the host sends
  Ahead,         \* a change is queued at most this far ahead
  Careless       \* \subseteq {"queue", "pulse", "update"}

ASSUME DigitalOutAssumption ==
  /\ Pins \subseteq Timers
  /\ DefaultOn \subseteq Pins /\ Limited \subseteq Pins
  /\ OnTicks \subseteq Nat /\ Cycles \subseteq Nat
  /\ \A d \in {MaxDuration, Ahead} \union Cycles :
       d \in Nat /\ d + MaxLate < HalfRange
  /\ \A d \in OnTicks, c \in Cycles : d < c => 2 * (d + MaxLate) < HalfRange

VARIABLES
  level,        \* the pin
  on,           \* DF_ON
  toggling,     \* DF_TOGGLING
  checkEnd,     \* DF_CHECK_END
  handler,      \* dout.Timer.Handler
  onDuration, offDuration, cycleTime,
  endTime,      \* while checkEnd is set, zero otherwise (nothing reads it)
  shut,         \* history: shut down and not commanded since
  pulse         \* history: when the level a pulsed pin has began, and whether
                \* it is the first of a pin that was off

pinVars == <<level, on, toggling, checkEnd, handler, onDuration, offDuration,
             cycleTime, endTime, shut, pulse>>
vars == <<timerVars, pinVars>>

Handlers == {"load", "toggle", "end"}
Durations == {0} \union OnTicks \union Cycles
                 \union {c - d : c \in Cycles, d \in OnTicks}

TypeOK ==
  /\ TimersTypeOK
  /\ {level, on, toggling, checkEnd, shut} \subseteq [Pins -> BOOLEAN]
  /\ handler \in [Pins -> Handlers]
  /\ {onDuration, offDuration, cycleTime} \subseteq [Pins -> Durations \intersect Nat]
  /\ endTime \in [Pins -> Ticks]
  /\ pulse \in [Pins -> [since : Ticks, first : BOOLEAN]]

NoPulse == [since |-> 0, first |-> FALSE]

Default(p) == p \in DefaultOn

(* config_digital_out for every pin                                        *)
Init ==
  /\ TimersInit
  /\ level \in [Pins -> BOOLEAN] /\ on = level
  /\ \A p \in Limited : level[p] = Default(p)
  /\ toggling = [p \in Pins |-> FALSE] /\ checkEnd = toggling /\ shut = toggling
  /\ handler = [p \in Pins |-> "load"]
  /\ onDuration = [p \in Pins |-> 0]
  /\ offDuration = onDuration /\ cycleTime = onDuration /\ endTime = onDuration
  /\ pulse = [p \in Pins |-> NoPulse]

-----------------------------------------------------------------------------
(* Mutant: on_ticks is not cut to the cycle time.                          *)
OnTimeUncut(p, ticks) == ticks

(* on_ticks is cut to the cycle time; without one, the pin is not pulsed.  *)
OnTime(p, ticks) == IF ticks > cycleTime[p] THEN cycleTime[p] ELSE ticks

QueueDurations(p, ticks) ==
  IF cycleTime[p] = 0 THEN UNCHANGED <<onDuration, offDuration>>
  ELSE /\ onDuration' = [onDuration EXCEPT ![p] = OnTime(p, ticks)]
       /\ offDuration' = [offDuration EXCEPT ![p] = cycleTime[p] - OnTime(p, ticks)]

(* queue_digital_out: the flags change now, the pin at clock w.  The timer *)
(* is scheduled with its Next cleared, wherever it is.                     *)
Queue(p, w, ticks) ==
  /\ InLoop
  /\ SignedDiff(w, now) \in 0 .. Ahead
  /\ "queue" \in Careless \/ p \notin Linked(list)
  /\ QueueDurations(p, ticks)
  /\ toggling' = [toggling EXCEPT ![p] = ticks \in 1 .. cycleTime[p] - 1]
  /\ on' = IF toggling'[p] THEN on ELSE [on EXCEPT ![p] = ticks > 0]
  /\ IF p \notin Limited THEN UNCHANGED <<checkEnd, endTime>>
     ELSE /\ checkEnd' = [checkEnd EXCEPT ![p] = on'[p] # Default(p)]
          /\ endTime' = [endTime EXCEPT ![p] =
                           IF checkEnd'[p] THEN ClockAdd(w, MaxDuration) ELSE 0]
  /\ handler' = [handler EXCEPT ![p] = "load"]
  /\ shut' = [shut EXCEPT ![p] = FALSE]
  /\ Insert([list EXCEPT !.next[p] = Nil], [wake EXCEPT ![p] = w], p)
  /\ UNCHANGED <<now, dispatching, level, cycleTime, pulse>>

(* update_digital_out                                                      *)
Update(p, value) ==
  /\ InLoop
  /\ "update" \in Careless \/ p \notin Limited
  /\ level' = [level EXCEPT ![p] = value]
  /\ on' = [on EXCEPT ![p] = value]
  /\ toggling' = [toggling EXCEPT ![p] = FALSE]
  /\ shut' = [shut EXCEPT ![p] = FALSE]
  /\ pulse' = [pulse EXCEPT ![p] = NoPulse]
  /\ UNCHANGED <<timerVars, checkEnd, handler, onDuration, offDuration,
                 cycleTime, endTime>>

(* set_digital_out_pwm_cycle                                               *)
SetPWMCycle(p, ticks) ==
  /\ InLoop
  /\ "pulse" \in Careless \/ p \notin Limited
  /\ cycleTime' = [cycleTime EXCEPT ![p] = ticks]
  /\ UNCHANGED <<timerVars, level, on, toggling, checkEnd, handler,
                 onDuration, offDuration, endTime, shut, pulse>>

(* Mutant: shutdown leaves the pins toggling.                              *)
ShutdownKeepsToggling ==
  /\ level' = [p \in Pins |-> Default(p)] /\ on' = level'
  /\ checkEnd' = [p \in Pins |-> FALSE]
  /\ endTime' = [p \in Pins |-> 0]
  /\ shut' = [p \in Pins |-> TRUE]
  /\ pulse' = [p \in Pins |-> NoPulse]
  /\ UNCHANGED <<toggling, handler, onDuration, offDuration, cycleTime>>

(* ShutdownAllDigitalOut, but for the timers                               *)
ToDefaults ==
  /\ level' = [p \in Pins |-> Default(p)] /\ on' = level'
  /\ toggling' = [p \in Pins |-> FALSE] /\ checkEnd' = toggling'
  /\ endTime' = [p \in Pins |-> 0]
  /\ shut' = [p \in Pins |-> TRUE]
  /\ pulse' = [p \in Pins |-> NoPulse]
  /\ UNCHANGED <<handler, onDuration, offDuration, cycleTime>>

(* ShutdownAllDigitalOut, as emergency_stop calls it                       *)
ShutdownAll ==
  /\ InLoop
  /\ ToDefaults
  /\ list' = Cut(list, Pins)
  /\ UNCHANGED <<wake, now, dispatching, hung>>
-----------------------------------------------------------------------------
(* Mutant: the first toggle is never scheduled.                            *)
LoadStartsPWMOnce(p) ==
  /\ Fires(p) /\ handler[p] = "load" /\ toggling[p]
  /\ level' = [level EXCEPT ![p] = TRUE]
  /\ handler' = [handler EXCEPT ![p] = "toggle"]
  /\ pulse' = [pulse EXCEPT ![p] = [since |-> now, first |-> ~on[p]]]
  /\ Done(p)
  /\ UNCHANGED <<on, toggling, checkEnd, onDuration, offDuration, cycleTime,
                 endTime, shut>>

(* digitalOutLoadEvent, toggling: the pulse begins, DF_ON stays.           *)
LoadStartsPWM(p) ==
  /\ Fires(p) /\ handler[p] = "load" /\ toggling[p]
  /\ level' = [level EXCEPT ![p] = TRUE]
  /\ handler' = [handler EXCEPT ![p] = "toggle"]
  /\ pulse' = [pulse EXCEPT ![p] = [since |-> now, first |-> ~on[p]]]
  /\ Reschedule(p, ClockAdd(now, onDuration[p]))
  /\ UNCHANGED <<on, toggling, checkEnd, onDuration, offDuration, cycleTime,
                 endTime, shut>>

(* Mutant: the end of the maximum duration is never scheduled.             *)
LoadSetsUnwatched(p) ==
  /\ Fires(p) /\ handler[p] = "load" /\ ~toggling[p]
  /\ level' = [level EXCEPT ![p] = on[p]]
  /\ UNCHANGED handler /\ Done(p)
  /\ UNCHANGED <<on, toggling, checkEnd, onDuration, offDuration, cycleTime,
                 endTime, shut, pulse>>

(* digitalOutLoadEvent, not toggling                                       *)
LoadSets(p) ==
  /\ Fires(p) /\ handler[p] = "load" /\ ~toggling[p]
  /\ level' = [level EXCEPT ![p] = on[p]]
  /\ IF checkEnd[p]
     THEN /\ handler' = [handler EXCEPT ![p] = "end"]
          /\ Reschedule(p, endTime[p])
     ELSE UNCHANGED handler /\ Done(p)
  /\ UNCHANGED <<on, toggling, checkEnd, onDuration, offDuration, cycleTime,
                 endTime, shut, pulse>>

(* digitalOutToggleEvent, DF_TOGGLING cleared                              *)
ToggleStops(p) ==
  /\ Fires(p) /\ handler[p] = "toggle" /\ ~toggling[p]
  /\ Done(p)
  /\ UNCHANGED pinVars

(* Mutant: the two durations are swapped.                                  *)
PulseLeftSwapped(p) == IF on'[p] THEN offDuration[p] ELSE onDuration[p]

PulseLeft(p) == IF on'[p] THEN onDuration[p] ELSE offDuration[p]

(* The next toggle would come at or after the end, in unsigned numbers.    *)
EndComesFirst(p) == checkEnd[p] /\ ClockAdd(now, PulseLeft(p)) >= endTime[p]

(* digitalOutToggleEvent                                                   *)
Toggle(p) ==
  /\ Fires(p) /\ handler[p] = "toggle" /\ toggling[p]
  /\ on' = [on EXCEPT ![p] = ~on[p]]
  /\ level' = [level EXCEPT ![p] = on'[p]]
  /\ pulse' = IF level' = level THEN pulse
              ELSE [pulse EXCEPT ![p] = [since |-> now, first |-> FALSE]]
  /\ IF EndComesFirst(p)
     THEN /\ handler' = [handler EXCEPT ![p] = "load"]
          /\ Reschedule(p, endTime[p])
     ELSE UNCHANGED handler /\ Reschedule(p, ClockAdd(now, PulseLeft(p)))
  /\ UNCHANGED <<toggling, checkEnd, onDuration, offDuration, cycleTime,
                 endTime, shut>>

(* digitalOutEndEvent                                                      *)
End(p) ==
  /\ Fires(p) /\ handler[p] = "end"
  /\ level' = [level EXCEPT ![p] = Default(p)]
  /\ on' = [on EXCEPT ![p] = Default(p)]
  /\ toggling' = [toggling EXCEPT ![p] = FALSE]
  /\ checkEnd' = [checkEnd EXCEPT ![p] = FALSE]
  /\ endTime' = [endTime EXCEPT ![p] = 0]
  /\ Done(p)
  /\ UNCHANGED <<handler, onDuration, offDuration, cycleTime, shut, pulse>>

-----------------------------------------------------------------------------
Command ==
  \/ \E p \in Pins :
       \/ \E w \in Ticks, ticks \in OnTicks : Queue(p, w, ticks)
       \/ \E value \in BOOLEAN : Update(p, value)
       \/ \E ticks \in Cycles : SetPWMCycle(p, ticks)
  \/ ShutdownAll

Handler ==
  \E p \in Pins :
    LoadStartsPWM(p) \/ LoadSets(p) \/ ToggleStops(p) \/ Toggle(p) \/ End(p)

Next ==
  \/ Command \/ Handler
  \/ TimerStep /\ UNCHANGED pinVars

Spec == Init /\ [][Next]_vars

FairSpec == Spec /\ TimerFairness /\ WF_vars(Handler)
-----------------------------------------------------------------------------
(***************************************************************************)
(* Properties                                                              *)
(***************************************************************************)

(* The share of the cycle of the level a pulsed pin has.  The first pulse  *)
(* of a pin that was off lasts two: the load event leaves DF_ON clear, and *)
(* the toggle after it sets the pin it finds set (gpio.go:285, 335).       *)
Share(p) ==
  IF ~level[p] THEN offDuration[p]
  ELSE IF pulse[p].first THEN 2 * onDuration[p] ELSE onDuration[p]

Lasted(p) == SignedDiff(now, pulse[p].since)

(* A level of a pulsed pin lasts its share of the cycle, and longer only   *)
(* by what the main loop is late at its timer events (gpio.go:285-371).    *)
(* docs/gpio.md:154 has it toggle "at the correct intervals", which Share  *)
(* is not for the first pulse of a pin that was off.                       *)
DutyKept ==
  [][\A p \in Pins : toggling[p] /\ handler[p] = "toggle" =>
       /\ Lasted(p) <= Share(p) + (IF pulse[p].first THEN 2 ELSE 1) * MaxLate
       /\ toggling'[p] /\ level'[p] # level[p] => Lasted(p) >= Share(p)]_vars

(* After a shutdown a pin stays at its default, whatever was scheduled,    *)
(* until the host commands it again (gpio.go:410-427).                     *)
ShutdownHolds == \A p \in Pins : shut[p] => level[p] = Default(p)

(* A pulsed pin without a maximum duration goes on being pulsed until the  *)
(* host stops it.                                                          *)
PulsesGoOn ==
  \A p \in Pins \ Limited : \A v \in BOOLEAN :
    (toggling[p] /\ level[p] = v) ~> (level[p] # v \/ ~toggling[p])

(* docs/gpio.md:169, "Automatically returns to default state when time     *)
(* expires": a pin with a maximum duration that is not at its default is   *)
(* watched, and its time, which began with the change, has not run out     *)
(* longer ago than the main loop is late.                                  *)
EndsInTime ==
  \A p \in Limited : level[p] # Default(p) =>
    checkEnd[p] /\ SignedDiff(now, endTime[p]) \in -MaxDuration .. MaxLate
=============================================================================
