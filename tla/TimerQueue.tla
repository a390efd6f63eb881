----------------------------- MODULE TimerQueue -----------------------------
(***************************************************************************)
(* What the scheduler of core/scheduler.go promises its callers, without a *)
(* list: a set of armed timers, each with a wake time; no timer is run     *)
(* twice, none runs early, and a timer only runs when no armed timer is    *)
(* older.  A timer too far behind is discarded, with a shutdown.           *)
(*                                                                         *)
(* A timer that is stopped stays armed, and may take younger ones with it; *)
(* no armed timer is lost in any other way.                                *)
(***************************************************************************)
EXTENDS TimerList

CONSTANTS
  Stoppable,           \* the timers a shutdown stops
  TimerPastThreshold   \* how late a timer may run

VARIABLES
  armed,       \* the timers waiting to run
  wake,        \* their WakeTime (that of other timers does not matter)
  now,         \* the hardware clock
  running,     \* the timer whose handler is running, or Nil
  isShutdown

vars == <<armed, wake, now, running, isShutdown>>

Age(t) == SignedDiff(now, wake[t])

Oldest(t) == t \in armed /\ \A u \in armed : Age(u) <= Age(t)

Init ==
  /\ armed = {}
  /\ wake = [t \in Timers |-> 0]
  /\ now = 0
  /\ running = Nil
  /\ isShutdown = FALSE

Tick ==
  /\ now' = ClockAdd(now, 1)
  /\ UNCHANGED <<armed, wake, running, isShutdown>>

Arm(t, w) ==
  /\ t \notin armed
  /\ armed' = armed \union {t}
  /\ wake' = [wake EXCEPT ![t] = w]
  /\ UNCHANGED <<now, running, isShutdown>>

(* A timer wakes at the time it was armed for.                             *)
WakesKept == \A t \in armed' : wake'[t] = wake[t]

Run(t) ==
  /\ running = Nil
  /\ Oldest(t)
  /\ Age(t) \in 0 .. TimerPastThreshold
  /\ armed' = armed \ {t}
  /\ running' = t
  /\ WakesKept
  /\ UNCHANGED <<now, isShutdown>>

(* Stopping the timers ts of the armed ones may leave these: of ts only    *)
(* the oldest, s, and of the others at least those older than s.           *)
Remains(before, ts, after) ==
  IF before \intersect ts = {} THEN after = before
  ELSE \E s \in before \intersect ts :
         /\ after \subseteq before /\ after \intersect ts = {s}
         /\ \A t \in after : Age(t) >= Age(s)
         /\ \A t \in before \ after : Age(t) <= Age(s)

Discard(t) ==
  /\ running = Nil
  /\ Oldest(t)
  /\ Age(t) > TimerPastThreshold
  /\ IF isShutdown THEN armed' = armed \ {t}
                   ELSE Remains(armed \ {t}, Stoppable, armed')
  /\ isShutdown' = TRUE
  /\ WakesKept
  /\ UNCHANGED <<now, running>>

Finish ==
  /\ running # Nil
  /\ running' = Nil
  /\ WakesKept
  /\ UNCHANGED <<armed, now, isShutdown>>

Rearm(w) ==
  /\ running # Nil
  /\ armed' = armed \union {running}
  /\ wake' = [wake EXCEPT ![running] = w]
  /\ running' = Nil
  /\ UNCHANGED <<now, isShutdown>>

(* A shutdown, wherever it comes from.                                     *)
ShutDown ==
  /\ Remains(armed, Stoppable, armed')
  /\ isShutdown' = TRUE
  /\ WakesKept
  /\ UNCHANGED <<now, running>>

Stop(t) ==
  /\ running = Nil
  /\ Remains(armed, {t}, armed')
  /\ WakesKept
  /\ UNCHANGED <<now, running, isShutdown>>

ClearShutdown ==
  /\ isShutdown' = FALSE
  /\ UNCHANGED <<armed, wake, now, running>>

Next ==
  \/ Tick \/ Finish \/ ShutDown \/ ClearShutdown
  \/ \E t \in Timers : Run(t) \/ Discard(t) \/ Stop(t)
  \/ \E t \in Timers, w \in Ticks : Arm(t, w)
  \/ \E w \in Ticks : Rearm(w)

Spec == Init /\ [][Next]_vars
=============================================================================
