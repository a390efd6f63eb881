----------------------------- MODULE Scheduler -----------------------------
(***************************************************************************)
(* core/scheduler.go and core/timer.go: the timer list, the dispatcher the *)
(* main loop calls, and the clock it reads.  The firmware is one thread:   *)
(* commands (which schedule timers) run between dispatches, handlers run   *)
(* inside one.  A handler's effect on its own timer is any new WakeTime    *)
(* and either return code; no handler in the code schedules another timer. *)
(*                                                                         *)
(* A shutdown, and a command that stops one component, "cancel" a timer by *)
(* clearing its Next.  That leaves the timer on the list and cuts off what *)
(* hangs behind it: from then on the list is what a walk from its head     *)
(* comes to, and the timers cut off keep their own stale pointers.         *)
(***************************************************************************)
EXTENDS TimerList

CONSTANTS
  Stoppable,           \* timers of analog inputs and digital outputs
  TimerPastThreshold,  \* a timer later than this shuts the MCU down
  MaxPast,             \* a timer is scheduled at most this far in the past
  Horizon,             \* ... and at most this far in the future
  MaxLate,             \* the main loop never falls further behind than this
  HardwareClock        \* TRUE: GetTime reads the hardware (rp2350);
                       \* FALSE: the value cached per loop iteration (rp2040)

(* The wrap-around comparison orders two wake times only if they are less  *)
(* than half the range apart.                                              *)
ASSUME SchedulerAssumption ==
  /\ Stoppable \subseteq Timers
  /\ TimerPastThreshold \in Nat
  /\ MaxPast \in Nat /\ Horizon \in Nat /\ MaxLate \in Nat
  /\ MaxPast <= MaxLate
  /\ TimerPastThreshold < MaxLate
  /\ MaxLate + Horizon < HalfRange
  /\ HardwareClock \in BOOLEAN

VARIABLES
  list,          \* timerList and every Timer.Next
  wake,          \* Timer.WakeTime
  currentTime,   \* the time the dispatcher compares with
  now,           \* the clock
  phase,         \* where the main loop is
  running,       \* the timer whose handler is running, or Nil
  isShutdown,    \* globalState.isShutdown
  hung           \* insertTimer walks a cycle forever

vars == <<list, wake, currentTime, now, phase, running, isShutdown, hung>>

Phases == {"loop", "dispatch", "handler"}

TypeOK ==
  /\ list \in Lists
  /\ wake \in [Timers -> Ticks]
  /\ currentTime \in Ticks
  /\ now \in Ticks
  /\ phase \in Phases
  /\ running \in Pointers
  /\ isShutdown \in BOOLEAN
  /\ hung \in BOOLEAN

(* How long ago t should have run.                                         *)
Age(t) == SignedDiff(now, wake[t])

(* Wake times a command or a handler asks for.                             *)
Reasonable(w) == SignedDiff(now, w) \in -Horizon .. MaxPast

Init ==
  /\ list = EmptyList
  /\ wake = [t \in Timers |-> 0]
  /\ currentTime = 0
  /\ now = 0
  /\ phase = "loop"
  /\ running = Nil
  /\ isShutdown = FALSE
  /\ hung = FALSE

-----------------------------------------------------------------------------
(* Mutant: a clock that does not wrap.                                     *)
TickNoWrap ==
  /\ phase = "loop" \/ (HardwareClock /\ phase = "handler")
  /\ \A t \in Reached(list) : Age(t) < MaxLate
  /\ now' = now + 1
  /\ UNCHANGED <<list, wake, currentTime, phase, running, isShutdown, hung>>

(* The wake time of a timer that neither waits nor runs, which is set      *)
(* before it is read again, is made zero.                                  *)
Forget(l, t) ==
  wake' = [u \in Timers |-> IF u \in Reached(l) \union {t} THEN wake[u] ELSE 0]

(* Time moves while the loop is busy elsewhere; inside a dispatch only the *)
(* hardware clock is seen to move, at the GetTime after each handler.      *)
Tick ==
  /\ phase = "loop" \/ (HardwareClock /\ phase = "handler")
  /\ \A t \in Reached(list) : Age(t) < MaxLate
  /\ now' = ClockAdd(now, 1)
  /\ UNCHANGED <<list, wake, currentTime, phase, running, isShutdown, hung>>

(* A command handler sets t.WakeTime and calls ScheduleTimer.              *)
ScheduleTimer(t, w) ==
  /\ phase = "loop" /\ ~hung
  /\ t \notin Reached(list)
  /\ Reasonable(w)
  /\ wake' = [wake EXCEPT ![t] = w]
  /\ hung' = InsertHangs(list, wake', t)
  /\ list' = IF hung' THEN list ELSE InsertTimer(list, wake', t)
  /\ UNCHANGED <<currentTime, now, phase, running, isShutdown>>

(* currentTime = GetTime(); TimerDispatch()                                *)
ProcessTimers ==
  /\ phase = "loop" /\ ~hung
  /\ currentTime' = now
  /\ phase' = "dispatch"
  /\ UNCHANGED <<list, wake, now, running, isShutdown, hung>>

(* Mutant: a timer that is due right now is not.                           *)
HeadDueLater ==
  /\ list.head # Nil
  /\ SignedDiff(currentTime, wake[list.head]) > 0

HeadDue ==
  /\ list.head # Nil
  /\ SignedDiff(currentTime, wake[list.head]) >= 0

HeadTooLate ==
  SignedDiff(currentTime, wake[list.head]) > TimerPastThreshold

(* The loop of TimerDispatch ends: no head, or the head is not due.        *)
DispatchReturn ==
  /\ phase = "dispatch"
  /\ ~HeadDue
  /\ phase' = "loop"
  /\ UNCHANGED <<list, wake, currentTime, now, running, isShutdown, hung>>

(* ShutdownAllAnalogIn and ShutdownAllDigitalOut clear Next pointers of    *)
(* timers, on the list or not.                                             *)
Stopped(l) == Cut(l, Stoppable)

(* Mutant: the shutdown stops the timers before the late one is popped.    *)
TimerInPastStopsFirst ==
  /\ phase = "dispatch"
  /\ HeadDue /\ HeadTooLate
  /\ list' = IF isShutdown THEN PopHead(list) ELSE PopHead(Stopped(list))
  /\ Forget(list', Nil)
  /\ isShutdown' = TRUE
  /\ phase' = "loop"
  /\ UNCHANGED <<currentTime, now, running, hung>>

(* Timer in past: it is popped, never run, the dispatch is abandoned, and  *)
(* TryShutdown does its work unless the firmware is shut down already.     *)
TimerInPast ==
  /\ phase = "dispatch"
  /\ HeadDue /\ HeadTooLate
  /\ list' = IF isShutdown THEN PopHead(list) ELSE Stopped(PopHead(list))
  /\ Forget(list', Nil)
  /\ isShutdown' = TRUE
  /\ phase' = "loop"
  /\ UNCHANGED <<currentTime, now, running, hung>>

(* TryShutdown, called by a command (a failed I2C transfer) or in the      *)
(* middle of a handler (an analog input out of range).                     *)
TryShutdown ==
  /\ phase \in {"loop", "handler"} /\ ~hung /\ ~isShutdown
  /\ isShutdown' = TRUE
  /\ list' = Stopped(list)
  /\ Forget(list', running)
  /\ UNCHANGED <<currentTime, now, phase, running, hung>>

(* The emergency_stop command, also when shut down already.                *)
EmergencyStop ==
  /\ phase = "loop" /\ ~hung
  /\ isShutdown' = TRUE
  /\ list' = Stopped(list)
  /\ Forget(list', running)
  /\ UNCHANGED <<currentTime, now, phase, running, hung>>

(* A command stops a component (driver_stop_poll, a query or a homing with *)
(* a sample count of zero) by clearing the Next of its timer.              *)
StopTimer(t) ==
  /\ phase = "loop" /\ ~hung
  /\ list' = Cut(list, {t})
  /\ Forget(list', Nil)
  /\ UNCHANGED <<currentTime, now, phase, running, isShutdown, hung>>

RunHandler ==
  /\ phase = "dispatch"
  /\ HeadDue /\ ~HeadTooLate
  /\ list' = PopHead(list)
  /\ running' = list.head
  /\ phase' = "handler"
  /\ UNCHANGED <<wake, currentTime, now, isShutdown, hung>>

(* The handler returns SF_DONE.                                            *)
HandlerDone ==
  /\ phase = "handler" /\ ~hung
  /\ running' = Nil
  /\ Forget(list, Nil)
  /\ currentTime' = now
  /\ phase' = "dispatch"
  /\ UNCHANGED <<list, now, isShutdown, hung>>

(* Mutant: the handler need not move its WakeTime (a rest_ticks of 0).     *)
HandlerRescheduleInPlace(w) ==
  /\ phase = "handler" /\ ~hung
  /\ Reasonable(w)
  /\ wake' = [wake EXCEPT ![running] = w]
  /\ hung' = InsertHangs(list, wake', running)
  /\ list' = IF hung' THEN list ELSE InsertTimer(list, wake', running)
  /\ running' = Nil
  /\ currentTime' = now
  /\ phase' = "dispatch"
  /\ UNCHANGED <<now, isShutdown>>

(* The handler returns SF_RESCHEDULE, having moved its WakeTime forward.   *)
HandlerReschedule(w) ==
  /\ phase = "handler" /\ ~hung
  /\ Reasonable(w) /\ Before(wake[running], w)
  /\ wake' = [wake EXCEPT ![running] = w]
  /\ hung' = InsertHangs(list, wake', running)
  /\ list' = IF hung' THEN list ELSE InsertTimer(list, wake', running)
  /\ running' = Nil
  /\ currentTime' = now
  /\ phase' = "dispatch"
  /\ UNCHANGED <<now, isShutdown>>

(* The clear_shutdown command.                                             *)
ClearShutdown ==
  /\ phase = "loop"
  /\ isShutdown' = FALSE
  /\ UNCHANGED <<list, wake, currentTime, now, phase, running, hung>>

Dispatch ==
  \/ DispatchReturn \/ TimerInPast \/ RunHandler
  \/ HandlerDone \/ \E w \in Ticks : HandlerReschedule(w)

Next ==
  \/ Tick \/ ProcessTimers \/ Dispatch
  \/ TryShutdown \/ EmergencyStop \/ ClearShutdown
  \/ \E t \in Timers : StopTimer(t) \/ \E w \in Ticks : ScheduleTimer(t, w)

Spec == Init /\ [][Next]_vars

(* The loop runs forever: it keeps calling ProcessTimers and a call that   *)
(* has begun goes on.                                                      *)
FairSpec == Spec /\ WF_vars(ProcessTimers) /\ WF_vars(Dispatch)
-----------------------------------------------------------------------------
(***************************************************************************)
(* Properties                                                              *)
(***************************************************************************)

(* Whatever was cut off, the walk from the head comes to no timer twice    *)
(* and ends: there is no cycle for insertTimer to walk forever with        *)
(* interrupts disabled.  The timer whose handler runs is not on the list,  *)
(* so rescheduling it cannot link it twice (scheduler.go:66 "Clear Next    *)
(* pointer to avoid circular references").                                 *)
ListSound ==
  LET R == Reached(list) IN
    /\ ~hung
    /\ running \notin R
    /\ \A t, u, v \in R :
         list.next[u] = t => t # list.head /\ (list.next[v] = t => u = v)
    /\ \A S \in SUBSET R :
         S # {} => \E t \in S : \A u \in S : list.next[u] # t

(* The list is sorted by how late its timers are, across the wrap of the   *)
(* 32-bit clock (the signed comparison of insertTimer, scheduler.go:36).   *)
Sorted ==
  \A t \in Reached(list) :
    list.next[t] # Nil => Age(t) >= Age(list.next[t])

(* The dispatcher keeps the promises of TimerQueue: no timer is run twice, *)
(* none runs early or before an older one, one that is too late is         *)
(* discarded with a shutdown, and an armed timer is lost only to a stop or *)
(* a shutdown, and only behind a stopped timer that is no younger          *)
(* (scheduler.go:56-102, commands.go:209-233).                             *)
Queue == INSTANCE TimerQueue WITH armed <- Reached(list)

ImplementsTimerQueue == Queue!Spec

(* A due timer does not stay on the list: it is run, discarded or cut off  *)
(* by a shutdown.  Handlers that reschedule, other due timers and aborted  *)
(* dispatches cannot keep it waiting there (scheduler.go:63-101).          *)
DueTimerRuns ==
  \A t \in Timers :
    (t \in Reached(list) /\ Age(t) >= 0) ~> (t \notin Reached(list))

(* TimerDispatch returns to the main loop: on the clock cached per loop    *)
(* iteration, handlers that move their wake time forward cannot keep it    *)
(* busy forever.                                                           *)
DispatchEnds == (phase # "loop") ~> (phase = "loop")
=============================================================================
