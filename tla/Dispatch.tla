------------------------------ MODULE Dispatch -----------------------------
(***************************************************************************)
(* The scheduler as a component with timers of its own sees it.  Commands  *)
(* run between dispatches; inside one the due timers run in list order,    *)
(* each handler in one step together with its pop and its reinsertion, on  *)
(* the clock value cached when the dispatch began (rp2040).  The pointer   *)
(* list is the real one, so a command that links a timer twice or cuts the *)
(* list shows; a timer that was cut off no longer holds the clock up.      *)
(* Scheduler has the finer steps, the hardware clock and the timer-in-past *)
(* shutdown, which MaxLate keeps out of reach here.                        *)
(***************************************************************************)
EXTENDS TimerList

CONSTANT MaxLate   \* the main loop never falls further behind than this

ASSUME DispatchAssumption == MaxLate \in Nat /\ MaxLate < HalfRange

VARIABLES
  list,          \* timerList and every Timer.Next
  wake,          \* Timer.WakeTime
  now,           \* the clock
  dispatching,   \* inside TimerDispatch
  hung           \* insertTimer walks a cycle forever, interrupts disabled

timerVars == <<list, wake, now, dispatching, hung>>

TimersTypeOK ==
  /\ list \in Lists
  /\ wake \in [Timers -> Ticks]
  /\ now \in Ticks
  /\ dispatching \in BOOLEAN /\ hung \in BOOLEAN

TimersInit ==
  /\ list = EmptyList
  /\ wake = [t \in Timers |-> 0]
  /\ now = 0
  /\ dispatching = FALSE /\ hung = FALSE

(* How long ago t should have run.                                         *)
Age(t) == SignedDiff(now, wake[t])

(* Commands run here.                                                      *)
InLoop == ~dispatching /\ ~hung

Tick ==
  /\ InLoop
  /\ \A t \in Reached(list) : Age(t) < MaxLate
  /\ now' = ClockAdd(now, 1)
  /\ UNCHANGED <<list, wake, dispatching, hung>>

ProcessTimers ==
  /\ InLoop
  /\ dispatching' = TRUE
  /\ UNCHANGED <<list, wake, now, hung>>

DispatchReturn ==
  /\ dispatching /\ ~hung
  /\ list.head # Nil => Age(list.head) < 0
  /\ dispatching' = FALSE
  /\ UNCHANGED <<list, wake, now, hung>>

(* t is popped and its handler runs.                                       *)
Fires(t) ==
  /\ dispatching /\ ~hung
  /\ list.head = t /\ Age(t) >= 0
  /\ UNCHANGED <<now, dispatching>>

(* insertTimer into the list from, with the wake times w.                  *)
Insert(from, w, t) ==
  /\ wake' = w
  /\ hung' = InsertHangs(from, w, t)
  /\ list' = IF hung' THEN from ELSE InsertTimer(from, w, t)

(* A command sets t.WakeTime and calls ScheduleTimer.                      *)
Schedule(t, w) ==
  /\ Insert(list, [wake EXCEPT ![t] = w], t)
  /\ UNCHANGED <<now, dispatching>>

(* The handler of the popped t returns SF_DONE, or SF_RESCHEDULE.  The     *)
(* wake time of a timer no pointer leads to, which is set before it is     *)
(* read again, is made zero.                                               *)
Done(t) ==
  /\ list' = PopHead(list)
  /\ wake' = IF t \in Linked(list') THEN wake ELSE [wake EXCEPT ![t] = 0]
  /\ UNCHANGED hung
Reschedule(t, w) == Insert(PopHead(list), [wake EXCEPT ![t] = w], t)

TimerStep == Tick \/ ProcessTimers \/ DispatchReturn

(* The main loop keeps dispatching, and the clock runs.                    *)
TimerFairness == WF_timerVars(ProcessTimers) /\ WF_timerVars(DispatchReturn)
                 /\ SF_timerVars(Tick)
-----------------------------------------------------------------------------
(* The Next pointers form one list without a cycle, which every linked     *)
(* timer can be reached on: no timer is linked twice or cut off.           *)
OneList ==
  /\ ~hung
  /\ \A t, u, v \in Timers :
       list.next[u] = t => t # list.head /\ (list.next[v] = t => u = v)
  /\ \A S \in SUBSET Linked(list) :
       S # {} => \E t \in S : \A u \in S : list.next[u] # t
  /\ Linked(list) \subseteq Reached(list)
=============================================================================
