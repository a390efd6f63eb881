------------------------------- MODULE Homing ------------------------------
(***************************************************************************)
(* core/trsync.go and core/endstop.go: an endstop samples its pin from a   *)
(* timer of its own and triggers the trsync once enough samples in a row   *)
(* match; the host and a timeout can trigger it too.  The first trigger    *)
(* calls the registered signals (stepper_stop_on_trigger), and a report    *)
(* timer tells the host.  The pin is read inside the handlers and may      *)
(* change between any two reads.                                           *)
(*                                                                         *)
(* A session is one trsync_start.  The host is disciplined: it sends a     *)
(* command that links a timer only while that timer is not linked, and     *)
(* starts a session only after the last one's timers have run out;         *)
(* Careless names the commands this instance's host sends at any time.     *)
(***************************************************************************)
EXTENDS Dispatch

CONSTANTS
  ReportTimer, ExpireTimer, SampleTimer,
  ReportTicks, SampleTicks, SampleCount, RestTicks,
  Ahead,         \* the clocks the host sends are at most this far ahead
  MaxSignals,    \* bound: signals registered
  Careless       \* \subseteq {"start", "timeout", "home"}

ASSUME HomingAssumption ==
  /\ {ReportTimer, ExpireTimer, SampleTimer} \subseteq Timers
  /\ SampleTimer \notin {ReportTimer, ExpireTimer}
  /\ ReportTicks \in Nat \ {0} /\ RestTicks \in Nat \ {0}
  /\ SampleTicks \in Nat \ {0} /\ SampleCount \in Nat \ {0}
  /\ MaxSignals \in Nat
  /\ \A d \in {Ahead, ReportTicks, RestTicks, SampleTicks} :
       d + MaxLate < HalfRange

VARIABLES
  canTrigger,     \* ts.Flags & TSF_CAN_TRIGGER
  triggerReason,  \* ts.TriggerReason
  signals,        \* ts.Signals: how many there are
  homing,         \* es.Flags & ESF_HOMING
  oversampling,   \* es.Timer.Handler is endstopOversampleEvent
  triggerCount,   \* es.TriggerCount
  nextWake,       \* es.NextWake while it decides anything, zero after that
                  \* (endstop_query_state goes on reporting the old value)
  hasSync,        \* es.TriggerSync # nil
  report,         \* the last trsync_state sent
  started,        \* history: there has been a session
  hits,           \* history: samples that matched in a row
  calls           \* history: how often the signals were called this session

trsyncVars == <<canTrigger, triggerReason, calls>>
endstopVars == <<homing, oversampling, triggerCount, nextWake, hasSync, hits>>
hostVars == <<signals, started>>
vars == <<timerVars, trsyncVars, endstopVars, hostVars, report>>

NoReason == 0
Hit == 1
Expired == 2
ByHost == 3
Reasons == {NoReason, Hit, Expired, ByHost}

TypeOK ==
  /\ TimersTypeOK
  /\ canTrigger \in BOOLEAN /\ triggerReason \in Reasons
  /\ signals \in 0 .. MaxSignals
  /\ homing \in BOOLEAN /\ oversampling \in BOOLEAN /\ hasSync \in BOOLEAN
  /\ triggerCount \in 0 .. SampleCount
  /\ nextWake \in Ticks
  /\ report \in [can : BOOLEAN, reason : Reasons]
  /\ started \in BOOLEAN
  /\ hits \in 0 .. SampleCount
  /\ calls \in 0 .. 2

Init ==
  /\ TimersInit
  /\ canTrigger = FALSE /\ triggerReason = NoReason /\ signals = 0
  /\ homing = FALSE /\ oversampling = FALSE /\ hasSync = FALSE
  /\ triggerCount = 0 /\ nextWake = 0
  /\ report = [can |-> FALSE, reason |-> NoReason]
  /\ started = FALSE
  /\ hits = 0 /\ calls = 0

Idle(timers) == timers \intersect Linked(list) = {}
Soon(w) == SignedDiff(w, now) \in 0 .. Ahead

-----------------------------------------------------------------------------
(* Mutant: a second trigger is not kept out.                               *)
DoTriggerAlways(reason) ==
  /\ canTrigger' = FALSE
  /\ triggerReason' = reason
  /\ calls' = IF calls < 2 THEN calls + 1 ELSE calls

(* TriggerSyncDoTrigger                                                    *)
DoTrigger(reason) ==
  IF canTrigger
  THEN /\ canTrigger' = FALSE
       /\ triggerReason' = reason
       /\ calls' = IF calls < 2 THEN calls + 1 ELSE calls
  ELSE UNCHANGED trsyncVars

(* triggerSyncReport: the flags and the reason as they are now.            *)
SendReport == report' = [can |-> canTrigger', reason |-> triggerReason']

-----------------------------------------------------------------------------
(* trsync_start                                                            *)
Start(w) ==
  /\ InLoop
  /\ Soon(w)
  /\ "start" \in Careless \/ Idle({ReportTimer, ExpireTimer})
  /\ canTrigger' = TRUE /\ triggerReason' = NoReason
  /\ started' = TRUE /\ calls' = 0
  /\ Schedule(ReportTimer, w)
  /\ UNCHANGED <<endstopVars, signals, report>>

(* trsync_set_timeout                                                      *)
SetTimeout(w) ==
  /\ InLoop /\ started
  /\ Soon(w)
  /\ "timeout" \in Careless \/ Idle({ExpireTimer})
  /\ Schedule(ExpireTimer, w)
  /\ UNCHANGED <<trsyncVars, endstopVars, hostVars, report>>

(* stepper_stop_on_trigger                                                 *)
AddSignal ==
  /\ InLoop /\ started /\ signals < MaxSignals
  /\ signals' = signals + 1
  /\ UNCHANGED <<timerVars, trsyncVars, endstopVars, started, report>>

(* trsync_trigger                                                          *)
HostTrigger ==
  /\ InLoop /\ started
  /\ DoTrigger(ByHost)
  /\ UNCHANGED <<timerVars, endstopVars, hostVars, report>>

(* es.Timer.Next = nil                                                     *)
ClearNext == [list EXCEPT !.next[SampleTimer] = Nil]

(* endstop_home                                                            *)
Home(w) ==
  /\ InLoop /\ started
  /\ Soon(w)
  /\ "home" \in Careless \/ Idle({SampleTimer})
  /\ triggerCount' = SampleCount /\ nextWake' = 0
  /\ hasSync' = TRUE /\ homing' = TRUE /\ oversampling' = FALSE
  /\ hits' = 0
  /\ Insert(ClearNext, [wake EXCEPT ![SampleTimer] = w], SampleTimer)
  /\ UNCHANGED <<now, dispatching, trsyncVars, hostVars, report>>

(* endstop_home with a sample count of zero: homing is over.               *)
HomeEnd ==
  /\ InLoop
  /\ "home" \in Careless \/ Idle({SampleTimer})
  /\ list' = ClearNext
  /\ hasSync' = FALSE /\ homing' = FALSE
  /\ UNCHANGED <<wake, now, dispatching, hung, trsyncVars, oversampling,
                 triggerCount, nextWake, hits, hostVars, report>>

-----------------------------------------------------------------------------
(* Mutant: a trsync that has triggered is not reported on any more.        *)
ReportEventSilent ==
  /\ Fires(ReportTimer)
  /\ UNCHANGED <<trsyncVars, endstopVars, hostVars>>
  /\ IF canTrigger
     THEN SendReport /\ Reschedule(ReportTimer, ClockAdd(now, ReportTicks))
     ELSE UNCHANGED report /\ Done(ReportTimer)

(* triggerSyncReportEvent                                                  *)
ReportEvent ==
  /\ Fires(ReportTimer)
  /\ UNCHANGED <<trsyncVars, endstopVars, hostVars>>
  /\ SendReport
  /\ IF canTrigger THEN Reschedule(ReportTimer, ClockAdd(now, ReportTicks))
                   ELSE Done(ReportTimer)

(* Mutant: the timeout is reported but does not trigger.                   *)
ExpireEventReportsOnly ==
  /\ Fires(ExpireTimer)
  /\ UNCHANGED trsyncVars
  /\ SendReport
  /\ Done(ExpireTimer)
  /\ UNCHANGED <<endstopVars, hostVars>>

(* triggerSyncExpireEvent                                                  *)
ExpireEvent ==
  /\ Fires(ExpireTimer)
  /\ DoTrigger(Expired)
  /\ SendReport
  /\ Done(ExpireTimer)
  /\ UNCHANGED <<endstopVars, hostVars>>

(* The first look does not match: again after the rest time.               *)
SampleMiss ==
  /\ Fires(SampleTimer) /\ ~oversampling
  /\ Reschedule(SampleTimer, ClockAdd(wake[SampleTimer], RestTicks))
  /\ hits' = 0
  /\ UNCHANGED <<trsyncVars, homing, oversampling, triggerCount, nextWake,
                 hasSync, hostVars, report>>

(* When the next look is due if the samples do not hold: set by the look   *)
(* that starts oversampling, which takes its first sample at once.         *)
RestWake ==
  IF oversampling THEN nextWake ELSE ClockAdd(wake[SampleTimer], RestTicks)

(* Mutant: a broken row of samples does not start over.                    *)
OversampleMissKeepsCount ==
  /\ Fires(SampleTimer)
  /\ oversampling' = FALSE /\ nextWake' = 0
  /\ hits' = 0
  /\ Reschedule(SampleTimer, RestWake)
  /\ UNCHANGED <<trsyncVars, homing, triggerCount, hasSync, hostVars, report>>

OversampleMiss ==
  /\ Fires(SampleTimer)
  /\ oversampling' = FALSE /\ nextWake' = 0
  /\ triggerCount' = SampleCount /\ hits' = 0
  /\ Reschedule(SampleTimer, RestWake)
  /\ UNCHANGED <<trsyncVars, homing, hasSync, hostVars, report>>

(* Mutant: the count is decremented past zero.                             *)
OversampleHitPastZero ==
  /\ Fires(SampleTimer)
  /\ oversampling' = TRUE /\ nextWake' = RestWake
  /\ triggerCount' = triggerCount - 1
  /\ hits' = hits + 1
  /\ Reschedule(SampleTimer, ClockAdd(wake[SampleTimer], SampleTicks))
  /\ UNCHANGED <<trsyncVars, homing, hasSync, hostVars, report>>

OversampleHit ==
  /\ Fires(SampleTimer) /\ triggerCount > 1
  /\ oversampling' = TRUE /\ nextWake' = RestWake
  /\ triggerCount' = triggerCount - 1
  /\ hits' = hits + 1
  /\ Reschedule(SampleTimer, ClockAdd(wake[SampleTimer], SampleTicks))
  /\ UNCHANGED <<trsyncVars, homing, hasSync, hostVars, report>>

(* All samples confirmed; the report is left to the report timer.          *)
LastHit ==
  /\ Fires(SampleTimer) /\ triggerCount = 1
  /\ oversampling' = TRUE /\ nextWake' = 0
  /\ hits' = hits + 1
  /\ IF hasSync THEN DoTrigger(Hit) ELSE UNCHANGED trsyncVars
  /\ Done(SampleTimer)
  /\ UNCHANGED <<homing, triggerCount, hasSync, hostVars, report>>

-----------------------------------------------------------------------------
Command ==
  \/ \E w \in Ticks : Start(w) \/ SetTimeout(w) \/ Home(w)
  \/ AddSignal \/ HostTrigger \/ HomeEnd

Handler ==
  \/ ReportEvent \/ ExpireEvent
  \/ SampleMiss \/ OversampleMiss \/ OversampleHit \/ LastHit

Next ==
  \/ Command \/ Handler
  \/ TimerStep /\ UNCHANGED <<trsyncVars, endstopVars, hostVars, report>>

Spec == Init /\ [][Next]_vars

FairSpec == Spec /\ TimerFairness /\ WF_vars(Handler)
-----------------------------------------------------------------------------
(***************************************************************************)
(* Properties                                                              *)
(***************************************************************************)

(* Endstop, timeout and host race to trigger: the first one's reason is    *)
(* the session's, and its callbacks are called once (trsync.go:176-194).   *)
FirstTriggerWins ==
  /\ calls <= 1
  /\ canTrigger => triggerReason = NoReason /\ calls = 0
  /\ started /\ ~canTrigger => triggerReason # NoReason /\ calls = 1

(* The endstop triggers only after SampleCount samples in a row matched,   *)
(* whatever bounced before (endstop.go:276-304).                           *)
TriggerNeedsSamples ==
  [][triggerReason' = Hit /\ triggerReason # Hit => hits' = SampleCount]_vars

(* The host is told: once a session has triggered, a report that says so   *)
(* and why is sent, whoever triggered it.                                  *)
TriggerReported ==
  (started /\ ~canTrigger) ~>
    (canTrigger \/ report = [can |-> FALSE, reason |-> triggerReason])

(* A session with a timeout does not stay open, whatever becomes of the    *)
(* endstop and the host (trsync.go:249-266).                               *)
TimeoutTriggers ==
  (canTrigger /\ ExpireTimer \in Linked(list)) ~> ~canTrigger
=============================================================================
