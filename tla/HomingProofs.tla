---------------------------- MODULE HomingProofs ----------------------------
(***************************************************************************)
(* Theorems about Homing, for every number of samples and every ticks and  *)
(* clock range, with a host that links no timer a second time.             *)
(***************************************************************************)
EXTENDS Homing, TimerListProofs

-----------------------------------------------------------------------------
(* What the dispatcher's steps do to the list.                             *)

LEMMA Inserted ==
  ASSUME IsList(list), NEW w, NEW t \in Timers, t \notin Linked(list),
         Insert(list, w, t)
  PROVE  /\ hung' = FALSE /\ wake' = w /\ IsList(list')
         /\ Linked(list') = Linked(list) \union {t}
<1>1. /\ ~InsertHangs(list, w, t) /\ IsList(InsertTimer(list, w, t))
      /\ Linked(InsertTimer(list, w, t)) = Linked(list) \union {t}
  BY InsertLinks
<1>2. list' = InsertTimer(list, w, t) /\ hung' = FALSE /\ wake' = w
  BY <1>1 DEF Insert
<1>3. QED BY <1>1, <1>2

LEMMA Popped ==
  ASSUME IsList(list), NEW t \in Timers, Fires(t)
  PROVE  /\ t \in Linked(list) /\ IsList(PopHead(list))
         /\ Linked(PopHead(list)) = Linked(list) \ {t}
<1>1. list.head = t /\ list.head # Nil
  BY TimerListAssumption DEF Fires
<1>2. QED BY <1>1, PopUnlinks

LEMMA Rescheduled ==
  ASSUME IsList(list), NEW t \in Timers, Fires(t), NEW w, Reschedule(t, w)
  PROVE  /\ hung' = FALSE /\ wake' = [wake EXCEPT ![t] = w] /\ IsList(list')
         /\ t \in Linked(list) /\ Linked(list') = Linked(list)
<1> DEFINE rest == PopHead(list)
           new == [wake EXCEPT ![t] = w]
<1>1. IsList(rest) /\ t \in Linked(list) /\ Linked(rest) = Linked(list) \ {t}
  BY Popped
<1>2. Insert(rest, new, t)
  BY DEF Reschedule
<1> HIDE DEF rest, new
<1>3. /\ ~InsertHangs(rest, new, t) /\ IsList(InsertTimer(rest, new, t))
      /\ Linked(InsertTimer(rest, new, t)) = Linked(rest) \union {t}
  BY <1>1, InsertLinks
<1>4. list' = InsertTimer(rest, new, t) /\ hung' = FALSE /\ wake' = new
  BY <1>2, <1>3 DEF Insert
<1>5. QED BY <1>1, <1>3, <1>4 DEF new

LEMMA Finished ==
  ASSUME IsList(list), NEW t \in Timers, Fires(t), Done(t)
  PROVE  /\ hung' = hung /\ wake' = [wake EXCEPT ![t] = 0] /\ IsList(list')
         /\ t \in Linked(list) /\ Linked(list') = Linked(list) \ {t}
BY Popped DEF Done

-----------------------------------------------------------------------------
(* The inductive invariant.                                                *)

(* While the endstop is sampled, what is left to count and the matches in  *)
(* a row make up the count asked for.                                      *)
SamplesCounted ==
  SampleTimer \in Linked(list) =>
    /\ triggerCount > 0
    /\ hits + triggerCount = SampleCount
    /\ ~oversampling => hits = 0

IInv ==
  /\ TypeOK
  /\ IsList(list) /\ ~hung
  /\ SamplesCounted

LEMMA TheTimers ==
  /\ ReportTimer \in Timers /\ ExpireTimer \in Timers /\ SampleTimer \in Timers
  /\ SampleTimer # ReportTimer /\ SampleTimer # ExpireTimer
BY HomingAssumption

LEMMA Delays ==
  /\ \A d \in {ReportTicks, RestTicks, SampleTicks} : d \in Nat /\ d < HalfRange
  /\ SampleCount \in Nat \ {0}
BY HomingAssumption, DispatchAssumption, TimerListAssumption

LEMMA InitIInv == Init => IInv
<1> SUFFICES ASSUME Init PROVE IInv
  OBVIOUS
<1>1. IsList(list) /\ Linked(list) = {}
  BY EmptyIsList DEF Init, TimersInit
<1>2. TypeOK
  <2>1. TimersTypeOK
    <3>1. 0 \in Ticks
      BY TimerListAssumption DEF Ticks, ClockRange
    <3>2. QED BY <1>1, <3>1 DEF Init, TimersInit, TimersTypeOK, IsList
  <2>2. QED
    <3>1. 0 \in Ticks
      BY TimerListAssumption DEF Ticks, ClockRange
    <3>2. 0 \in 0 .. SampleCount /\ 0 \in 0 .. MaxSignals /\ 0 \in 0 .. 2
      BY HomingAssumption
    <3>3. NoReason \in Reasons /\ FALSE \in BOOLEAN
      BY DEF Reasons
    <3>4. report \in [can : BOOLEAN, reason : Reasons]
      BY <3>3 DEF Init
    <3>5. QED
      BY <2>1, <3>1, <3>2, <3>3, <3>4 DEF Init, TypeOK
<1>3. QED BY <1>1, <1>2 DEF Init, TimersInit, IInv, SamplesCounted

-----------------------------------------------------------------------------
(* Steps that leave the endstop's timer alone.                             *)

LEMMA TimersTyped ==
  ASSUME TimersTypeOK, IsList(list'), hung' = FALSE, wake' \in [Timers -> Ticks],
         UNCHANGED <<now, dispatching>>
  PROVE  TimersTypeOK'
<1>1. list' \in Lists
  BY DEF IsList
<1>2. dispatching' \in BOOLEAN
  BY DEF TimersTypeOK
<1>3. hung' \in BOOLEAN
  OBVIOUS
<1>4. QED BY <1>1, <1>2, <1>3 DEF TimersTypeOK

LEMMA OtherStep ==
  ASSUME IInv, TypeOK', IsList(list'), hung' = FALSE,
         SampleTimer \in Linked(list') => SampleTimer \in Linked(list),
         UNCHANGED <<triggerCount, oversampling, hits>>
  PROVE  IInv'
BY DEF IInv, SamplesCounted

LEMMA StartStep ==
  ASSUME IInv, Careless = {}, NEW w \in Ticks, Start(w)
  PROVE  IInv'
<1>1. ReportTimer \notin Linked(list)
  BY DEF Start, Idle
<1>2. /\ hung' = FALSE /\ wake' = [wake EXCEPT ![ReportTimer] = w] /\ IsList(list')
      /\ Linked(list') = Linked(list) \union {ReportTimer}
  BY <1>1, TheTimers, Inserted DEF Start, Schedule, IInv
<1>3. TypeOK'
  <2>1. wake' \in [Timers -> Ticks] /\ TimersTypeOK
    BY <1>2 DEF IInv, TypeOK, TimersTypeOK
  <2>2. TimersTypeOK'
    BY <1>2, <2>1, TimersTyped DEF Start, Schedule
  <2>3. QED BY <2>2 DEF IInv, TypeOK, Start, endstopVars, Reasons
<1>4. QED BY <1>2, <1>3, TheTimers, OtherStep DEF Start, endstopVars, IInv

LEMMA SetTimeoutStep ==
  ASSUME IInv, Careless = {}, NEW w \in Ticks, SetTimeout(w)
  PROVE  IInv'
<1>1. ExpireTimer \notin Linked(list)
  BY DEF SetTimeout, Idle
<1>2. /\ hung' = FALSE /\ wake' = [wake EXCEPT ![ExpireTimer] = w] /\ IsList(list')
      /\ Linked(list') = Linked(list) \union {ExpireTimer}
  BY <1>1, TheTimers, Inserted DEF SetTimeout, Schedule, IInv
<1>3. TypeOK'
  <2>1. wake' \in [Timers -> Ticks] /\ TimersTypeOK
    BY <1>2 DEF IInv, TypeOK, TimersTypeOK
  <2>2. TimersTypeOK'
    BY <1>2, <2>1, TimersTyped DEF SetTimeout, Schedule
  <2>3. QED BY <2>2 DEF IInv, TypeOK, SetTimeout, endstopVars, trsyncVars, hostVars
<1>4. QED BY <1>2, <1>3, TheTimers, OtherStep DEF SetTimeout, endstopVars, IInv

LEMMA DoTriggerType ==
  ASSUME TypeOK, NEW reason \in Reasons, DoTrigger(reason)
  PROVE  /\ canTrigger' \in BOOLEAN /\ triggerReason' \in Reasons
         /\ calls' \in 0 .. 2
<1>1. canTrigger' \in BOOLEAN
  BY DEF TypeOK, DoTrigger, trsyncVars
<1>2. triggerReason' \in Reasons
  BY DEF TypeOK, DoTrigger, trsyncVars
<1>3. calls' \in 0 .. 2
  BY DEF TypeOK, DoTrigger, trsyncVars
<1>4. QED BY <1>1, <1>2, <1>3

LEMMA AddSignalStep == IInv /\ AddSignal => IInv'
BY HomingAssumption DEF IInv, AddSignal, TypeOK, TimersTypeOK, timerVars, trsyncVars, endstopVars,
   SamplesCounted

LEMMA HostTriggerStep == IInv /\ HostTrigger => IInv'
<1> SUFFICES ASSUME IInv, HostTrigger PROVE IInv'
  OBVIOUS
<1>1. /\ canTrigger' \in BOOLEAN /\ triggerReason' \in Reasons /\ calls' \in 0 .. 2
  BY DoTriggerType DEF HostTrigger, IInv, Reasons
<1>2. QED
  BY <1>1 DEF IInv, HostTrigger, TypeOK, TimersTypeOK, timerVars, endstopVars,
     hostVars, SamplesCounted

LEMMA ClearedNext ==
  ASSUME IInv, SampleTimer \notin Linked(list)
  PROVE  ClearNext = list
BY NotLinkedIsClear, TheTimers DEF IInv, ClearNext

LEMMA HomeStep ==
  ASSUME IInv, Careless = {}, NEW w \in Ticks, Home(w)
  PROVE  IInv'
<1>1. SampleTimer \notin Linked(list)
  BY DEF Home, Idle
<1>2. /\ hung' = FALSE /\ wake' = [wake EXCEPT ![SampleTimer] = w] /\ IsList(list')
  <2>1. Insert(list, [wake EXCEPT ![SampleTimer] = w], SampleTimer)
    BY <1>1, ClearedNext DEF Home
  <2>2. QED BY <1>1, <2>1, TheTimers, Inserted DEF IInv
<1>3. TypeOK'
  <2>1. wake' \in [Timers -> Ticks] /\ TimersTypeOK
    BY <1>2 DEF IInv, TypeOK, TimersTypeOK
  <2>2. TimersTypeOK'
    BY <1>2, <2>1, TimersTyped DEF Home
  <2>3. 0 \in Ticks
    BY TimerListAssumption DEF Ticks, ClockRange
  <2>4. triggerCount' \in 0 .. SampleCount /\ hits' \in 0 .. SampleCount
    BY Delays DEF Home
  <2>5. homing' \in BOOLEAN /\ hasSync' \in BOOLEAN
    BY DEF Home
  <2>6. QED
    BY <2>2, <2>3, <2>4, <2>5 DEF IInv, TypeOK, Home, trsyncVars, hostVars
<1>4. SamplesCounted'
  BY Delays DEF Home, SamplesCounted
<1>5. QED BY <1>2, <1>3, <1>4 DEF IInv

LEMMA HomeEndStep == IInv /\ Careless = {} /\ HomeEnd => IInv'
<1> SUFFICES ASSUME IInv, Careless = {}, HomeEnd PROVE IInv'
  OBVIOUS
<1>1. list' = list
  BY ClearedNext DEF HomeEnd, Idle
<1>2. TypeOK'
  BY <1>1 DEF IInv, TypeOK, TimersTypeOK, HomeEnd, trsyncVars, hostVars
<1>3. hung' = FALSE
  BY DEF HomeEnd, IInv, TypeOK, TimersTypeOK
<1>4. QED BY <1>1, <1>2, <1>3, OtherStep DEF HomeEnd, IInv

LEMMA ReportEventStep == IInv /\ ReportEvent => IInv'
<1> SUFFICES ASSUME IInv, ReportEvent PROVE IInv'
  OBVIOUS
<1>1. now' = now /\ dispatching' = dispatching
      /\ UNCHANGED <<trsyncVars, endstopVars, hostVars>>
  BY DEF ReportEvent, Fires
<1>2. /\ hung' = FALSE /\ IsList(list') /\ wake' \in [Timers -> Ticks]
      /\ Linked(list') \subseteq Linked(list)
  <2>1. CASE canTrigger
    <3>1. Reschedule(ReportTimer, ClockAdd(now, ReportTicks)) /\ Fires(ReportTimer)
      BY <2>1 DEF ReportEvent
    <3>2. ClockAdd(now, ReportTicks) \in Ticks
      BY Delays, ClockAddType DEF IInv, TypeOK, TimersTypeOK
    <3>3. /\ hung' = FALSE /\ IsList(list') /\ Linked(list') = Linked(list)
          /\ wake' = [wake EXCEPT ![ReportTimer] = ClockAdd(now, ReportTicks)]
      BY <3>1, TheTimers, Rescheduled DEF IInv
    <3>4. wake \in [Timers -> Ticks]
      BY DEF IInv, TypeOK, TimersTypeOK
    <3>5. QED BY <3>2, <3>3, <3>4
  <2>2. CASE ~canTrigger
    <3>1. Done(ReportTimer) /\ Fires(ReportTimer)
      BY <2>2 DEF ReportEvent
    <3>2. 0 \in Ticks
      BY TimerListAssumption DEF Ticks, ClockRange
    <3>3. QED BY <3>1, <3>2, TheTimers, Finished DEF IInv, TypeOK, TimersTypeOK
  <2>3. QED BY <2>1, <2>2
<1>3. TypeOK'
  <2>1. TimersTypeOK'
    BY <1>1, <1>2, TimersTyped DEF IInv, TypeOK
  <2>2. report' \in [can : BOOLEAN, reason : Reasons]
    BY <1>1 DEF IInv, TypeOK, ReportEvent, SendReport, trsyncVars
  <2>3. QED
    BY <1>1, <2>1, <2>2 DEF IInv, TypeOK, trsyncVars, endstopVars, hostVars
<1>4. QED BY <1>1, <1>2, <1>3, OtherStep DEF endstopVars

LEMMA ExpireEventStep == IInv /\ ExpireEvent => IInv'
<1> SUFFICES ASSUME IInv, ExpireEvent PROVE IInv'
  OBVIOUS
<1>1. now' = now /\ dispatching' = dispatching
      /\ UNCHANGED <<endstopVars, hostVars>>
  BY DEF ExpireEvent, Fires
<1>2. /\ canTrigger' \in BOOLEAN /\ triggerReason' \in Reasons /\ calls' \in 0 .. 2
  BY DoTriggerType DEF ExpireEvent, IInv, Reasons
<1>3. 0 \in Ticks
  BY TimerListAssumption DEF Ticks, ClockRange
<1>4. /\ hung' = FALSE /\ IsList(list') /\ wake' \in [Timers -> Ticks]
      /\ Linked(list') \subseteq Linked(list)
  BY <1>3, TheTimers, Finished DEF ExpireEvent, IInv, TypeOK, TimersTypeOK
<1>5. TypeOK'
  <2>1. TimersTypeOK'
    BY <1>1, <1>4, TimersTyped DEF IInv, TypeOK
  <2>2. report' \in [can : BOOLEAN, reason : Reasons]
    BY <1>2 DEF ExpireEvent, SendReport
  <2>3. QED
    BY <1>1, <1>2, <2>1, <2>2 DEF IInv, TypeOK, endstopVars, hostVars
<1>6. QED BY <1>1, <1>4, <1>5, OtherStep DEF endstopVars

-----------------------------------------------------------------------------
(* The endstop's handlers.                                                 *)

LEMMA SampleRescheduled ==
  ASSUME IInv, Fires(SampleTimer), NEW w \in Ticks, Reschedule(SampleTimer, w)
  PROVE  /\ hung' = FALSE /\ IsList(list') /\ TimersTypeOK'
         /\ triggerCount > 0 /\ hits + triggerCount = SampleCount
         /\ ~oversampling => hits = 0
<1>1. /\ hung' = FALSE /\ wake' = [wake EXCEPT ![SampleTimer] = w] /\ IsList(list')
      /\ SampleTimer \in Linked(list)
  BY TheTimers, Rescheduled DEF IInv
<1>2. TimersTypeOK'
  <2>1. wake' \in [Timers -> Ticks] /\ TimersTypeOK
    BY <1>1 DEF IInv, TypeOK, TimersTypeOK
  <2>2. QED BY <1>1, <2>1, TimersTyped DEF Fires
<1>3. QED BY <1>1, <1>2 DEF IInv, SamplesCounted

LEMMA NextLook ==
  ASSUME IInv
  PROVE  /\ ClockAdd(wake[SampleTimer], RestTicks) \in Ticks
         /\ ClockAdd(wake[SampleTimer], SampleTicks) \in Ticks
         /\ RestWake \in Ticks
<1>1. wake[SampleTimer] \in Ticks /\ nextWake \in Ticks
  BY TheTimers DEF IInv, TypeOK, TimersTypeOK
<1>2. QED BY <1>1, Delays, ClockAddType DEF RestWake

LEMMA SampleMissStep == IInv /\ SampleMiss => IInv'
<1> SUFFICES ASSUME IInv, SampleMiss PROVE IInv'
  OBVIOUS
<1>1. /\ hung' = FALSE /\ IsList(list') /\ TimersTypeOK'
      /\ triggerCount > 0 /\ hits + triggerCount = SampleCount /\ hits = 0
  BY NextLook, SampleRescheduled DEF SampleMiss
<1>2. QED
  BY <1>1 DEF IInv, TypeOK, SampleMiss, SamplesCounted, trsyncVars, hostVars

LEMMA OversampleMissStep == IInv /\ OversampleMiss => IInv'
<1> SUFFICES ASSUME IInv, OversampleMiss PROVE IInv'
  OBVIOUS
<1>1. /\ hung' = FALSE /\ IsList(list') /\ TimersTypeOK'
  BY NextLook, SampleRescheduled DEF OversampleMiss
<1>2. 0 \in Ticks
  BY TimerListAssumption DEF Ticks, ClockRange
<1>3. QED
  <2>1. triggerCount' \in 0 .. SampleCount /\ hits' \in 0 .. SampleCount
        /\ triggerCount' > 0 /\ hits' + triggerCount' = SampleCount /\ hits' = 0
    BY Delays DEF OversampleMiss
  <2>2. oversampling' \in BOOLEAN
    BY DEF OversampleMiss
  <2>3. TypeOK'
    BY <1>1, <1>2, <2>1, <2>2 DEF IInv, TypeOK, OversampleMiss, trsyncVars, hostVars
  <2>4. QED BY <1>1, <2>1, <2>3 DEF IInv, SamplesCounted

LEMMA OversampleHitStep == IInv /\ OversampleHit => IInv'
<1> SUFFICES ASSUME IInv, OversampleHit PROVE IInv'
  OBVIOUS
<1>1. /\ hung' = FALSE /\ IsList(list') /\ TimersTypeOK'
      /\ triggerCount > 0 /\ hits + triggerCount = SampleCount
  BY NextLook, SampleRescheduled DEF OversampleHit
<1>2. /\ triggerCount \in Nat /\ hits \in Nat /\ triggerCount > 1
      /\ triggerCount' = triggerCount - 1 /\ hits' = hits + 1
      /\ oversampling' = TRUE /\ nextWake' \in Ticks
  BY NextLook, Delays DEF OversampleHit, IInv, TypeOK
<1>3. triggerCount' \in 0 .. SampleCount /\ hits' \in 0 .. SampleCount
  BY <1>1, <1>2, Delays
<1>4. SamplesCounted'
  BY <1>1, <1>2, Delays DEF SamplesCounted
<1>5. QED
  BY <1>1, <1>2, <1>3, <1>4
  DEF IInv, TypeOK, OversampleHit, trsyncVars, hostVars

LEMMA LastHitStep == IInv /\ LastHit => IInv' /\ hits' = SampleCount
<1> SUFFICES ASSUME IInv, LastHit PROVE IInv' /\ hits' = SampleCount
  OBVIOUS
<1>1. /\ hung' = FALSE /\ IsList(list') /\ wake' = [wake EXCEPT ![SampleTimer] = 0]
      /\ SampleTimer \in Linked(list) /\ SampleTimer \notin Linked(list')
  BY TheTimers, Finished DEF LastHit, IInv, TypeOK, TimersTypeOK
<1>2. 0 \in Ticks
  BY TimerListAssumption DEF Ticks, ClockRange
<1>3. hits' = SampleCount
  BY <1>1, Delays DEF LastHit, IInv, TypeOK, SamplesCounted
<1>4. /\ canTrigger' \in BOOLEAN /\ triggerReason' \in Reasons /\ calls' \in 0 .. 2
  <2>1. CASE hasSync
    BY <2>1, DoTriggerType DEF LastHit, IInv, Reasons
  <2>2. CASE ~hasSync
    BY <2>2 DEF LastHit, IInv, TypeOK, trsyncVars
  <2>3. QED BY <2>1, <2>2
<1>5. TimersTypeOK'
  <2>1. wake' \in [Timers -> Ticks] /\ TimersTypeOK
    BY <1>1, <1>2 DEF IInv, TypeOK, TimersTypeOK
  <2>2. QED BY <1>1, <2>1, TimersTyped DEF LastHit, Fires
<1>6. TypeOK'
  BY <1>2, <1>3, <1>4, <1>5, Delays DEF IInv, TypeOK, LastHit, hostVars
<1>7. QED BY <1>1, <1>3, <1>6 DEF IInv, SamplesCounted

LEMMA TimerStepStep ==
  IInv /\ TimerStep /\ UNCHANGED <<trsyncVars, endstopVars, hostVars, report>> => IInv'
<1> SUFFICES ASSUME IInv, TimerStep,
                    UNCHANGED <<trsyncVars, endstopVars, hostVars, report>>
             PROVE  IInv'
  OBVIOUS
<1>1. list' = list /\ wake' = wake /\ hung' = hung /\ dispatching' \in BOOLEAN
  BY DEF IInv, TypeOK, TimersTypeOK, TimerStep, Tick, ProcessTimers, DispatchReturn
<1>2. now' \in Ticks
  <2>1. now' = ClockAdd(now, 1) \/ now' = now
    BY DEF TimerStep, Tick, ProcessTimers, DispatchReturn
  <2>2. now \in Ticks
    BY DEF IInv, TypeOK, TimersTypeOK
  <2>3. ClockAdd(now, 1) \in Ticks
    BY <2>2, TimerListAssumption DEF ClockAdd, Ticks, ClockRange
  <2>4. QED BY <2>1, <2>2, <2>3
<1>3. QED
  BY <1>1, <1>2 DEF IInv, TypeOK, TimersTypeOK, SamplesCounted, trsyncVars,
     endstopVars, hostVars

LEMMA NextIInv == Careless = {} /\ IInv /\ [Next]_vars => IInv'
<1> SUFFICES ASSUME Careless = {}, IInv, [Next]_vars PROVE IInv'
  OBVIOUS
<1>1. CASE \E w \in Ticks : Start(w) \/ SetTimeout(w) \/ Home(w)
  BY <1>1, StartStep, SetTimeoutStep, HomeStep
<1>2. CASE AddSignal \/ HostTrigger \/ HomeEnd
  BY <1>2, AddSignalStep, HostTriggerStep, HomeEndStep
<1>3. CASE ReportEvent \/ ExpireEvent
  BY <1>3, ReportEventStep, ExpireEventStep
<1>4. CASE SampleMiss \/ OversampleMiss \/ OversampleHit \/ LastHit
  BY <1>4, SampleMissStep, OversampleMissStep, OversampleHitStep, LastHitStep
<1>5. CASE TimerStep /\ UNCHANGED <<trsyncVars, endstopVars, hostVars, report>>
  BY <1>5, TimerStepStep
<1>6. CASE UNCHANGED vars
  BY <1>6 DEF vars, timerVars, trsyncVars, endstopVars, hostVars, IInv, TypeOK,
     TimersTypeOK, SamplesCounted
<1>7. QED BY <1>1, <1>2, <1>3, <1>4, <1>5, <1>6 DEF Next, Command, Handler

-----------------------------------------------------------------------------
(* The theorems.                                                           *)

(* Under that discipline the pointers are one list, no insertion hangs,    *)
(* and a sampled endstop's matches and what is left to count make up the   *)
(* count asked for (endstop.go:276-304).                                   *)
THEOREM Invariance ==
  ASSUME Careless = {} PROVE Spec => []IInv
<1>1. Init => IInv
  BY InitIInv
<1>2. IInv /\ [Next]_vars => IInv'
  BY NextIInv
<1>3. QED BY <1>1, <1>2, PTL DEF Spec

(* What the endstop counts down stays between the count asked for and      *)
(* zero, and no more matches are counted than were asked for               *)
(* (endstop.go:276-304).                                                   *)
THEOREM TypeCorrect ==
  ASSUME Careless = {} PROVE Spec => []TypeOK
<1>1. IInv => TypeOK
  BY DEF IInv
<1>2. QED BY <1>1, Invariance, PTL

(* The three timers share one list without a cycle, each at most once on   *)
(* it, and no handler waits in insertTimer (scheduler.go:37-53).           *)
THEOREM ListAlwaysSound ==
  ASSUME Careless = {} PROVE Spec => []OneList
<1>1. ASSUME IInv PROVE OneList
  <2>1. PICK n, s : Represents(list, n, s)
    BY <1>1 DEF IInv, IsList
  <2>2. list \in Lists /\ ~hung
    BY <1>1 DEF IInv, IsList
  <2>3. QED BY <1>1, <2>1, <2>2, RepresentedSound, ListReached DEF IInv, OneList
<1>2. QED BY <1>1, Invariance, PTL

(* The first of endstop, timeout and host decides the reason of the        *)
(* session, and its callbacks are called once: with any host, also one     *)
(* that links timers twice (trsync.go:176-194).                            *)
THEOREM FirstTriggerAlwaysWins == Spec => []FirstTriggerWins
<1> DEFINE Kept == FirstTriggerWins /\ calls \in 0 .. 1 /\ (canTrigger => started)
<1>1. Init => Kept
  BY DEF Init, FirstTriggerWins
<1>2. Kept /\ [Next]_vars => Kept'
  <2> SUFFICES ASSUME Kept, [Next]_vars PROVE Kept'
    OBVIOUS
  <2>1. ASSUME NEW reason \in {Hit, Expired, ByHost}, DoTrigger(reason),
               started' = started
        PROVE  Kept'
    <3>1. reason # NoReason
      BY DEF NoReason, Hit, Expired, ByHost
    <3>2. CASE canTrigger
      <4>1. canTrigger' = FALSE /\ triggerReason' # NoReason /\ calls = 0 /\ calls' = 1
        BY <2>1, <3>1, <3>2 DEF DoTrigger, FirstTriggerWins
      <4>2. QED BY <4>1 DEF FirstTriggerWins
    <3>3. CASE ~canTrigger
      BY <2>1, <3>3 DEF DoTrigger, trsyncVars, FirstTriggerWins
    <3>4. QED BY <3>2, <3>3
  <2>2. ASSUME UNCHANGED trsyncVars, started' = started PROVE Kept'
    BY <2>2 DEF trsyncVars, FirstTriggerWins
  <2>3. ASSUME NEW w \in Ticks, Start(w) PROVE Kept'
    BY <2>3 DEF Start, FirstTriggerWins
  <2>4. ASSUME NEW w \in Ticks, SetTimeout(w) \/ Home(w) PROVE Kept'
    BY <2>2, <2>4 DEF SetTimeout, Home, hostVars
  <2>5. CASE AddSignal \/ HomeEnd \/ ReportEvent
    BY <2>2, <2>5 DEF AddSignal, HomeEnd, ReportEvent, hostVars
  <2>6. CASE HostTrigger \/ ExpireEvent
    BY <2>1, <2>6 DEF HostTrigger, ExpireEvent, hostVars
  <2>7. CASE SampleMiss \/ OversampleMiss \/ OversampleHit
    BY <2>2, <2>7 DEF SampleMiss, OversampleMiss, OversampleHit, hostVars
  <2>8. CASE LastHit
    <3>1. started' = started /\ (DoTrigger(Hit) \/ UNCHANGED trsyncVars)
      BY <2>8 DEF LastHit, hostVars
    <3>2. QED BY <2>1, <2>2, <3>1
  <2>9. CASE TimerStep /\ UNCHANGED <<trsyncVars, endstopVars, hostVars, report>>
    BY <2>2, <2>9 DEF hostVars
  <2>10. CASE UNCHANGED vars
    BY <2>2, <2>10 DEF vars, hostVars
  <2>11. QED
    BY <2>3, <2>4, <2>5, <2>6, <2>7, <2>8, <2>9, <2>10 DEF Next, Command, Handler
<1>3. Kept => FirstTriggerWins
  OBVIOUS
<1> HIDE DEF Kept
<1>4. QED BY <1>1, <1>2, <1>3, PTL DEF Spec

(* The endstop triggers only after as many samples in a row as the host    *)
(* asked for have matched, whatever bounced before (endstop.go:276-304).   *)
THEOREM SamplesBeforeTrigger ==
  ASSUME Careless = {} PROVE Spec => TriggerNeedsSamples
<1>1. IInv /\ [Next]_vars =>
        [triggerReason' = Hit /\ triggerReason # Hit => hits' = SampleCount]_vars
  <2> SUFFICES ASSUME IInv, Next, triggerReason' = Hit, triggerReason # Hit
               PROVE  hits' = SampleCount
    OBVIOUS
  <2>1. Hit # NoReason /\ Hit # Expired /\ Hit # ByHost
    BY DEF Hit, NoReason, Expired, ByHost
  <2>2. ~ UNCHANGED trsyncVars
    BY DEF trsyncVars
  <2>3. \A reason \in {Expired, ByHost} : ~DoTrigger(reason)
    BY <2>1, <2>2 DEF DoTrigger
  <2>4. LastHit
    BY <2>1, <2>2, <2>3
    DEF Next, Command, Handler, Start, SetTimeout, Home, AddSignal, HostTrigger,
        HomeEnd, ReportEvent, ExpireEvent, SampleMiss, OversampleMiss, OversampleHit
  <2>5. QED BY <2>4, LastHitStep
<1>2. QED BY <1>1, Invariance, PTL DEF Spec, TriggerNeedsSamples
=============================================================================
