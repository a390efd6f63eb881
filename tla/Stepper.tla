------------------------------- MODULE Stepper -----------------------------
(***************************************************************************)
(* core/stepper.go and core/stepper_commands.go: one stepper, its ring of  *)
(* moves, the move in progress and the timer that makes a step each time   *)
(* it fires.  The backend is external: Step moves the motor one step in    *)
(* the direction last set.                                                 *)
(*                                                                         *)
(* The host is disciplined, as Klipper's is: it resets the step clock and  *)
(* triggers a stop only on an idle stepper, sends no move of zero steps    *)
(* and none whose interval would shrink below zero; Careless names the     *)
(* rules this instance's host breaks.                                      *)
(***************************************************************************)
EXTENDS Dispatch, Sequences

CONSTANTS
  StepTimer,        \* s.StepTimer
  QueueSize,        \* StepperQueueSize (64)
  CountRange,       \* values of a uint16 (2^16)
  MinStopInterval,  \* s.MinStopInterval
  Requests,         \* <<interval, count, add>> of the queue_step commands
  Horizon,          \* a first step is at most this far ahead
  ResetAhead,       \* reset_step_clock is at most this far ahead
  MaxMoves,         \* bound: moves sent
  Careless          \* \subseteq {"reset", "trigger", "accelerate"}

ASSUME StepperAssumption ==
  /\ StepTimer \in Timers
  /\ QueueSize \in Nat \ {0, 1} /\ CountRange \in Nat \ {0}
  /\ MinStopInterval \in Ticks
  /\ Requests \subseteq Ticks \X (1 .. (CountRange - 1)) \X Int
  /\ Horizon \in Nat /\ MaxLate + Horizon < HalfRange
  /\ MaxMoves \in Nat

VARIABLES
  Queue, QueueHead, QueueTail, NextDir,
  Position,
  CurrentInterval, CurrentCount, CurrentAdd,
  LastStepTime,
  NextStepClock,  \* the clock of reset_step_clock, NoClock while ~s.ClockSet
  pinDir,     \* the direction output
  axis,       \* history: where the motor is
  stopped,    \* history: triggered, and no move accepted since
  overrun,    \* history: steps made since (0, 1, or 2 for more)
  moves       \* moves accepted

queueVars == <<Queue, QueueHead, QueueTail, NextDir, moves>>
currentVars == <<CurrentInterval, CurrentCount, CurrentAdd, pinDir>>
clockVars == <<LastStepTime, NextStepClock>>
motorVars == <<Position, axis, stopped, overrun>>
stepperVars == <<queueVars, currentVars, clockVars, motorVars>>
vars == <<timerVars, stepperVars>>

NoClock == -1
Slots == 0 .. (QueueSize - 1)
Move(i, c, a, d) == [Interval |-> i, Count |-> c, Add |-> a, Direction |-> d]
NoMove == Move(0, 0, 0, 0)

Clamped(interval) ==
  IF interval < MinStopInterval THEN MinStopInterval ELSE interval

(* The moves the ring can hold.                                            *)
Moves == {NoMove} \union {Move(Clamped(r[1]), r[2], r[3], d) :
                            r \in Requests, d \in {0, 1}}

TypeOK ==
  /\ TimersTypeOK
  /\ Queue \in [Slots -> Moves]
  /\ QueueHead \in Slots /\ QueueTail \in Slots
  /\ NextDir \in {0, 1} /\ pinDir \in {0, 1}
  /\ Position \in Int /\ axis \in Int
  /\ CurrentInterval \in Ticks
  /\ CurrentCount \in 0 .. (CountRange - 1)
  /\ CurrentAdd \in {m.Add : m \in Moves}
  /\ LastStepTime \in Ticks /\ NextStepClock \in Ticks \union {NoClock}
  /\ stopped \in BOOLEAN
  /\ overrun \in 0 .. 2 /\ moves \in 0 .. MaxMoves

Init ==
  /\ TimersInit
  /\ Queue = [i \in Slots |-> NoMove]
  /\ QueueHead = 0 /\ QueueTail = 0 /\ NextDir = 0 /\ moves = 0
  /\ Position = 0 /\ axis = 0
  /\ CurrentInterval = 0 /\ CurrentCount = 0 /\ CurrentAdd = 0 /\ pinDir = 0
  /\ LastStepTime = 0 /\ NextStepClock = NoClock
  /\ stopped = FALSE /\ overrun = 0

(* Mutant: the ring index does not wrap.                                   *)
AfterNoWrap(i) == i + 1

After(i) == (i + 1) % QueueSize
Moved(dir) == IF dir = 0 THEN 1 ELSE -1

(* The move in progress is the one behind the head of the ring.            *)
CurrentSlot == (QueueHead + QueueSize - 1) % QueueSize

-----------------------------------------------------------------------------
(* Mutant: the ring is filled to its last slot, over the move in progress. *)
QueueFullLate(tail) == FALSE

QueueFull(tail) == After(tail) = QueueHead

(* Mutant: the timer is not scheduled.                                     *)
LoadNextMoveUnarmed(queue) ==
  LET move == queue[QueueHead]
  IN  /\ CurrentInterval' = move.Interval
      /\ CurrentCount' = move.Count
      /\ CurrentAdd' = move.Add
      /\ pinDir' = move.Direction
      /\ QueueHead' = After(QueueHead)
      /\ UNCHANGED <<clockVars, timerVars>>

(* loadNextMove, on the queue QueueMove has just appended to.              *)
LoadNextMove(queue) ==
  LET move == queue[QueueHead]
      last == IF NextStepClock # NoClock THEN NextStepClock ELSE LastStepTime
      first == ClockAdd(last, move.Interval)
  IN  /\ SignedDiff(now, first) \in -Horizon .. MaxLate
      /\ CurrentInterval' = move.Interval
      /\ CurrentCount' = move.Count
      /\ CurrentAdd' = move.Add
      /\ pinDir' = move.Direction
      /\ QueueHead' = After(QueueHead)
      /\ LastStepTime' = last /\ NextStepClock' = NoClock
      /\ Schedule(StepTimer, first)

(* queue_step, accepted: an idle stepper starts on it at once.             *)
QueueMove(interval, count, add) ==
  /\ InLoop /\ moves < MaxMoves
  /\ "accelerate" \notin Careless => Clamped(interval) + add * (count - 1) >= 0
  /\ ~QueueFull(QueueTail)
  /\ Queue' = [Queue EXCEPT ![QueueTail] =
                 Move(Clamped(interval), count, add, NextDir)]
  /\ QueueTail' = After(QueueTail)
  /\ moves' = moves + 1
  /\ stopped' = FALSE /\ overrun' = 0
  /\ IF CurrentCount = 0
     THEN LoadNextMove(Queue')
     ELSE UNCHANGED <<QueueHead, currentVars, clockVars, timerVars>>
  /\ UNCHANGED <<NextDir, Position, axis>>

(* set_next_step_dir                                                       *)
SetNextDir(dir) ==
  /\ InLoop
  /\ NextDir' = dir
  /\ UNCHANGED <<timerVars, Queue, QueueHead, QueueTail, moves, currentVars,
                 clockVars, motorVars>>

(* reset_step_clock                                                        *)
ResetClock(clock) ==
  /\ InLoop
  /\ SignedDiff(now, clock) \in -ResetAhead .. 0
  /\ NextStepClock' = clock /\ LastStepTime' = clock
  /\ IF CurrentCount > 0
     THEN "reset" \in Careless /\ Schedule(StepTimer, clock)
     ELSE UNCHANGED timerVars
  /\ UNCHANGED <<queueVars, currentVars, motorVars>>

(* The callback stepper_stop_on_trigger registers, when the trigger fires. *)
StopOnTrigger ==
  /\ ~hung
  /\ CurrentCount > 0 => "trigger" \in Careless
  /\ QueueHead' = 0 /\ QueueTail' = 0 /\ CurrentCount' = 0
  /\ stopped' = TRUE /\ overrun' = 0
  /\ UNCHANGED <<timerVars, Queue, NextDir, moves, CurrentInterval, CurrentAdd,
                 pinDir, clockVars, Position, axis>>

-----------------------------------------------------------------------------
(* stepperEventHandler: one step, LastStepTime first.                      *)
Pulse ==
  /\ Fires(StepTimer)
  /\ LastStepTime' = wake[StepTimer]
  /\ axis' = axis + Moved(pinDir)
  /\ Position' = Position + Moved(Queue[CurrentSlot].Direction)
  /\ overrun' = IF stopped /\ overrun < 2 THEN overrun + 1 ELSE overrun
  /\ UNCHANGED <<Queue, QueueTail, NextDir, moves, NextStepClock,
                 stopped>>

CountLeft == (CurrentCount - 1 + CountRange) % CountRange

(* Mutant: the interval is not clamped while it shrinks.                   *)
NextIntervalUnclamped == (CurrentInterval + CurrentAdd) % ClockRange

(* CurrentInterval += uint32(CurrentAdd), then clamped.                    *)
NextInterval ==
  IF CurrentAdd = 0 THEN CurrentInterval
  ELSE Clamped((CurrentInterval + CurrentAdd) % ClockRange)

StepWithinMove ==
  /\ Pulse
  /\ CountLeft # 0
  /\ CurrentCount' = CountLeft
  /\ CurrentInterval' = NextInterval
  /\ Reschedule(StepTimer, ClockAdd(wake[StepTimer], NextInterval))
  /\ UNCHANGED <<QueueHead, CurrentAdd, pinDir>>

(* Mutant: SF_RESCHEDULE although nothing is left to do.                   *)
LastStepReschedules ==
  /\ Pulse
  /\ CountLeft = 0 /\ QueueHead = QueueTail
  /\ CurrentCount' = 0
  /\ CurrentInterval' = NextInterval
  /\ Reschedule(StepTimer, ClockAdd(wake[StepTimer], NextInterval))
  /\ UNCHANGED <<QueueHead, CurrentAdd, pinDir>>

(* The last step of the last move: SF_DONE.                                *)
LastStep ==
  /\ Pulse
  /\ CountLeft = 0 /\ QueueHead = QueueTail
  /\ CurrentCount' = 0
  /\ CurrentInterval' = NextInterval
  /\ Done(StepTimer)
  /\ UNCHANGED <<QueueHead, CurrentAdd, pinDir>>

(* Mutant: the next move keeps the direction output of the last one.       *)
StepLoadsNextKeepsDir ==
  /\ Pulse
  /\ CountLeft = 0 /\ QueueHead # QueueTail
  /\ LET move == Queue[QueueHead]
     IN  /\ CurrentInterval' = move.Interval
         /\ CurrentCount' = move.Count
         /\ CurrentAdd' = move.Add
         /\ UNCHANGED pinDir
         /\ Reschedule(StepTimer, ClockAdd(wake[StepTimer], move.Interval))
  /\ QueueHead' = After(QueueHead)

(* The last step of a move loads the next: loadNextMoveFromHandler.        *)
StepLoadsNext ==
  /\ Pulse
  /\ CountLeft = 0 /\ QueueHead # QueueTail
  /\ LET move == Queue[QueueHead]
     IN  /\ CurrentInterval' = move.Interval
         /\ CurrentCount' = move.Count
         /\ CurrentAdd' = move.Add
         /\ pinDir' = move.Direction
         /\ Reschedule(StepTimer, ClockAdd(wake[StepTimer], move.Interval))
  /\ QueueHead' = After(QueueHead)

-----------------------------------------------------------------------------
Command ==
  \/ \E r \in Requests : QueueMove(r[1], r[2], r[3])
  \/ \E d \in {0, 1} : SetNextDir(d)
  \/ \E w \in Ticks : ResetClock(w)
  \/ StopOnTrigger

StepEvent == StepWithinMove \/ LastStep \/ StepLoadsNext

Next ==
  \/ Command \/ StepEvent
  \/ TimerStep /\ UNCHANGED stepperVars

Spec == Init /\ [][Next]_vars

FairSpec == Spec /\ TimerFairness /\ WF_vars(StepEvent)
-----------------------------------------------------------------------------
(***************************************************************************)
(* Properties                                                              *)
(***************************************************************************)

(* A stepper with steps left is on the timer list, once, and an idle one   *)
(* is not: neither a stall with moves queued nor a stray step.             *)
ActiveIsArmed == OneList /\ (CurrentCount > 0 <=> StepTimer \in Linked(list))

(* The waiting moves, oldest first.                                        *)
Waiting ==
  [i \in 1 .. ((QueueTail - QueueHead + QueueSize) % QueueSize) |->
     LET move == Queue[(QueueHead + i - 1) % QueueSize]
     IN  [dir |-> move.Direction, left |-> move.Count]]

CurrentMove ==
  IF CurrentCount = 0 THEN <<>>
  ELSE <<[dir |-> Queue[CurrentSlot].Direction, left |-> CurrentCount]>>

(* The ring, the move in progress and the timer together make the steps    *)
(* of the accepted moves, in order, each in its direction, and accept no   *)
(* move that does not fit the ring (stepper.go:153-301).                   *)
Plan == INSTANCE StepPlan WITH plan <- CurrentMove \o Waiting,
                               Counts <- {r[2] : r \in Requests},
                               Capacity <- QueueSize - 1

ImplementsStepPlan == Plan!Spec

(* The count of steps kept for the host is where the motor is, also when   *)
(* the direction changes from one move to the next (stepper.go:239-244).   *)
PositionIsAxis == Position = axis

(* Steps of a run of moves are at least MinStopInterval apart, through     *)
(* acceleration and the change of moves (stepper.go:38 "Minimum interval   *)
(* between steps (safety limit)").                                         *)
StepsSpaced ==
  [][StepEvent /\ StepTimer \in Linked(list') =>
       SignedDiff(wake'[StepTimer], wake[StepTimer]) >= MinStopInterval]_vars

(* Every accepted move is finished: the stepper comes to rest.             *)
MovesFinish == (CurrentCount > 0) ~> (CurrentCount = 0)

(* stepper_commands.go:83, "The timer will naturally stop when it finds no *)
(* more moves": after the trigger at most the step already due is made.    *)
TimerStops == overrun <= 1
=============================================================================
