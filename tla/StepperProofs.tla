---------------------------- MODULE StepperProofs ---------------------------
(***************************************************************************)
(* Theorems about Stepper, for every ring size, counter and clock range    *)
(* and every set of moves, with a host that resets the step clock and      *)
(* triggers a stop only on an idle stepper.                                *)
(***************************************************************************)
EXTENDS Stepper, TimerListProofs, SequenceTheorems

-----------------------------------------------------------------------------
(* The ring's indices.                                                     *)

(* The number of waiting moves, and the slot of the i-th.                  *)
HeldIn(head, tail) == (tail - head + QueueSize) % QueueSize
SlotFrom(head, i) == (head + i - 1) % QueueSize
SlotBehind(head) == (head + QueueSize - 1) % QueueSize

(* One turn is taken off a number that has made less than two.             *)
LEMMA OneTurn ==
  ASSUME NEW n \in Nat \ {0}, NEW x \in 0 .. (2 * n - 1)
  PROVE  x % n = IF x < n THEN x ELSE x - n
<1>1. CASE x < n
  BY <1>1, SMT
<1>2. CASE x >= n
  <2> DEFINE y == x - n
  <2>1. y \in 0 .. (n - 1) /\ x = n + y
    BY <1>2
  <2>2. x % n = y
    BY <2>1, SMT
  <2>3. QED BY <1>2, <2>2
<1>3. QED BY <1>1, <1>2

LEMMA Ring ==
  ASSUME NEW head \in Slots
  PROVE  /\ After(head) = IF head + 1 < QueueSize THEN head + 1 ELSE 0
         /\ SlotBehind(head) = IF head = 0 THEN QueueSize - 1 ELSE head - 1
         /\ \A i \in 1 .. QueueSize :
              SlotFrom(head, i) = IF head + i - 1 < QueueSize THEN head + i - 1
                                  ELSE head + i - 1 - QueueSize
         /\ \A tail \in Slots :
              HeldIn(head, tail) = IF tail >= head THEN tail - head
                                   ELSE tail - head + QueueSize
<1>1. QueueSize \in Nat \ {0} /\ QueueSize > 1 /\ head \in 0 .. (QueueSize - 1)
  BY StepperAssumption DEF Slots
<1> DEFINE modQ(x) == x % QueueSize
<1>2. \A x \in 0 .. (2 * QueueSize - 1) :
        modQ(x) = IF x < QueueSize THEN x ELSE x - QueueSize
  BY <1>1, OneTurn
<1>3. /\ After(head) = modQ(head + 1)
      /\ SlotBehind(head) = modQ(head + QueueSize - 1)
      /\ \A i : SlotFrom(head, i) = modQ(head + i - 1)
      /\ \A tail : HeldIn(head, tail) = modQ(tail - head + QueueSize)
  BY DEF After, SlotBehind, SlotFrom, HeldIn
<1> HIDE DEF modQ
<1>4. modQ(head + 1) = IF head + 1 < QueueSize THEN head + 1 ELSE 0
  BY <1>1, <1>2
<1>5. modQ(head + QueueSize - 1) = IF head = 0 THEN QueueSize - 1 ELSE head - 1
  BY <1>1, <1>2
<1>6. ASSUME NEW i \in 1 .. QueueSize
      PROVE  modQ(head + i - 1) = IF head + i - 1 < QueueSize THEN head + i - 1
                                  ELSE head + i - 1 - QueueSize
  BY <1>1, <1>2
<1>7. ASSUME NEW tail \in Slots
      PROVE  modQ(tail - head + QueueSize) =
               IF tail >= head THEN tail - head ELSE tail - head + QueueSize
  <2>1. tail \in 0 .. (QueueSize - 1)
    BY DEF Slots
  <2>2. QED BY <1>1, <1>2, <2>1
<1>8. QED BY <1>3, <1>4, <1>5, <1>6, <1>7

LEMMA RingType ==
  ASSUME NEW head \in Slots, NEW tail \in Slots
  PROVE  /\ After(head) \in Slots /\ SlotBehind(head) \in Slots
         /\ HeldIn(head, tail) \in 0 .. (QueueSize - 1)
         /\ HeldIn(head, tail) = 0 <=> head = tail
         /\ \A i \in 1 .. HeldIn(head, tail) : SlotFrom(head, i) \in Slots
<1>1. QueueSize \in Nat /\ QueueSize > 1
      /\ head \in 0 .. (QueueSize - 1) /\ tail \in 0 .. (QueueSize - 1)
  BY StepperAssumption DEF Slots
<1>2. After(head) \in Slots /\ SlotBehind(head) \in Slots
  <2>1. /\ After(head) = IF head + 1 < QueueSize THEN head + 1 ELSE 0
        /\ SlotBehind(head) = IF head = 0 THEN QueueSize - 1 ELSE head - 1
    BY Ring
  <2>2. QED BY <1>1, <2>1 DEF Slots
<1>3. /\ HeldIn(head, tail) \in 0 .. (QueueSize - 1)
      /\ HeldIn(head, tail) = 0 <=> head = tail
  BY <1>1, Ring
<1>4. ASSUME NEW i \in 1 .. HeldIn(head, tail) PROVE SlotFrom(head, i) \in Slots
  <2>1. i \in 1 .. QueueSize
    BY <1>1, <1>3
  <2>2. SlotFrom(head, i) = IF head + i - 1 < QueueSize THEN head + i - 1
                            ELSE head + i - 1 - QueueSize
    BY <2>1, Ring
  <2>3. QED BY <1>1, <2>1, <2>2 DEF Slots
<1>5. QED BY <1>2, <1>3, <1>4

(* A move behind the last one takes a slot no move is in, the one in       *)
(* progress included.                                                      *)
LEMMA RingPush ==
  ASSUME NEW head \in Slots, NEW tail \in Slots, After(tail) # head
  PROVE  /\ HeldIn(head, After(tail)) = HeldIn(head, tail) + 1
         /\ SlotFrom(head, HeldIn(head, tail) + 1) = tail
         /\ \A i \in 1 .. HeldIn(head, tail) : SlotFrom(head, i) # tail
         /\ SlotBehind(head) # tail
<1>1. QueueSize \in Nat /\ QueueSize > 1
      /\ head \in 0 .. (QueueSize - 1) /\ tail \in 0 .. (QueueSize - 1)
  BY StepperAssumption DEF Slots
<1>2. /\ After(tail) \in Slots
      /\ After(tail) = IF tail + 1 < QueueSize THEN tail + 1 ELSE 0
  BY Ring, RingType
<1>3. /\ HeldIn(head, tail) = IF tail >= head THEN tail - head
                              ELSE tail - head + QueueSize
      /\ HeldIn(head, After(tail)) = IF After(tail) >= head THEN After(tail) - head
                                     ELSE After(tail) - head + QueueSize
  BY <1>2, Ring
<1>4. HeldIn(head, After(tail)) = HeldIn(head, tail) + 1
  BY <1>1, <1>2, <1>3
<1>5. HeldIn(head, tail) \in 0 .. (QueueSize - 1)
  BY RingType
<1>6. ASSUME NEW i \in 1 .. QueueSize
      PROVE  SlotFrom(head, i) = tail <=> i = HeldIn(head, tail) + 1
  <2>1. SlotFrom(head, i) = IF head + i - 1 < QueueSize THEN head + i - 1
                            ELSE head + i - 1 - QueueSize
    BY Ring
  <2>2. QED BY <1>1, <1>3, <2>1
<1>7. SlotBehind(head) # tail
  BY <1>1, <1>2, Ring
<1>8. \A i \in 1 .. (HeldIn(head, tail) + 1) : i \in 1 .. QueueSize
  BY <1>1, <1>5
<1>9. QED BY <1>4, <1>5, <1>6, <1>7, <1>8

(* The head moves on to the next waiting move.                             *)
LEMMA RingPop ==
  ASSUME NEW head \in Slots, NEW tail \in Slots
  PROVE  /\ SlotBehind(After(head)) = head
         /\ SlotFrom(head, 1) = head
         /\ head # tail => HeldIn(After(head), tail) = HeldIn(head, tail) - 1
         /\ \A i \in 1 .. (HeldIn(head, tail) - 1) :
              SlotFrom(After(head), i) = SlotFrom(head, i + 1)
<1>1. QueueSize \in Nat /\ QueueSize > 1
  BY StepperAssumption
<1>2. After(head) \in Slots
  BY RingType
<1>3. SlotBehind(After(head)) = head /\ SlotFrom(head, 1) = head
  BY <1>1, <1>2, Ring DEF Slots
<1>4. head # tail => HeldIn(After(head), tail) = HeldIn(head, tail) - 1
  BY <1>1, <1>2, Ring DEF Slots
<1>5. ASSUME NEW i \in 1 .. (HeldIn(head, tail) - 1)
      PROVE  SlotFrom(After(head), i) = SlotFrom(head, i + 1)
  <2>1. HeldIn(head, tail) \in 0 .. (QueueSize - 1)
    BY RingType
  <2>2. i \in 1 .. QueueSize /\ i + 1 \in 1 .. QueueSize
    BY <1>1, <2>1
  <2>3. QED BY <1>1, <1>2, <2>2, Ring DEF Slots
<1>6. QED BY <1>3, <1>4, <1>5

-----------------------------------------------------------------------------
(* What the dispatcher's steps do to the list.                             *)

LEMMA Scheduled ==
  ASSUME IsList(list), StepTimer \notin Linked(list), NEW w, Schedule(StepTimer, w)
  PROVE  /\ hung' = FALSE /\ wake' = [wake EXCEPT ![StepTimer] = w] /\ IsList(list')
         /\ Linked(list') = Linked(list) \union {StepTimer}
         /\ UNCHANGED <<now, dispatching>>
<1> DEFINE new == [wake EXCEPT ![StepTimer] = w]
<1>1. Insert(list, new, StepTimer) /\ UNCHANGED <<now, dispatching>>
  BY DEF Schedule
<1>2. StepTimer \in Timers
  BY StepperAssumption
<1> HIDE DEF new
<1>3. /\ ~InsertHangs(list, new, StepTimer)
      /\ IsList(InsertTimer(list, new, StepTimer))
      /\ Linked(InsertTimer(list, new, StepTimer)) = Linked(list) \union {StepTimer}
  BY <1>2, InsertLinks
<1>4. list' = InsertTimer(list, new, StepTimer) /\ hung' = FALSE /\ wake' = new
  BY <1>1, <1>3 DEF Insert
<1>5. QED BY <1>1, <1>3, <1>4 DEF new

LEMMA Popped ==
  ASSUME IsList(list), Fires(StepTimer)
  PROVE  /\ StepTimer \in Linked(list) /\ IsList(PopHead(list))
         /\ Linked(PopHead(list)) = Linked(list) \ {StepTimer}
<1>1. list.head = StepTimer /\ list.head # Nil
  BY StepperAssumption, TimerListAssumption DEF Fires
<1>2. QED BY <1>1, PopUnlinks

LEMMA Rescheduled ==
  ASSUME IsList(list), Fires(StepTimer), NEW w, Reschedule(StepTimer, w)
  PROVE  /\ hung' = FALSE /\ wake' = [wake EXCEPT ![StepTimer] = w] /\ IsList(list')
         /\ StepTimer \in Linked(list) /\ Linked(list') = Linked(list)
         /\ UNCHANGED <<now, dispatching>>
<1> DEFINE rest == PopHead(list)
           new == [wake EXCEPT ![StepTimer] = w]
<1>1. /\ IsList(rest) /\ StepTimer \in Linked(list)
      /\ Linked(rest) = Linked(list) \ {StepTimer}
  BY Popped
<1>2. Insert(rest, new, StepTimer)
  BY DEF Reschedule
<1>3. StepTimer \in Timers
  BY StepperAssumption
<1> HIDE DEF rest, new
<1>4. /\ ~InsertHangs(rest, new, StepTimer) /\ IsList(InsertTimer(rest, new, StepTimer))
      /\ Linked(InsertTimer(rest, new, StepTimer)) = Linked(rest) \union {StepTimer}
  BY <1>1, <1>3, InsertLinks
<1>5. list' = InsertTimer(rest, new, StepTimer) /\ hung' = FALSE /\ wake' = new
  BY <1>2, <1>4 DEF Insert
<1>6. Linked(list') = Linked(list)
  BY <1>1, <1>4, <1>5
<1>7. QED BY <1>1, <1>4, <1>5, <1>6 DEF new, Fires

LEMMA Finished ==
  ASSUME IsList(list), Fires(StepTimer), Done(StepTimer)
  PROVE  /\ hung' = hung /\ wake' = [wake EXCEPT ![StepTimer] = 0] /\ IsList(list')
         /\ StepTimer \in Linked(list) /\ Linked(list') = Linked(list) \ {StepTimer}
         /\ UNCHANGED <<now, dispatching>>
BY Popped DEF Done, Fires

LEMMA TimersTyped ==
  ASSUME TimersTypeOK, IsList(list'), hung' = FALSE, wake' \in [Timers -> Ticks],
         UNCHANGED <<now, dispatching>>
  PROVE  TimersTypeOK'
<1>1. list' \in Lists
  BY DEF IsList
<1>2. dispatching' \in BOOLEAN
  BY DEF TimersTypeOK
<1>3. hung' \in BOOLEAN
  OBVIOUS
<1>4. QED BY <1>1, <1>2, <1>3 DEF TimersTypeOK

-----------------------------------------------------------------------------
(* Types.                                                                  *)

LEMMA TickSum ==
  ASSUME NEW a \in Ticks, NEW b \in Ticks
  PROVE  ClockAdd(a, b) \in Ticks
BY TimerListAssumption DEF ClockAdd, Ticks, ClockRange

LEMMA TickResidue ==
  ASSUME NEW x \in Int
  PROVE  x % ClockRange \in Ticks
<1>1. ClockRange \in Nat \ {0}
  BY TimerListAssumption DEF ClockRange
<1>2. QED BY <1>1, SMT DEF Ticks

LEMMA ClampedType ==
  ASSUME NEW x \in Ticks
  PROVE  Clamped(x) \in Ticks /\ Clamped(x) >= MinStopInterval
<1>1. MinStopInterval \in Ticks /\ Ticks \subseteq Int
  BY StepperAssumption, TimerListAssumption DEF Ticks, ClockRange
<1>2. QED BY <1>1 DEF Clamped

LEMMA RequestType ==
  ASSUME NEW r \in Requests
  PROVE  /\ r[1] \in Ticks /\ r[2] \in 1 .. (CountRange - 1) /\ r[3] \in Int
         /\ \A d \in {0, 1} : Move(Clamped(r[1]), r[2], r[3], d) \in Moves
<1>1. r[1] \in Ticks /\ r[2] \in 1 .. (CountRange - 1) /\ r[3] \in Int
  BY StepperAssumption
<1>2. QED BY <1>1 DEF Moves

LEMMA MoveType ==
  ASSUME NEW m \in Moves
  PROVE  /\ m.Interval \in Ticks /\ m.Count \in 0 .. (CountRange - 1)
         /\ m.Add \in Int /\ m.Add \in {x.Add : x \in Moves}
         /\ m.Direction \in {0, 1}
<1>1. CASE m = NoMove
  <2>1. 0 \in 0 .. (CountRange - 1)
    BY StepperAssumption
  <2>2. QED BY <1>1, <2>1, ZeroIsTick DEF NoMove, Move
<1>2. CASE m # NoMove
  <2>1. PICK r \in Requests, d \in {0, 1} : m = Move(Clamped(r[1]), r[2], r[3], d)
    BY <1>2 DEF Moves
  <2>2. r[1] \in Ticks /\ r[2] \in 0 .. (CountRange - 1) /\ r[3] \in Int
    BY RequestType
  <2>3. QED BY <2>1, <2>2, ClampedType DEF Move
<1>3. QED BY <1>1, <1>2

LEMMA NextIntervalType == TypeOK => NextInterval \in Ticks
<1> SUFFICES ASSUME TypeOK PROVE NextInterval \in Ticks
  OBVIOUS
<1>1. CurrentInterval \in Ticks /\ CurrentAdd \in Int
  BY MoveType DEF TypeOK
<1>2. CurrentInterval + CurrentAdd \in Int
  BY <1>1, TimerListAssumption DEF Ticks, ClockRange
<1>3. Clamped((CurrentInterval + CurrentAdd) % ClockRange) \in Ticks
  BY <1>2, TickResidue, ClampedType
<1>4. QED BY <1>1, <1>3 DEF NextInterval

-----------------------------------------------------------------------------
(* The inductive invariant.                                                *)

(* The ring is empty while the stepper is idle, the direction output is    *)
(* that of the move in progress, and no waiting move has zero steps.       *)
RingSound ==
  /\ CurrentCount = 0 => QueueHead = QueueTail
  /\ CurrentCount > 0 => pinDir = Queue[CurrentSlot].Direction
  /\ \A i \in 1 .. HeldIn(QueueHead, QueueTail) :
       Queue[SlotFrom(QueueHead, i)].Count > 0

IInv ==
  /\ TypeOK
  /\ IsList(list) /\ hung = FALSE
  /\ Linked(list) = IF CurrentCount > 0 THEN {StepTimer} ELSE {}
  /\ RingSound
  /\ Position = axis

(* The rules of the host the invariant rests on.                           *)
IdleHost == "trigger" \notin Careless /\ "reset" \notin Careless

LEMMA CurrentSlotIsBehind == CurrentSlot = SlotBehind(QueueHead)
BY DEF CurrentSlot, SlotBehind

LEMMA InitIInv == Init => IInv
<1> SUFFICES ASSUME Init PROVE IInv
  OBVIOUS
<1>1. IsList(list) /\ Linked(list) = {}
  BY EmptyIsList DEF Init, TimersInit
<1>2. TimersTypeOK
  BY <1>1, ZeroIsTick DEF Init, TimersInit, TimersTypeOK, IsList
<1>3. /\ NoMove \in Moves /\ 0 \in {m.Add : m \in Moves}
      /\ 0 \in Slots /\ 0 \in 0 .. MaxMoves /\ 0 \in 0 .. (CountRange - 1)
  <2>1. NoMove \in Moves /\ NoMove.Add = 0
    BY DEF Moves, NoMove, Move
  <2>2. QED BY <2>1, StepperAssumption DEF Slots
<1>4. stopped \in BOOLEAN
  BY DEF Init
<1>5. TypeOK
  BY <1>2, <1>3, <1>4, ZeroIsTick DEF Init, TypeOK
<1>6. RingSound
  <2>1. HeldIn(QueueHead, QueueTail) = 0
    BY <1>5, RingType DEF Init, TypeOK
  <2>2. QED BY <2>1 DEF Init, RingSound
<1>7. QED BY <1>1, <1>5, <1>6 DEF Init, TimersInit, IInv

-----------------------------------------------------------------------------
(* Commands.                                                               *)

(* queue_step puts a move behind the waiting ones.                         *)
LEMMA PushStep ==
  ASSUME IInv, NEW r \in Requests, QueueMove(r[1], r[2], r[3])
  PROVE  /\ Queue' \in [Slots -> Moves] /\ QueueTail' \in Slots
         /\ Queue'[QueueTail] = Move(Clamped(r[1]), r[2], r[3], NextDir)
         /\ HeldIn(QueueHead, QueueTail') = HeldIn(QueueHead, QueueTail) + 1
         /\ SlotFrom(QueueHead, HeldIn(QueueHead, QueueTail) + 1) = QueueTail
         /\ \A i \in 1 .. HeldIn(QueueHead, QueueTail) :
              Queue'[SlotFrom(QueueHead, i)] = Queue[SlotFrom(QueueHead, i)]
         /\ Queue'[CurrentSlot] = Queue[CurrentSlot]
<1> DEFINE move == Move(Clamped(r[1]), r[2], r[3], NextDir)
<1>1. /\ Queue \in [Slots -> Moves] /\ QueueHead \in Slots /\ QueueTail \in Slots
      /\ move \in Moves
  BY RequestType DEF IInv, TypeOK
<1>2. /\ Queue' = [Queue EXCEPT ![QueueTail] = move] /\ QueueTail' = After(QueueTail)
      /\ After(QueueTail) # QueueHead
  BY DEF QueueMove, QueueFull
<1> HIDE DEF move
<1>3. /\ After(QueueTail) \in Slots /\ SlotBehind(QueueHead) \in Slots
      /\ \A i \in 1 .. HeldIn(QueueHead, QueueTail) : SlotFrom(QueueHead, i) \in Slots
  BY <1>1, RingType
<1>4. /\ HeldIn(QueueHead, After(QueueTail)) = HeldIn(QueueHead, QueueTail) + 1
      /\ SlotFrom(QueueHead, HeldIn(QueueHead, QueueTail) + 1) = QueueTail
      /\ \A i \in 1 .. HeldIn(QueueHead, QueueTail) : SlotFrom(QueueHead, i) # QueueTail
      /\ SlotBehind(QueueHead) # QueueTail
  BY <1>1, <1>2, RingPush
<1>5. Queue' \in [Slots -> Moves] /\ Queue'[QueueTail] = move
  BY <1>1, <1>2
<1>6. \A i \in 1 .. HeldIn(QueueHead, QueueTail) :
        Queue'[SlotFrom(QueueHead, i)] = Queue[SlotFrom(QueueHead, i)]
  BY <1>1, <1>2, <1>3, <1>4
<1>7. Queue'[CurrentSlot] = Queue[CurrentSlot]
  BY <1>1, <1>2, <1>3, <1>4, CurrentSlotIsBehind
<1>8. QED BY <1>2, <1>3, <1>4, <1>5, <1>6, <1>7 DEF move

(* While a move is in progress the accepted one waits.                     *)
LEMMA QueueMoveWaits ==
  ASSUME IInv, NEW r \in Requests, QueueMove(r[1], r[2], r[3]), CurrentCount > 0
  PROVE  IInv'
<1> DEFINE held == HeldIn(QueueHead, QueueTail)
<1>1. UNCHANGED <<QueueHead, currentVars, clockVars, timerVars, NextDir, Position, axis>>
  BY DEF QueueMove, IInv, TypeOK
<1>2. TypeOK'
  <2>1. stopped' \in BOOLEAN
    BY DEF QueueMove
  <2>2. moves' \in 0 .. MaxMoves /\ overrun' \in 0 .. 2
    BY StepperAssumption DEF QueueMove, IInv, TypeOK
  <2>3. TimersTypeOK'
    BY <1>1 DEF IInv, TypeOK, TimersTypeOK, timerVars
  <2>4. QED BY <1>1, <2>1, <2>2, <2>3, PushStep DEF IInv, TypeOK, currentVars, clockVars
<1>3. RingSound'
  <2>1. HeldIn(QueueHead', QueueTail') = held + 1
    BY <1>1, PushStep
  <2>2. held \in Nat
    BY RingType, StepperAssumption DEF IInv, TypeOK
  <2>3. ASSUME NEW i \in 1 .. (held + 1)
        PROVE  Queue'[SlotFrom(QueueHead', i)].Count > 0
    <3>1. CASE i \in 1 .. held
      BY <1>1, <3>1, PushStep DEF IInv, RingSound
    <3>2. CASE i = held + 1
      <4>1. Queue'[SlotFrom(QueueHead', i)] = Move(Clamped(r[1]), r[2], r[3], NextDir)
        BY <1>1, <3>2, PushStep
      <4>2. r[2] > 0
        BY RequestType, StepperAssumption
      <4>3. QED BY <4>1, <4>2 DEF Move
    <3>3. QED BY <2>2, <3>1, <3>2
  <2>4. CurrentSlot' = CurrentSlot
    BY <1>1 DEF CurrentSlot
  <2>5. pinDir' = pinDir /\ pinDir = Queue[CurrentSlot].Direction /\ CurrentCount' > 0
    BY <1>1 DEF RingSound, IInv, currentVars
  <2>6. pinDir' = Queue'[CurrentSlot'].Direction
    BY <2>4, <2>5, PushStep
  <2>7. ~(CurrentCount' = 0)
    BY <2>5
  <2> HIDE DEF held
  <2>8. QED BY <2>1, <2>3, <2>6, <2>7 DEF RingSound
<1>4. QED BY <1>1, <1>2, <1>3 DEF IInv, timerVars, currentVars

(* An idle stepper starts on it.                                           *)
LEMMA QueueMoveStarts ==
  ASSUME IInv, NEW r \in Requests, QueueMove(r[1], r[2], r[3]), CurrentCount = 0
  PROVE  IInv'
<1> DEFINE move == Move(Clamped(r[1]), r[2], r[3], NextDir)
           last == IF NextStepClock # NoClock THEN NextStepClock ELSE LastStepTime
           first == ClockAdd(last, move.Interval)
<1>1. QueueHead = QueueTail /\ QueueHead \in Slots /\ StepTimer \notin Linked(list)
  BY DEF IInv, RingSound, TypeOK
<1>2. move \in Moves /\ Queue'[QueueHead] = move
  BY <1>1, PushStep, RequestType DEF IInv, TypeOK
<1>3. /\ CurrentInterval' = move.Interval /\ CurrentCount' = move.Count
      /\ CurrentAdd' = move.Add /\ pinDir' = move.Direction
      /\ QueueHead' = After(QueueHead) /\ QueueTail' = After(QueueTail)
      /\ LastStepTime' = last /\ NextStepClock' = NoClock
      /\ Schedule(StepTimer, first)
      /\ UNCHANGED <<NextDir, Position, axis>>
  BY <1>2 DEF QueueMove, LoadNextMove
<1>4. move.Count = r[2] /\ r[2] > 0 /\ r[2] \in Nat
  BY RequestType, StepperAssumption DEF Move
<1>5. first \in Ticks /\ last \in Ticks
  <2>1. last \in Ticks
    BY DEF IInv, TypeOK
  <2>2. move.Interval \in Ticks
    BY <1>2, MoveType
  <2> HIDE DEF last, move
  <2>3. QED BY <2>1, <2>2, TickSum
<1> HIDE DEF last, first
<1>6. /\ hung' = FALSE /\ wake' = [wake EXCEPT ![StepTimer] = first] /\ IsList(list')
      /\ Linked(list') = Linked(list) \union {StepTimer}
      /\ UNCHANGED <<now, dispatching>>
  BY <1>1, <1>3, Scheduled DEF IInv
<1> HIDE DEF move
<1>7. TypeOK'
  <2>1. stopped' \in BOOLEAN
    BY DEF QueueMove
  <2>2. moves' \in 0 .. MaxMoves /\ overrun' \in 0 .. 2
    BY StepperAssumption DEF QueueMove, IInv, TypeOK
  <2>3. TimersTypeOK'
    <3>1. wake' \in [Timers -> Ticks] /\ TimersTypeOK
      BY <1>5, <1>6 DEF IInv, TypeOK, TimersTypeOK
    <3>2. QED BY <1>6, <3>1, TimersTyped
  <2>4. QueueHead' \in Slots /\ NextDir \in {0, 1} /\ Position \in Int /\ axis \in Int
    BY <1>1, <1>3, RingType DEF IInv, TypeOK
  <2>5. QED BY <1>2, <1>3, <1>5, <2>1, <2>2, <2>3, <2>4, PushStep, MoveType DEF TypeOK
<1>8. RingSound'
  <2>1. HeldIn(QueueHead', QueueTail') = 0
    BY <1>1, <1>3, RingType
  <2>2. CurrentSlot' = QueueHead
    <3>1. CurrentSlot' = SlotBehind(QueueHead')
      BY DEF CurrentSlot, SlotBehind
    <3>2. QED BY <1>1, <1>3, <3>1, RingPop
  <2>3. QED BY <1>1, <1>2, <1>3, <1>4, <2>1, <2>2 DEF RingSound
<1>9. QED BY <1>1, <1>3, <1>4, <1>6, <1>7, <1>8 DEF IInv

LEMMA QueueMoveStep ==
  ASSUME IInv, NEW r \in Requests, QueueMove(r[1], r[2], r[3])
  PROVE  IInv'
<1>1. CurrentCount \in Nat
  BY DEF IInv, TypeOK
<1>2. CurrentCount = 0 \/ CurrentCount > 0
  BY <1>1
<1>3. QED BY <1>2, QueueMoveStarts, QueueMoveWaits

LEMMA SetNextDirStep ==
  ASSUME IInv, NEW dir \in {0, 1}, SetNextDir(dir) PROVE IInv'
BY DEF IInv, TypeOK, TimersTypeOK, RingSound, SetNextDir, timerVars, currentVars,
   clockVars, motorVars, CurrentSlot

LEMMA ResetClockStep ==
  ASSUME IInv, IdleHost, NEW w \in Ticks, ResetClock(w) PROVE IInv'
<1>1. UNCHANGED <<timerVars, queueVars, currentVars, motorVars>>
  BY DEF ResetClock, IdleHost
<1>2. LastStepTime' \in Ticks /\ NextStepClock' \in Ticks
  BY DEF ResetClock
<1>3. TypeOK'
  BY <1>1, <1>2 DEF IInv, TypeOK, TimersTypeOK, timerVars, queueVars, currentVars, motorVars
<1>4. QED
  BY <1>1, <1>3 DEF IInv, RingSound, timerVars, queueVars, currentVars, motorVars,
     CurrentSlot

LEMMA StopOnTriggerStep ==
  ASSUME IInv, IdleHost, StopOnTrigger PROVE IInv'
<1>1. /\ UNCHANGED <<timerVars, Queue, NextDir, moves, CurrentInterval, CurrentAdd, pinDir,
                     clockVars, Position, axis>>
      /\ CurrentCount = 0 /\ CurrentCount' = 0 /\ QueueHead' = 0 /\ QueueTail' = 0
  BY DEF StopOnTrigger, IdleHost, IInv, TypeOK
<1>2. TypeOK'
  <2>1. stopped' \in BOOLEAN /\ overrun' \in 0 .. 2
    BY DEF StopOnTrigger
  <2>2. 0 \in Slots
    BY StepperAssumption DEF Slots
  <2>3. QED
    BY <1>1, <2>1, <2>2 DEF IInv, TypeOK, TimersTypeOK, timerVars, clockVars
<1>3. RingSound'
  <2>1. HeldIn(0, 0) = 0
    BY StepperAssumption, RingType DEF Slots
  <2>2. QED BY <1>1, <2>1 DEF RingSound
<1>4. QED BY <1>1, <1>2, <1>3 DEF IInv, timerVars

-----------------------------------------------------------------------------
(* The handler.                                                            *)

LEMMA PulseStep ==
  ASSUME IInv, Pulse, StepTimer \in Linked(list)
  PROVE  /\ CurrentCount > 0 /\ CurrentCount \in Nat /\ CountLeft = CurrentCount - 1
         /\ CountLeft \in 0 .. (CountRange - 1)
         /\ Position' = axis' /\ Position' \in Int
         /\ LastStepTime' \in Ticks /\ wake[StepTimer] \in Ticks
         /\ overrun' \in 0 .. 2
         /\ UNCHANGED <<Queue, QueueTail, NextDir, moves, NextStepClock, stopped, now,
                        dispatching>>
<1>1. CurrentCount > 0 /\ CurrentCount \in 0 .. (CountRange - 1)
  BY DEF IInv, TypeOK
<1>2. CountLeft = CurrentCount - 1
  <2>1. CountRange \in Nat \ {0}
    BY StepperAssumption
  <2> DEFINE x == CurrentCount - 1 + CountRange
  <2>2. x \in 0 .. (2 * CountRange - 1) /\ ~(x < CountRange)
        /\ x - CountRange = CurrentCount - 1
    BY <1>1, <2>1
  <2>3. CountLeft = x % CountRange
    BY DEF CountLeft
  <2> HIDE DEF x
  <2>4. QED BY <2>1, <2>2, <2>3, OneTurn
<1>3. Position' = axis' /\ Position' \in Int
  <2>1. pinDir = Queue[CurrentSlot].Direction /\ pinDir \in {0, 1}
        /\ Position = axis /\ axis \in Int
    BY <1>1 DEF IInv, TypeOK, RingSound
  <2>2. Moved(pinDir) \in Int
    BY DEF Moved
  <2>3. axis' = axis + Moved(pinDir) /\ Position' = Position + Moved(pinDir)
    BY <2>1 DEF Pulse
  <2>4. QED BY <2>1, <2>2, <2>3
<1>4. wake[StepTimer] \in Ticks
  BY StepperAssumption DEF IInv, TypeOK, TimersTypeOK
<1>5. overrun' \in 0 .. 2
  BY DEF Pulse, IInv, TypeOK
<1>6. CountLeft \in 0 .. (CountRange - 1)
  BY <1>1, <1>2, StepperAssumption
<1>7. QED BY <1>1, <1>2, <1>3, <1>4, <1>5, <1>6 DEF Pulse, Fires

LEMMA StepWithinMoveStep == IInv /\ StepWithinMove => IInv'
<1> SUFFICES ASSUME IInv, StepWithinMove PROVE IInv'
  OBVIOUS
<1> DEFINE next == ClockAdd(wake[StepTimer], NextInterval)
<1>1. Pulse /\ Fires(StepTimer) /\ Reschedule(StepTimer, next)
  BY DEF StepWithinMove, Pulse
<1> HIDE DEF next
<1>2. /\ hung' = FALSE /\ wake' = [wake EXCEPT ![StepTimer] = next] /\ IsList(list')
      /\ StepTimer \in Linked(list) /\ Linked(list') = Linked(list)
      /\ UNCHANGED <<now, dispatching>>
  BY <1>1, Rescheduled DEF IInv
<1>3. next \in Ticks /\ NextInterval \in Ticks
  BY <1>1, <1>2, PulseStep, NextIntervalType, TickSum DEF next, IInv
<1>4. /\ CurrentCount' = CountLeft /\ CountLeft # 0 /\ CurrentInterval' = NextInterval
      /\ UNCHANGED <<QueueHead, CurrentAdd, pinDir>>
  BY DEF StepWithinMove
<1>5. CurrentCount' > 0
  BY <1>1, <1>2, <1>4, PulseStep
<1>6. TimersTypeOK'
  <2>1. wake' \in [Timers -> Ticks] /\ TimersTypeOK
    BY <1>2, <1>3 DEF IInv, TypeOK, TimersTypeOK
  <2>2. QED BY <1>2, <2>1, TimersTyped
<1>7. TypeOK'
  BY <1>1, <1>2, <1>3, <1>4, <1>6, PulseStep DEF IInv, TypeOK
<1>8. RingSound'
  <2>1. CurrentCount > 0 /\ UNCHANGED <<Queue, QueueTail>>
    BY <1>1, <1>2, PulseStep
  <2>2. QED BY <1>4, <1>5, <2>1 DEF IInv, RingSound, CurrentSlot
<1>9. Linked(list') = {StepTimer}
  BY <1>1, <1>2, PulseStep DEF IInv
<1>10. QED BY <1>1, <1>2, <1>5, <1>7, <1>8, <1>9, PulseStep DEF IInv

LEMMA LastStepStep == IInv /\ LastStep => IInv'
<1> SUFFICES ASSUME IInv, LastStep PROVE IInv'
  OBVIOUS
<1>1. Pulse /\ Fires(StepTimer) /\ Done(StepTimer)
  BY DEF LastStep, Pulse
<1>2. /\ hung' = hung /\ wake' = [wake EXCEPT ![StepTimer] = 0] /\ IsList(list')
      /\ StepTimer \in Linked(list) /\ Linked(list') = Linked(list) \ {StepTimer}
      /\ UNCHANGED <<now, dispatching>>
  BY <1>1, Finished DEF IInv
<1>3. /\ CurrentCount' = 0 /\ QueueHead = QueueTail /\ CurrentInterval' = NextInterval
      /\ UNCHANGED <<QueueHead, CurrentAdd, pinDir>>
  BY DEF LastStep
<1>4. TimersTypeOK'
  <2>1. wake' \in [Timers -> Ticks] /\ TimersTypeOK /\ hung' = FALSE
    BY <1>2, ZeroIsTick DEF IInv, TypeOK, TimersTypeOK
  <2>2. QED BY <1>2, <2>1, TimersTyped
<1>5. TypeOK'
  <2>1. 0 \in 0 .. (CountRange - 1)
    BY StepperAssumption
  <2>2. QED
    BY <1>1, <1>2, <1>3, <1>4, <2>1, PulseStep, NextIntervalType DEF IInv, TypeOK
<1>6. RingSound'
  <2>1. HeldIn(QueueHead', QueueTail') = 0 /\ QueueHead' = QueueTail'
    BY <1>1, <1>2, <1>3, PulseStep, RingType DEF IInv, TypeOK
  <2>2. QED BY <1>3, <2>1 DEF RingSound
<1>7. Linked(list') = {} /\ hung' = FALSE
  BY <1>1, <1>2, PulseStep DEF IInv
<1>8. Position' = axis'
  BY <1>1, <1>2, PulseStep
<1>9. Linked(list') = IF CurrentCount' > 0 THEN {StepTimer} ELSE {}
  BY <1>3, <1>7
<1>10. QED BY <1>2, <1>5, <1>6, <1>7, <1>8, <1>9 DEF IInv

LEMMA StepLoadsNextStep == IInv /\ StepLoadsNext => IInv'
<1> SUFFICES ASSUME IInv, StepLoadsNext PROVE IInv'
  OBVIOUS
<1> DEFINE move == Queue[QueueHead]
           next == ClockAdd(wake[StepTimer], move.Interval)
           held == HeldIn(QueueHead, QueueTail)
<1>1. /\ Pulse /\ Fires(StepTimer) /\ Reschedule(StepTimer, next)
      /\ QueueHead # QueueTail
      /\ CurrentInterval' = move.Interval /\ CurrentCount' = move.Count
      /\ CurrentAdd' = move.Add /\ pinDir' = move.Direction
      /\ QueueHead' = After(QueueHead)
  BY DEF StepLoadsNext, Pulse
<1>2. move \in Moves /\ QueueHead \in Slots /\ QueueTail \in Slots
  BY DEF IInv, TypeOK
<1>3. move.Count > 0 /\ held \in Nat /\ held > 0
  <2>1. held \in Nat /\ held > 0
    BY <1>1, <1>2, RingType
  <2>2. Queue[SlotFrom(QueueHead, 1)].Count > 0
    BY <2>1 DEF IInv, RingSound
  <2>3. QED BY <1>2, <2>1, <2>2, RingPop
<1> HIDE DEF move, next
<1>4. /\ hung' = FALSE /\ wake' = [wake EXCEPT ![StepTimer] = next] /\ IsList(list')
      /\ StepTimer \in Linked(list) /\ Linked(list') = Linked(list)
      /\ UNCHANGED <<now, dispatching>>
  BY <1>1, Rescheduled DEF IInv
<1>5. next \in Ticks
  BY <1>1, <1>2, <1>4, PulseStep, MoveType, TickSum DEF next
<1>6. TimersTypeOK'
  <2>1. wake' \in [Timers -> Ticks] /\ TimersTypeOK
    BY <1>4, <1>5 DEF IInv, TypeOK, TimersTypeOK
  <2>2. QED BY <1>4, <2>1, TimersTyped
<1>7. TypeOK'
  <2>1. QueueHead' \in Slots
    BY <1>1, <1>2, RingType
  <2>2. QED BY <1>1, <1>2, <1>4, <1>6, <2>1, PulseStep, MoveType DEF IInv, TypeOK
<1>8. RingSound'
  <2>1. CurrentSlot' = QueueHead
    <3>1. CurrentSlot' = SlotBehind(QueueHead')
      BY DEF CurrentSlot, SlotBehind
    <3>2. QED BY <1>1, <1>2, <3>1, RingPop
  <2>2. UNCHANGED <<Queue, QueueTail>>
    BY <1>1, <1>4, PulseStep
  <2>3. HeldIn(QueueHead', QueueTail') = held - 1
    BY <1>1, <1>2, <2>2, RingPop
  <2>4. ASSUME NEW i \in 1 .. (held - 1)
        PROVE  Queue'[SlotFrom(QueueHead', i)].Count > 0
    <3>1. SlotFrom(QueueHead', i) = SlotFrom(QueueHead, i + 1)
      BY <1>1, <1>2, RingPop
    <3>2. i + 1 \in 1 .. held
      BY <1>3
    <3>3. QED BY <2>2, <3>1, <3>2 DEF IInv, RingSound
  <2>5. pinDir' = Queue'[CurrentSlot'].Direction
    BY <1>1, <2>1, <2>2 DEF move
  <2>6. ~(CurrentCount' = 0)
    BY <1>1, <1>2, <1>3, MoveType
  <2>7. QED BY <2>3, <2>4, <2>5, <2>6 DEF RingSound
<1>9. Linked(list') = {StepTimer}
  BY <1>1, <1>4, PulseStep DEF IInv
<1>10. QED BY <1>1, <1>3, <1>4, <1>7, <1>8, <1>9, PulseStep DEF IInv

LEMMA TimerStepStep == IInv /\ TimerStep /\ UNCHANGED stepperVars => IInv'
<1> SUFFICES ASSUME IInv, TimerStep, UNCHANGED stepperVars PROVE IInv'
  OBVIOUS
<1>1. list' = list /\ wake' = wake /\ hung' = hung /\ dispatching' \in BOOLEAN
  BY DEF IInv, TypeOK, TimersTypeOK, TimerStep, Tick, ProcessTimers, DispatchReturn
<1>2. now' \in Ticks
  <2>1. now' = ClockAdd(now, 1) \/ now' = now
    BY DEF TimerStep, Tick, ProcessTimers, DispatchReturn
  <2>2. now \in Ticks
    BY DEF IInv, TypeOK, TimersTypeOK
  <2>3. QED BY <2>1, <2>2, ClockTicks
<1>3. UNCHANGED <<queueVars, currentVars, clockVars, motorVars>>
  BY DEF stepperVars
<1>4. TypeOK'
  BY <1>1, <1>2, <1>3 DEF IInv, TypeOK, TimersTypeOK, queueVars, currentVars, clockVars,
     motorVars
<1>5. QED
  BY <1>1, <1>3, <1>4 DEF IInv, RingSound, CurrentSlot, queueVars, currentVars, motorVars

LEMMA NextIInv == IdleHost /\ IInv /\ [Next]_vars => IInv'
<1> SUFFICES ASSUME IdleHost, IInv, [Next]_vars PROVE IInv'
  OBVIOUS
<1>1. CASE Command
  BY <1>1, QueueMoveStep, SetNextDirStep, ResetClockStep, StopOnTriggerStep DEF Command
<1>2. CASE StepEvent
  BY <1>2, StepWithinMoveStep, LastStepStep, StepLoadsNextStep DEF StepEvent
<1>3. CASE TimerStep /\ UNCHANGED stepperVars
  BY <1>3, TimerStepStep
<1>4. CASE UNCHANGED vars
  <2>1. UNCHANGED <<list, wake, now, dispatching, hung, queueVars, currentVars, clockVars,
                    motorVars>>
    BY <1>4 DEF vars, timerVars, stepperVars
  <2>2. TypeOK'
    BY <2>1 DEF IInv, TypeOK, TimersTypeOK, queueVars, currentVars, clockVars, motorVars
  <2>3. QED
    BY <2>1, <2>2 DEF IInv, RingSound, CurrentSlot, queueVars, currentVars, motorVars
<1>5. QED BY <1>1, <1>2, <1>3, <1>4 DEF Next

-----------------------------------------------------------------------------
(* The intervals.                                                          *)

(* The interval of a move with count steps left, and that of its last      *)
(* step: the ones between them are between the two.                        *)
Fit(interval, count, add) ==
  /\ interval \in MinStopInterval .. (HalfRange - 1)
  /\ interval + add * (count - 1) \in 0 .. (HalfRange - 1)

(* A host whose moves neither shrink below zero nor reach half the range   *)
(* of the clock, where what lies ahead reads as past.                      *)
BriskHost ==
  /\ "accelerate" \notin Careless
  /\ \A r \in Requests : /\ Clamped(r[1]) < HalfRange
                         /\ Clamped(r[1]) + r[3] * (r[2] - 1) < HalfRange

MovesFit ==
  /\ \A s \in Slots : Queue[s] = NoMove
                      \/ Fit(Queue[s].Interval, Queue[s].Count, Queue[s].Add)
  /\ CurrentCount > 0 => Fit(CurrentInterval, CurrentCount, CurrentAdd)

LEMMA OneLess ==
  ASSUME NEW a \in Int, NEW k \in Nat
  PROVE  a * (k + 1) = a * k + a
OBVIOUS

LEMMA ProductSign ==
  ASSUME NEW a \in Int, NEW k \in Nat
  PROVE  /\ a * k \in Int
         /\ a >= 0 => a * k >= 0
         /\ a <= 0 => a * k <= 0
<1>1. a * k \in Int
  OBVIOUS
<1>2. a >= 0 => a * k >= 0
  OBVIOUS
<1>3. a <= 0 => a * k <= 0
  OBVIOUS
<1>4. QED BY <1>1, <1>2, <1>3

LEMMA MinStopType == MinStopInterval \in Nat /\ HalfRange \in Nat
BY StepperAssumption, TimerListAssumption DEF Ticks, ClockRange

(* The next interval is not clamped away from the last, and still fits.    *)
LEMMA NextIntervalFits ==
  ASSUME TypeOK, CurrentCount > 1, Fit(CurrentInterval, CurrentCount, CurrentAdd)
  PROVE  Fit(NextInterval, CurrentCount - 1, CurrentAdd)
<1> DEFINE k == CurrentCount - 2
           rest == CurrentAdd * k
           shrunk == CurrentInterval + CurrentAdd
<1>1. /\ CurrentCount \in Nat /\ CurrentInterval \in Nat /\ CurrentAdd \in Int /\ k \in Nat
      /\ CurrentCount - 1 = k + 1 /\ (CurrentCount - 1) - 1 = k
  <2>1. CurrentCount \in Nat /\ CurrentInterval \in Nat
    BY MinStopType DEF TypeOK, Fit
  <2>2. CurrentAdd \in Int
    BY MoveType DEF TypeOK
  <2>3. QED BY <2>1, <2>2
<1>2. /\ rest \in Int
      /\ CurrentAdd >= 0 => rest >= 0
      /\ CurrentAdd <= 0 => rest <= 0
      /\ CurrentAdd * (CurrentCount - 1) = rest + CurrentAdd
  <2>1. CurrentAdd * (k + 1) = CurrentAdd * k + CurrentAdd
    BY <1>1, OneLess
  <2>2. /\ CurrentAdd * k \in Int
        /\ CurrentAdd >= 0 => CurrentAdd * k >= 0
        /\ CurrentAdd <= 0 => CurrentAdd * k <= 0
    BY <1>1, ProductSign
  <2> HIDE DEF k
  <2>3. QED BY <1>1, <2>1, <2>2
<1>3. /\ CurrentInterval \in MinStopInterval .. (HalfRange - 1)
      /\ CurrentInterval + (rest + CurrentAdd) \in 0 .. (HalfRange - 1)
  BY <1>2 DEF Fit
<1> HIDE DEF rest, k
<1>4. shrunk \in 0 .. (HalfRange - 1) /\ shrunk + rest \in 0 .. (HalfRange - 1)
  BY <1>1, <1>2, <1>3, MinStopType
<1>5. shrunk % ClockRange = shrunk
  <2>1. ClockRange \in Nat \ {0} /\ shrunk \in 0 .. (2 * ClockRange - 1)
        /\ shrunk < ClockRange
    BY <1>4, TimerListAssumption DEF ClockRange
  <2> HIDE DEF shrunk
  <2>2. QED BY <2>1, OneTurn
<1>6. /\ CurrentAdd = 0 => NextInterval = CurrentInterval
      /\ CurrentAdd # 0 => NextInterval = Clamped(shrunk)
  BY <1>5 DEF NextInterval
<1>7. NextInterval \in MinStopInterval .. (HalfRange - 1)
      /\ NextInterval + rest \in 0 .. (HalfRange - 1)
  <2>1. CASE CurrentAdd = 0
    BY <1>1, <1>2, <1>3, <1>6, <2>1
  <2>2. CASE CurrentAdd # 0 /\ shrunk >= MinStopInterval
    <3>1. NextInterval = shrunk
      BY <1>4, <1>6, <2>2, MinStopType DEF Clamped
    <3>2. QED BY <1>4, <2>2, <3>1, MinStopType
  <2>3. CASE CurrentAdd # 0 /\ shrunk < MinStopInterval
    <3>1. NextInterval = MinStopInterval
      BY <1>6, <2>3 DEF Clamped
    <3>2. CurrentAdd <= 0
      BY <1>1, <1>3, <2>3, MinStopType
    <3>3. QED BY <1>1, <1>2, <1>3, <1>4, <2>3, <3>1, <3>2, MinStopType
  <2>4. QED BY <1>4, <2>1, <2>2, <2>3, MinStopType
<1>8. QED BY <1>1, <1>7 DEF Fit, rest

LEMMA AcceptedFits ==
  ASSUME TypeOK, BriskHost, NEW r \in Requests, QueueMove(r[1], r[2], r[3])
  PROVE  Fit(Clamped(r[1]), r[2], r[3])
<1> DEFINE last == Clamped(r[1]) + r[3] * (r[2] - 1)
<1>1. last >= 0 /\ last < HalfRange /\ Clamped(r[1]) < HalfRange
  BY DEF QueueMove, BriskHost
<1>2. Clamped(r[1]) \in Nat /\ Clamped(r[1]) >= MinStopInterval
  BY RequestType, ClampedType, TimerListAssumption DEF Ticks, ClockRange
<1>3. last \in Int
  <2>1. r[3] \in Int /\ r[2] - 1 \in Nat
    BY RequestType, StepperAssumption
  <2> DEFINE product == r[3] * (r[2] - 1)
  <2>2. product \in Int
    BY <2>1, ProductSign
  <2> HIDE DEF product
  <2>3. Clamped(r[1]) + product \in Int
    BY <1>2, <2>2
  <2>4. QED BY <2>3 DEF product
<1> HIDE DEF last
<1>4. last \in 0 .. (HalfRange - 1)
      /\ Clamped(r[1]) \in MinStopInterval .. (HalfRange - 1)
  BY <1>1, <1>2, <1>3, MinStopType
<1>5. QED BY <1>4 DEF last, Fit

(* What the handler adds to the time of the step.                          *)
LEMMA StepEventAhead ==
  ASSUME IInv, MovesFit, StepEvent, StepTimer \in Linked(list')
  PROVE  \E d \in MinStopInterval .. (HalfRange - 1) :
           /\ wake'[StepTimer] = ClockAdd(wake[StepTimer], d)
           /\ CurrentInterval' = d
           /\ Fit(CurrentInterval', CurrentCount', CurrentAdd')
<1>1. /\ Pulse /\ Fires(StepTimer) /\ StepTimer \in Linked(list)
      /\ StepTimer \in Timers /\ wake \in [Timers -> Ticks]
  <2>1. Pulse /\ Fires(StepTimer)
    BY DEF StepEvent, StepWithinMove, LastStep, StepLoadsNext, Pulse
  <2>2. QED BY <2>1, Popped, StepperAssumption DEF IInv, TypeOK, TimersTypeOK
<1>2. CurrentCount > 0 /\ CurrentCount \in Nat /\ CountLeft = CurrentCount - 1
  BY <1>1, PulseStep
<1>3. CASE StepWithinMove
  <2>1. /\ Reschedule(StepTimer, ClockAdd(wake[StepTimer], NextInterval))
        /\ CurrentInterval' = NextInterval /\ CurrentCount' = CountLeft /\ CountLeft # 0
        /\ CurrentAdd' = CurrentAdd
    BY <1>3 DEF StepWithinMove
  <2>2. wake'[StepTimer] = ClockAdd(wake[StepTimer], NextInterval)
    BY <1>1, <2>1, Rescheduled DEF IInv
  <2>3. Fit(NextInterval, CurrentCount - 1, CurrentAdd)
    BY <1>2, <2>1, NextIntervalFits DEF IInv, MovesFit
  <2>4. NextInterval \in MinStopInterval .. (HalfRange - 1)
    BY <2>3 DEF Fit
  <2>5. QED BY <1>2, <2>1, <2>2, <2>3, <2>4
<1>4. CASE LastStep
  <2>1. Done(StepTimer)
    BY <1>4 DEF LastStep
  <2>2. QED BY <1>1, <2>1, Finished DEF IInv
<1>5. CASE StepLoadsNext
  <2> DEFINE move == Queue[QueueHead]
  <2>1. /\ Reschedule(StepTimer, ClockAdd(wake[StepTimer], move.Interval))
        /\ CurrentInterval' = move.Interval /\ CurrentCount' = move.Count
        /\ CurrentAdd' = move.Add /\ QueueHead # QueueTail
    BY <1>5 DEF StepLoadsNext
  <2>2. wake'[StepTimer] = ClockAdd(wake[StepTimer], move.Interval)
    BY <1>1, <2>1, Rescheduled DEF IInv
  <2>3. QueueHead \in Slots /\ QueueTail \in Slots
    BY DEF IInv, TypeOK
  <2>4. move.Count > 0
    <3>1. HeldIn(QueueHead, QueueTail) \in 0 .. (QueueSize - 1)
          /\ HeldIn(QueueHead, QueueTail) # 0
      BY <2>1, <2>3, RingType
    <3>2. 1 \in 1 .. HeldIn(QueueHead, QueueTail)
      BY <3>1, StepperAssumption
    <3>3. QED BY <2>3, <3>2, RingPop DEF IInv, RingSound
  <2>5. move # NoMove
    BY <2>4 DEF NoMove, Move
  <2>6. Fit(move.Interval, move.Count, move.Add)
    BY <2>3, <2>5 DEF MovesFit
  <2>7. move.Interval \in MinStopInterval .. (HalfRange - 1)
    BY <2>6 DEF Fit
  <2>8. QED BY <2>1, <2>2, <2>6, <2>7
<1>6. QED BY <1>3, <1>4, <1>5 DEF StepEvent

LEMMA MovesFitStep ==
  BriskHost /\ IdleHost /\ IInv /\ MovesFit /\ [Next]_vars => MovesFit'
<1> SUFFICES ASSUME BriskHost, IdleHost, IInv, MovesFit, [Next]_vars PROVE MovesFit'
  OBVIOUS
<1> USE DEF MovesFit
<1>1. ASSUME NEW r \in Requests, QueueMove(r[1], r[2], r[3]) PROVE MovesFit'
  <2> DEFINE move == Move(Clamped(r[1]), r[2], r[3], NextDir)
  <2>1. Queue' = [Queue EXCEPT ![QueueTail] = move]
        /\ Queue \in [Slots -> Moves] /\ QueueTail \in Slots
    BY <1>1 DEF QueueMove, IInv, TypeOK
  <2>2. Fit(move.Interval, move.Count, move.Add)
    BY <1>1, AcceptedFits DEF Move, IInv
  <2>3. CASE CurrentCount = 0
    <3>1. Queue'[QueueHead] = move
      BY <2>1, <2>3 DEF IInv, RingSound
    <3>2. /\ CurrentInterval' = Queue'[QueueHead].Interval
          /\ CurrentCount' = Queue'[QueueHead].Count
          /\ CurrentAdd' = Queue'[QueueHead].Add
      BY <1>1, <2>3 DEF QueueMove, LoadNextMove
    <3> HIDE DEF move
    <3>3. QED BY <2>1, <2>2, <3>1, <3>2
  <2>4. CASE CurrentCount # 0
    <3>1. UNCHANGED currentVars
      BY <1>1, <2>4 DEF QueueMove
    <3> HIDE DEF move
    <3>2. QED BY <2>1, <2>2, <3>1 DEF currentVars
  <2>5. QED BY <2>3, <2>4
<1>2. ASSUME NEW d \in {0, 1}, SetNextDir(d) PROVE MovesFit'
  BY <1>2 DEF SetNextDir, currentVars
<1>3. ASSUME NEW w \in Ticks, ResetClock(w) PROVE MovesFit'
  BY <1>3 DEF ResetClock, queueVars, currentVars
<1>4. CASE StopOnTrigger
  BY <1>4 DEF StopOnTrigger
<1>5. CASE StepEvent
  <2>1. IInv' /\ Queue' = Queue
    BY <1>5, NextIInv DEF Next, StepEvent, StepWithinMove, LastStep, StepLoadsNext, Pulse
  <2>2. CurrentCount' > 0 => StepTimer \in Linked(list')
    BY <2>1 DEF IInv
  <2>3. QED BY <1>5, <2>1, <2>2, StepEventAhead
<1>6. CASE TimerStep /\ UNCHANGED stepperVars
  BY <1>6 DEF stepperVars, queueVars, currentVars
<1>7. CASE UNCHANGED vars
  BY <1>7 DEF vars, stepperVars, queueVars, currentVars
<1>8. QED
  BY <1>1, <1>2, <1>3, <1>4, <1>5, <1>6, <1>7 DEF Next, Command

-----------------------------------------------------------------------------
(* The theorems.                                                           *)

(* The timer is linked exactly while a move is in progress, the ring holds *)
(* no empty move, and the direction output is that of the move in progress *)
(* (stepper.go:71-301).                                                    *)
THEOREM Invariance ==
  ASSUME IdleHost PROVE Spec => []IInv
<1>1. Init => IInv
  BY InitIInv
<1>2. IInv /\ [Next]_vars => IInv'
  BY NextIInv
<1>3. QED BY <1>1, <1>2, PTL DEF Spec

(* The ring's indices stay inside the ring, the steps left never wrap      *)
(* below zero, and only accepted moves are in the ring (stepper.go:71-301).*)
THEOREM TypeCorrect ==
  ASSUME IdleHost PROVE Spec => []TypeOK
<1>1. IInv => TypeOK
  BY DEF IInv
<1>2. QED BY <1>1, Invariance, PTL

(* A stepper with steps left is on the timer list, exactly once, and an    *)
(* idle one is not (stepper.go:170-301).                                   *)
THEOREM ActiveAlwaysArmed ==
  ASSUME IdleHost PROVE Spec => []ActiveIsArmed
<1>1. ASSUME IInv PROVE ActiveIsArmed
  <2>1. PICK n, s : Represents(list, n, s)
    BY <1>1 DEF IInv, IsList
  <2>2. list \in Lists /\ ~hung
    BY <1>1 DEF IInv, IsList
  <2>3. OneList
    BY <1>1, <2>1, <2>2, RepresentedSound, ListReached DEF IInv, OneList
  <2>4. CurrentCount > 0 <=> StepTimer \in Linked(list)
    BY <1>1 DEF IInv
  <2>5. QED BY <2>3, <2>4 DEF ActiveIsArmed
<1>2. QED BY <1>1, Invariance, PTL

(* The count of steps kept for the host is where the motor is, through     *)
(* every change of move and of direction (stepper.go:239-244).             *)
THEOREM PositionAlwaysAxis ==
  ASSUME IdleHost PROVE Spec => []PositionIsAxis
<1>1. IInv => PositionIsAxis
  BY DEF IInv, PositionIsAxis
<1>2. QED BY <1>1, Invariance, PTL

(* Steps of a run of moves are at least MinStopInterval apart, however the *)
(* moves accelerate and wherever the clock wraps (stepper.go:248-281).     *)
THEOREM StepsAlwaysSpaced ==
  ASSUME IdleHost, BriskHost PROVE Spec => StepsSpaced
<1>1. Init => MovesFit
  BY DEF Init, MovesFit
<1>2. IInv /\ MovesFit /\ [Next]_vars => MovesFit'
  BY MovesFitStep
<1>3. IInv /\ MovesFit /\ [Next]_vars =>
        [StepEvent /\ StepTimer \in Linked(list') =>
           SignedDiff(wake'[StepTimer], wake[StepTimer]) >= MinStopInterval]_vars
  <2> SUFFICES ASSUME IInv, MovesFit, StepEvent, StepTimer \in Linked(list')
               PROVE  SignedDiff(wake'[StepTimer], wake[StepTimer]) >= MinStopInterval
    OBVIOUS
  <2>1. PICK d \in MinStopInterval .. (HalfRange - 1) :
          wake'[StepTimer] = ClockAdd(wake[StepTimer], d)
    BY StepEventAhead
  <2>2. wake[StepTimer] \in Ticks
    BY StepperAssumption DEF IInv, TypeOK, TimersTypeOK
  <2>3. d \in Nat /\ d < HalfRange /\ d >= MinStopInterval
    BY MinStopType
  <2>4. QED BY <2>1, <2>2, <2>3, ClockAhead
<1>4. QED BY <1>1, <1>2, <1>3, Invariance, PTL DEF Spec, StepsSpaced

-----------------------------------------------------------------------------
(* Refinement: the plan the ring, the move in progress and the count of    *)
(* its steps stand for.                                                    *)

Todo == [dir : {0, 1}, left : Nat]
TodoAt(queue, slot) == [dir |-> queue[slot].Direction, left |-> queue[slot].Count]

PlanOf(queue, head, tail, count) ==
  IF count = 0 THEN <<>>
  ELSE [i \in 1 .. (HeldIn(head, tail) + 1) |->
          IF i = 1 THEN [dir |-> queue[SlotBehind(head)].Direction, left |-> count]
          ELSE TodoAt(queue, SlotFrom(head, i - 1))]

LEMMA TodoType ==
  ASSUME NEW queue \in [Slots -> Moves], NEW slot \in Slots
  PROVE  /\ TodoAt(queue, slot) \in Todo
         /\ \A n \in Nat : [dir |-> queue[slot].Direction, left |-> n] \in Todo
<1>1. queue[slot].Direction \in {0, 1} /\ queue[slot].Count \in Nat
  BY MoveType, StepperAssumption
<1>2. QED BY <1>1 DEF TodoAt, Todo

LEMMA PlanOfType ==
  ASSUME NEW queue \in [Slots -> Moves], NEW head \in Slots, NEW tail \in Slots,
         NEW count \in Nat \ {0}
  PROVE  /\ PlanOf(queue, head, tail, count) \in Seq(Todo)
         /\ Len(PlanOf(queue, head, tail, count)) = HeldIn(head, tail) + 1
         /\ PlanOf(queue, head, tail, count) # <<>>
         /\ PlanOf(queue, head, tail, count)[1] =
              [dir |-> queue[SlotBehind(head)].Direction, left |-> count]
         /\ \A i \in 1 .. HeldIn(head, tail) :
              PlanOf(queue, head, tail, count)[i + 1] = TodoAt(queue, SlotFrom(head, i))
<1> DEFINE held == HeldIn(head, tail)
           plan == PlanOf(queue, head, tail, count)
           at(i) == IF i = 1 THEN [dir |-> queue[SlotBehind(head)].Direction, left |-> count]
                    ELSE TodoAt(queue, SlotFrom(head, i - 1))
<1>1. plan = [i \in 1 .. (held + 1) |-> at(i)]
  BY DEF PlanOf
<1>2. held \in Nat
  BY RingType, StepperAssumption
<1>3. ASSUME NEW i \in 1 .. (held + 1) PROVE at(i) \in Todo
  <2>1. CASE i = 1
    BY <2>1, TodoType, RingType
  <2>2. CASE i # 1
    <3>1. i - 1 \in 1 .. held
      BY <1>2, <2>2
    <3>2. QED BY <2>2, <3>1, TodoType, RingType
  <2>3. QED BY <2>1, <2>2
<1>4. at(1) = [dir |-> queue[SlotBehind(head)].Direction, left |-> count]
  OBVIOUS
<1>5. ASSUME NEW i \in 1 .. held PROVE at(i + 1) = TodoAt(queue, SlotFrom(head, i))
  <2>1. i + 1 # 1 /\ (i + 1) - 1 = i
    BY <1>2
  <2>2. QED BY <2>1
<1> HIDE DEF at, plan, held
<1>6. plan \in [1 .. (held + 1) -> Todo]
  BY <1>1, <1>3
<1>7. plan \in Seq(Todo)
  BY <1>2, <1>6, SeqDef
<1>8. Len(plan) = held + 1
  BY <1>2, <1>6
<1>9. plan[1] = at(1) /\ \A i \in 1 .. held : plan[i + 1] = at(i + 1)
  BY <1>1, <1>2
<1>10. plan # <<>>
  BY <1>2, <1>8
<1>11. QED BY <1>4, <1>5, <1>7, <1>8, <1>9, <1>10 DEF plan, held

(* What CurrentMove and Waiting make up is that plan.                      *)
LEMMA PlanIs ==
  ASSUME NEW queue \in [Slots -> Moves], NEW head \in Slots, NEW tail \in Slots,
         NEW count \in Nat, count = 0 => head = tail
  PROVE  (IF count = 0 THEN <<>>
          ELSE <<[dir |-> queue[SlotBehind(head)].Direction, left |-> count]>>)
         \o [i \in 1 .. HeldIn(head, tail) |-> TodoAt(queue, SlotFrom(head, i))]
         = PlanOf(queue, head, tail, count)
<1> DEFINE held == HeldIn(head, tail)
           waiting == [i \in 1 .. held |-> TodoAt(queue, SlotFrom(head, i))]
           first == [dir |-> queue[SlotBehind(head)].Direction, left |-> count]
           plan == PlanOf(queue, head, tail, count)
<1>1. held \in Nat
  BY RingType, StepperAssumption
<1>2. waiting \in [1 .. held -> Todo] /\ first \in Todo
  BY TodoType, RingType
<1>3. \A i \in 1 .. held : waiting[i] = TodoAt(queue, SlotFrom(head, i))
  OBVIOUS
<1> HIDE DEF waiting
<1>4. waiting \in Seq(Todo) /\ Len(waiting) = held
  BY <1>1, <1>2, SeqDef
<1>5. CASE count = 0
  <2>1. held = 0
    BY <1>5, RingType
  <2>2. waiting = <<>>
    BY <1>4, <2>1, EmptySeq
  <2>3. plan = <<>>
    BY <1>5 DEF PlanOf
  <2>4. <<>> \o waiting = <<>>
    BY <1>4, <2>2, ConcatEmptySeq
  <2>5. QED BY <1>5, <2>3, <2>4 DEF waiting
<1>6. CASE count # 0
  <2>1. <<first>> \in Seq(Todo) /\ Len(<<first>>) = 1 /\ <<first>>[1] = first
    BY <1>2
  <2>2. /\ plan \in Seq(Todo) /\ Len(plan) = held + 1 /\ plan[1] = first
        /\ \A i \in 1 .. held : plan[i + 1] = TodoAt(queue, SlotFrom(head, i))
    BY <1>6, PlanOfType
  <2> HIDE DEF first, plan, held
  <2>3. /\ <<first>> \o waiting \in Seq(Todo)
        /\ Len(<<first>> \o waiting) = 1 + held
        /\ \A i \in 1 .. (1 + held) : (<<first>> \o waiting)[i] =
              IF i <= 1 THEN <<first>>[i] ELSE waiting[i - 1]
    BY <1>4, <2>1, ConcatProperties
  <2>4. ASSUME NEW i \in 1 .. (1 + held)
        PROVE  (<<first>> \o waiting)[i] = plan[i]
    <3>1. CASE i = 1
      BY <2>1, <2>2, <2>3, <3>1
    <3>2. CASE i # 1
      <4> DEFINE j == i - 1
      <4>1. j \in 1 .. held /\ i = j + 1 /\ ~(i <= 1)
        BY <1>1, <3>2
      <4>2. plan[j + 1] = TodoAt(queue, SlotFrom(head, j)) /\ waiting[j] = plan[j + 1]
        BY <1>3, <2>2, <4>1 DEF held
      <4>3. QED BY <2>3, <4>1, <4>2
    <3>3. QED BY <3>1, <3>2
  <2>5. Len(plan) = Len(<<first>> \o waiting)
    BY <1>1, <2>2, <2>3
  <2>6. <<first>> \o waiting = plan
    BY <2>2, <2>3, <2>4, <2>5, SeqEqual
  <2>7. QED BY <1>6, <2>6 DEF first, plan, waiting, held
<1>7. QED BY <1>5, <1>6

PlanKnown ==
  CurrentMove \o Waiting = PlanOf(Queue, QueueHead, QueueTail, CurrentCount)

LEMMA PlanIsKnown == IInv => PlanKnown
<1> SUFFICES ASSUME IInv PROVE PlanKnown
  OBVIOUS
<1>1. /\ Queue \in [Slots -> Moves] /\ QueueHead \in Slots /\ QueueTail \in Slots
      /\ CurrentCount \in Nat
      /\ CurrentCount = 0 => QueueHead = QueueTail
  BY DEF IInv, TypeOK, RingSound
<1>2. Waiting = [i \in 1 .. HeldIn(QueueHead, QueueTail) |->
                   TodoAt(Queue, SlotFrom(QueueHead, i))]
  BY DEF Waiting, HeldIn, SlotFrom, TodoAt
<1>3. CurrentMove =
        IF CurrentCount = 0 THEN <<>>
        ELSE <<[dir |-> Queue[SlotBehind(QueueHead)].Direction, left |-> CurrentCount]>>
  BY CurrentSlotIsBehind DEF CurrentMove
<1>4. (IF CurrentCount = 0 THEN <<>>
       ELSE <<[dir |-> Queue[SlotBehind(QueueHead)].Direction, left |-> CurrentCount]>>)
      \o [i \in 1 .. HeldIn(QueueHead, QueueTail) |-> TodoAt(Queue, SlotFrom(QueueHead, i))]
      = PlanOf(Queue, QueueHead, QueueTail, CurrentCount)
  BY <1>1, PlanIs
<1>5. QED BY <1>2, <1>3, <1>4, Zenon DEF PlanKnown

LEMMA NextPlanIsKnown == IInv' => PlanKnown'
BY PlanIsKnown, PTL

(* An accepted move is appended.                                           *)
LEMMA PlanAppends ==
  ASSUME NEW queue \in [Slots -> Moves], NEW head \in Slots, NEW tail \in Slots,
         NEW count \in Nat \ {0}, NEW queue2 \in [Slots -> Moves], NEW tail2 \in Slots,
         HeldIn(head, tail2) = HeldIn(head, tail) + 1,
         \A i \in 1 .. HeldIn(head, tail) :
           queue2[SlotFrom(head, i)] = queue[SlotFrom(head, i)],
         queue2[SlotBehind(head)] = queue[SlotBehind(head)]
  PROVE  PlanOf(queue2, head, tail2, count) =
           Append(PlanOf(queue, head, tail, count),
                  TodoAt(queue2, SlotFrom(head, HeldIn(head, tail) + 1)))
<1> DEFINE held == HeldIn(head, tail)
           plan == PlanOf(queue, head, tail, count)
           plan2 == PlanOf(queue2, head, tail2, count)
           new == TodoAt(queue2, SlotFrom(head, held + 1))
<1>1. held \in Nat /\ HeldIn(head, tail2) = held + 1
  BY RingType, StepperAssumption
<1>2. /\ plan \in Seq(Todo) /\ Len(plan) = held + 1
      /\ plan[1] = [dir |-> queue[SlotBehind(head)].Direction, left |-> count]
      /\ \A i \in 1 .. held : plan[i + 1] = TodoAt(queue, SlotFrom(head, i))
  BY PlanOfType
<1>3. /\ plan2 \in Seq(Todo) /\ Len(plan2) = (held + 1) + 1
      /\ plan2[1] = [dir |-> queue2[SlotBehind(head)].Direction, left |-> count]
      /\ \A i \in 1 .. (held + 1) : plan2[i + 1] = TodoAt(queue2, SlotFrom(head, i))
  BY <1>1, PlanOfType
<1>4. \A i \in 1 .. held : TodoAt(queue2, SlotFrom(head, i)) = TodoAt(queue, SlotFrom(head, i))
  BY DEF TodoAt
<1>5. new \in Todo /\ held + 1 \in 1 .. (held + 1)
  <2>1. held + 1 \in 1 .. (held + 1)
    BY <1>1
  <2>2. SlotFrom(head, held + 1) \in Slots
    BY <1>1, <2>1, RingType
  <2>3. QED BY <2>1, <2>2, TodoType
<1>6. plan2[1] = plan[1]
  BY <1>2, <1>3
<1> HIDE DEF plan, plan2, held
<1>7. /\ Append(plan, new) \in Seq(Todo) /\ Len(Append(plan, new)) = (held + 1) + 1
      /\ \A i \in 1 .. (held + 1) : Append(plan, new)[i] = plan[i]
      /\ Append(plan, new)[(held + 1) + 1] = new
  BY <1>2, <1>5, AppendProperties
<1>8. ASSUME NEW i \in 1 .. ((held + 1) + 1)
      PROVE  plan2[i] = Append(plan, new)[i]
  <2>1. CASE i = 1
    BY <1>1, <1>6, <1>7, <2>1
  <2>2. CASE i # 1 /\ i # (held + 1) + 1
    <3> DEFINE j == i - 1
    <3>1. j \in 1 .. held /\ j \in 1 .. (held + 1) /\ i = j + 1 /\ i \in 1 .. (held + 1)
      BY <1>1, <2>2
    <3>2. plan2[j + 1] = plan[j + 1]
      BY <1>2, <1>3, <1>4, <3>1 DEF held
    <3>3. QED BY <1>7, <3>1, <3>2
  <2>3. CASE i = (held + 1) + 1
    BY <1>3, <1>5, <1>7, <2>3
  <2>4. QED BY <2>1, <2>2, <2>3
<1>9. Len(plan2) = Len(Append(plan, new))
  BY <1>3, <1>7
<1>10. plan2 = Append(plan, new)
  BY <1>3, <1>7, <1>8, <1>9, SeqEqual
<1>11. QED BY <1>10 DEF plan, plan2, held

(* A step is taken off the first move.                                     *)
LEMMA PlanShrinks ==
  ASSUME NEW queue \in [Slots -> Moves], NEW head \in Slots, NEW tail \in Slots,
         NEW count \in Nat, count > 1
  PROVE  PlanOf(queue, head, tail, count - 1) =
           [PlanOf(queue, head, tail, count) EXCEPT ![1].left = @ - 1]
<1> DEFINE plan == PlanOf(queue, head, tail, count)
           plan2 == PlanOf(queue, head, tail, count - 1)
           dir == queue[SlotBehind(head)].Direction
           shrunk == [plan EXCEPT ![1].left = @ - 1]
           held == HeldIn(head, tail)
<1>1. count \in Nat \ {0} /\ count - 1 \in Nat \ {0}
  OBVIOUS
<1>2. held \in Nat
  BY RingType, StepperAssumption
<1>3. /\ plan \in Seq(Todo) /\ Len(plan) = held + 1
      /\ plan[1] = [dir |-> dir, left |-> count]
      /\ \A i \in 1 .. held : plan[i + 1] = TodoAt(queue, SlotFrom(head, i))
  BY <1>1, PlanOfType
<1>4. /\ plan2 \in Seq(Todo) /\ Len(plan2) = held + 1
      /\ plan2[1] = [dir |-> dir, left |-> count - 1]
      /\ \A i \in 1 .. held : plan2[i + 1] = TodoAt(queue, SlotFrom(head, i))
  BY <1>1, PlanOfType
<1>5. [dir |-> dir, left |-> count - 1] \in Todo
  BY <1>1, TodoType, RingType
<1> HIDE DEF plan, plan2, held, dir
<1>6. shrunk = [plan EXCEPT ![1] = [dir |-> dir, left |-> count - 1]]
  <2>1. [plan[1] EXCEPT !.left = @ - 1] = [dir |-> dir, left |-> count - 1]
    BY <1>3
  <2>2. shrunk = [plan EXCEPT ![1] = [plan[1] EXCEPT !.left = @ - 1]]
    OBVIOUS
  <2>3. QED BY <2>1, <2>2
<1>7. 1 \in 1 .. Len(plan)
  BY <1>2, <1>3
<1>8. /\ shrunk \in Seq(Todo) /\ Len(shrunk) = held + 1
      /\ \A i \in 1 .. (held + 1) :
           shrunk[i] = IF i = 1 THEN [dir |-> dir, left |-> count - 1] ELSE plan[i]
  <2> HIDE DEF shrunk
  <2>1. QED BY <1>3, <1>5, <1>6, <1>7, ExceptSeq
<1> HIDE DEF shrunk
<1>9. ASSUME NEW i \in 1 .. (held + 1) PROVE plan2[i] = shrunk[i]
  <2>1. CASE i = 1
    BY <1>4, <1>8, <2>1
  <2>2. CASE i # 1
    <3> DEFINE j == i - 1
    <3>1. j \in 1 .. held /\ i = j + 1
      BY <1>2, <2>2
    <3>2. plan2[j + 1] = plan[j + 1]
      BY <1>3, <1>4, <3>1
    <3>3. QED BY <1>8, <2>2, <3>1, <3>2
  <2>3. QED BY <2>1, <2>2
<1>10. plan2 = shrunk
  BY <1>4, <1>8, <1>9, SeqEqual
<1>11. QED BY <1>10 DEF plan, plan2, shrunk

(* The next waiting move becomes the first.                                *)
LEMMA PlanMovesOn ==
  ASSUME NEW queue \in [Slots -> Moves], NEW head \in Slots, NEW tail \in Slots,
         NEW count \in Nat \ {0}, head # tail, queue[head].Count > 0
  PROVE  PlanOf(queue, After(head), tail, queue[head].Count) =
           Tail(PlanOf(queue, head, tail, count))
<1> DEFINE plan == PlanOf(queue, head, tail, count)
           plan2 == PlanOf(queue, After(head), tail, queue[head].Count)
           held == HeldIn(head, tail)
<1>1. /\ held \in Nat /\ held > 0 /\ After(head) \in Slots
      /\ queue[head].Count \in Nat \ {0}
  <2>1. held \in Nat /\ held > 0 /\ After(head) \in Slots
    BY RingType, StepperAssumption
  <2>2. queue[head].Count \in Nat \ {0}
    BY MoveType, StepperAssumption
  <2>3. QED BY <2>1, <2>2
<1>2. /\ SlotBehind(After(head)) = head /\ SlotFrom(head, 1) = head
      /\ HeldIn(After(head), tail) = held - 1
      /\ \A i \in 1 .. (held - 1) : SlotFrom(After(head), i) = SlotFrom(head, i + 1)
  BY RingPop
<1>3. /\ plan \in Seq(Todo) /\ Len(plan) = held + 1
      /\ plan[1] = [dir |-> queue[SlotBehind(head)].Direction, left |-> count]
      /\ \A i \in 1 .. held : plan[i + 1] = TodoAt(queue, SlotFrom(head, i))
  BY PlanOfType
<1>4. /\ plan2 \in Seq(Todo) /\ Len(plan2) = HeldIn(After(head), tail) + 1
      /\ plan2[1] = TodoAt(queue, head)
      /\ \A i \in 1 .. HeldIn(After(head), tail) :
           plan2[i + 1] = TodoAt(queue, SlotFrom(After(head), i))
  <2> DEFINE next == After(head)
             n == queue[head].Count
  <2>1. next \in Slots /\ n \in Nat \ {0} /\ plan2 = PlanOf(queue, next, tail, n)
    BY <1>1
  <2> HIDE DEF next, n, plan2
  <2>2. /\ plan2 \in Seq(Todo) /\ Len(plan2) = HeldIn(next, tail) + 1
        /\ plan2[1] = [dir |-> queue[SlotBehind(next)].Direction, left |-> n]
        /\ \A i \in 1 .. HeldIn(next, tail) :
             plan2[i + 1] = TodoAt(queue, SlotFrom(next, i))
    BY <2>1, PlanOfType
  <2>3. plan2[1] = TodoAt(queue, head)
    BY <1>2, <2>2 DEF TodoAt, next, n
  <2>4. QED BY <2>2, <2>3 DEF next
<1> HIDE DEF plan, plan2, held
<1>5. /\ Tail(plan) \in Seq(Todo) /\ Len(Tail(plan)) = held
      /\ \A i \in 1 .. held : Tail(plan)[i] = plan[i + 1]
  <2>1. plan # <<>>
    BY <1>1, <1>3, EmptySeq
  <2>2. QED BY <1>1, <1>3, <2>1, HeadTailProperties
<1>6. Len(plan2) = held
  BY <1>1, <1>2, <1>4
<1>7. ASSUME NEW i \in 1 .. held PROVE plan2[i] = Tail(plan)[i]
  <2>1. CASE i = 1
    BY <1>2, <1>3, <1>4, <1>5, <2>1
  <2>2. CASE i # 1
    <3> DEFINE j == i - 1
    <3>1. j \in 1 .. (held - 1) /\ i = j + 1
      BY <1>1, <2>2
    <3>2. plan2[j + 1] = TodoAt(queue, SlotFrom(head, j + 1))
      BY <1>2, <1>4, <3>1
    <3>3. QED BY <1>3, <1>5, <3>1, <3>2
  <2>3. QED BY <2>1, <2>2
<1>8. plan2 = Tail(plan)
  BY <1>4, <1>5, <1>6, <1>7, SeqEqual
<1>9. QED BY <1>8 DEF plan, plan2

(* With no move waiting the last step leaves nothing.                      *)
LEMMA PlanEnds ==
  ASSUME NEW queue \in [Slots -> Moves], NEW head \in Slots, NEW count \in Nat \ {0}
  PROVE  Tail(PlanOf(queue, head, head, count)) = <<>>
<1> DEFINE plan == PlanOf(queue, head, head, count)
<1>1. HeldIn(head, head) = 0
  BY RingType
<1>2. plan \in Seq(Todo) /\ Len(plan) = HeldIn(head, head) + 1 /\ plan # <<>>
  BY PlanOfType, Zenon
<1> HIDE DEF plan
<1>3. Tail(plan) \in Seq(Todo) /\ Len(Tail(plan)) = 0
  BY <1>1, <1>2, HeadTailProperties
<1>4. Tail(plan) = <<>>
  BY <1>3, EmptySeq
<1>5. QED BY <1>4 DEF plan

-----------------------------------------------------------------------------
(* Every step of the stepper is a step of the plan or leaves it alone.     *)

LEMMA MovedSame == \A d : Plan!Moved(d) = Moved(d)
BY DEF Plan!Moved, Moved

LEMMA InitPlans == Init => Plan!Init
<1> SUFFICES ASSUME Init PROVE Plan!Init
  OBVIOUS
<1>1. PlanKnown /\ CurrentCount = 0 /\ axis = 0
  BY InitIInv, PlanIsKnown DEF Init
<1>2. QED BY <1>1 DEF PlanKnown, PlanOf, Plan!Init

LEMMA QueueMovePlans ==
  ASSUME IInv, PlanKnown, PlanKnown', IInv',
         NEW r \in Requests, QueueMove(r[1], r[2], r[3])
  PROVE  Plan!Accept(NextDir, r[2])
<1> DEFINE held == HeldIn(QueueHead, QueueTail)
           plan == PlanOf(Queue, QueueHead, QueueTail, CurrentCount)
           new == [dir |-> NextDir, left |-> r[2]]
<1>1. /\ Queue \in [Slots -> Moves] /\ QueueHead \in Slots /\ QueueTail \in Slots
      /\ CurrentCount \in Nat /\ axis' = axis
  BY DEF IInv, TypeOK, QueueMove
<1>2. /\ Queue'[QueueTail].Count = r[2] /\ Queue'[QueueTail].Direction = NextDir
      /\ TodoAt(Queue', QueueTail) = new
  <2>1. Queue'[QueueTail] = Move(Clamped(r[1]), r[2], r[3], NextDir)
    BY PushStep
  <2>2. Queue'[QueueTail].Count = r[2] /\ Queue'[QueueTail].Direction = NextDir
    BY <2>1 DEF Move
  <2>3. QED BY <2>2 DEF TodoAt
<1>3. new \in Todo /\ r[2] \in Nat \ {0}
  BY RequestType, StepperAssumption DEF Todo, IInv, TypeOK
<1>4. Len(plan) <= QueueSize - 1
      /\ PlanOf(Queue', QueueHead', QueueTail', CurrentCount') = Append(plan, new)
  <2>1. CASE CurrentCount > 0
    <3>1. QueueHead' = QueueHead /\ CurrentCount' = CurrentCount
      BY <2>1 DEF QueueMove, currentVars
    <3>2. /\ Queue' \in [Slots -> Moves] /\ QueueTail' \in Slots
          /\ HeldIn(QueueHead, QueueTail') = held + 1
          /\ SlotFrom(QueueHead, held + 1) = QueueTail
          /\ \A i \in 1 .. held : Queue'[SlotFrom(QueueHead, i)] = Queue[SlotFrom(QueueHead, i)]
          /\ Queue'[SlotBehind(QueueHead)] = Queue[SlotBehind(QueueHead)]
      BY PushStep, CurrentSlotIsBehind
    <3>3. Len(plan) = held + 1
      <4>1. CurrentCount \in Nat \ {0}
        BY <1>1, <2>1
      <4>2. QED BY <1>1, <4>1, PlanOfType, Zenon
    <3>4. held + 1 \in 0 .. (QueueSize - 1)
      <4>1. HeldIn(QueueHead, QueueTail') \in 0 .. (QueueSize - 1)
        BY <1>1, <3>2, RingType
      <4>2. QED BY <3>2, <4>1
    <3>5. PlanOf(Queue', QueueHead, QueueTail', CurrentCount) =
            Append(plan, TodoAt(Queue', SlotFrom(QueueHead, held + 1)))
      BY <1>1, <2>1, <3>2, PlanAppends
    <3> HIDE DEF held, plan, new
    <3>6. PlanOf(Queue', QueueHead', QueueTail', CurrentCount') = Append(plan, new)
      BY <1>2, <3>1, <3>2, <3>5
    <3>7. Len(plan) <= QueueSize - 1
      BY <3>3, <3>4, StepperAssumption
    <3>8. QED BY <3>6, <3>7
  <2>2. CASE CurrentCount = 0
    <3>1. plan = <<>>
      BY <2>2 DEF PlanOf
    <3>2. QueueHead = QueueTail /\ QueueHead' = After(QueueHead)
          /\ QueueTail' = After(QueueTail)
      BY <2>2 DEF IInv, RingSound, QueueMove, LoadNextMove
    <3>3. CurrentCount' = r[2]
      <4>1. CurrentCount' = Queue'[QueueHead].Count
        BY <2>2 DEF QueueMove, LoadNextMove
      <4>2. QED BY <1>2, <3>2, <4>1
    <3>4. After(QueueHead) \in Slots /\ SlotBehind(After(QueueHead)) = QueueHead
      BY <1>1, RingType, RingPop
    <3>5. HeldIn(QueueHead', QueueTail') = 0
      BY <3>2, <3>4, RingType
    <3> DEFINE next == PlanOf(Queue', QueueHead', QueueTail', CurrentCount')
    <3>6. /\ next \in Seq(Todo) /\ Len(next) = 1
          /\ next[1] = [dir |-> Queue'[QueueHead].Direction, left |-> r[2]]
      <4>1. /\ Queue' \in [Slots -> Moves] /\ QueueHead' \in Slots /\ QueueTail' \in Slots
            /\ CurrentCount' \in Nat \ {0}
        BY <1>3, <3>2, <3>3, <3>4, PushStep
      <4>2. /\ next \in Seq(Todo) /\ Len(next) = HeldIn(QueueHead', QueueTail') + 1
            /\ next[1] = [dir |-> Queue'[SlotBehind(QueueHead')].Direction,
                          left |-> CurrentCount']
        BY <4>1, PlanOfType
      <4> HIDE DEF next
      <4>3. QED BY <3>2, <3>3, <3>4, <3>5, <4>2
    <3>7. next[1] = new
      BY <1>2, <3>2, <3>6
    <3> HIDE DEF next, plan, new
    <3>8. Append(<<>>, new) = <<new>>
      OBVIOUS
    <3>9. next = <<new>>
      BY <1>3, <3>6, <3>7
    <3>10. Len(plan) <= QueueSize - 1
      BY <3>1, StepperAssumption
    <3>11. QED BY <3>1, <3>8, <3>9, <3>10 DEF next
  <2>3. QED BY <1>1, <2>1, <2>2
<1>5. /\ CurrentMove \o Waiting = plan
      /\ (CurrentMove \o Waiting)' = PlanOf(Queue', QueueHead', QueueTail', CurrentCount')
  BY DEF PlanKnown
<1> HIDE DEF plan
<1>6. QED BY <1>1, <1>4, <1>5 DEF Plan!Accept

LEMMA SamePlan ==
  ASSUME PlanKnown, PlanKnown',
         UNCHANGED <<Queue, QueueHead, QueueTail, CurrentCount, axis>>
  PROVE  UNCHANGED Plan!vars
BY DEF PlanKnown, Plan!vars

LEMMA StopPlans ==
  ASSUME PlanKnown', StopOnTrigger
  PROVE  Plan!Cancel
<1>1. CurrentCount' = 0 /\ axis' = axis
  BY DEF StopOnTrigger
<1>2. QED BY <1>1 DEF PlanKnown, PlanOf, Plan!Cancel

LEMMA StepEventPlans ==
  ASSUME IInv, PlanKnown, PlanKnown', StepEvent
  PROVE  Plan!StepOnce
<1> DEFINE plan == PlanOf(Queue, QueueHead, QueueTail, CurrentCount)
           next == PlanOf(Queue, QueueHead', QueueTail, CurrentCount')
<1>1. Pulse /\ StepTimer \in Linked(list)
  <2>1. Pulse /\ Fires(StepTimer)
    BY DEF StepEvent, StepWithinMove, LastStep, StepLoadsNext, Pulse
  <2>2. QED BY <2>1, Popped DEF IInv
<1>2. /\ CurrentCount \in Nat \ {0} /\ CountLeft = CurrentCount - 1
      /\ UNCHANGED <<Queue, QueueTail>>
  BY <1>1, PulseStep
<1>3. /\ Queue \in [Slots -> Moves] /\ QueueHead \in Slots /\ QueueTail \in Slots
      /\ pinDir = Queue[SlotBehind(QueueHead)].Direction
  BY <1>2, CurrentSlotIsBehind DEF IInv, TypeOK, RingSound
<1>4. /\ plan \in Seq(Todo) /\ plan # <<>>
      /\ plan[1] = [dir |-> pinDir, left |-> CurrentCount]
  <2>1. /\ plan \in Seq(Todo) /\ Len(plan) = HeldIn(QueueHead, QueueTail) + 1
        /\ plan[1] = [dir |-> Queue[SlotBehind(QueueHead)].Direction, left |-> CurrentCount]
    BY <1>2, <1>3, PlanOfType
  <2>2. plan # <<>>
    BY <1>2, <1>3, PlanOfType, Zenon
  <2>3. QED BY <1>3, <2>1, <2>2
<1>5. axis' = axis + Moved(pinDir)
  BY <1>1 DEF Pulse
<1>6. next = IF CurrentCount = 1 THEN Tail(plan) ELSE [plan EXCEPT ![1].left = @ - 1]
  <2>1. CASE StepWithinMove
    <3>1. CurrentCount' = CurrentCount - 1 /\ CurrentCount > 1 /\ QueueHead' = QueueHead
      BY <1>2, <2>1 DEF StepWithinMove
    <3>2. PlanOf(Queue, QueueHead, QueueTail, CurrentCount - 1) =
            [plan EXCEPT ![1].left = @ - 1]
      BY <1>2, <1>3, <3>1, PlanShrinks
    <3> HIDE DEF plan
    <3>3. QED BY <3>1, <3>2
  <2>2. CASE LastStep
    <3>1. CurrentCount = 1 /\ CurrentCount' = 0 /\ QueueHead = QueueTail
      BY <1>2, <2>2 DEF LastStep
    <3>2. Tail(plan) = <<>>
      BY <1>2, <1>3, <3>1, PlanEnds
    <3>3. next = <<>>
      BY <3>1 DEF PlanOf
    <3>4. QED BY <3>1, <3>2, <3>3
  <2>3. CASE StepLoadsNext
    <3>1. /\ CurrentCount = 1 /\ QueueHead # QueueTail
          /\ CurrentCount' = Queue[QueueHead].Count /\ QueueHead' = After(QueueHead)
      BY <1>2, <2>3 DEF StepLoadsNext
    <3>2. Queue[QueueHead].Count > 0
      <4>1. HeldIn(QueueHead, QueueTail) \in 0 .. (QueueSize - 1)
            /\ HeldIn(QueueHead, QueueTail) # 0
        BY <1>3, <3>1, RingType
      <4>2. 1 \in 1 .. HeldIn(QueueHead, QueueTail)
        BY <4>1, StepperAssumption
      <4>3. QED BY <1>3, <4>2, RingPop DEF IInv, RingSound
    <3>3. PlanOf(Queue, After(QueueHead), QueueTail, Queue[QueueHead].Count) = Tail(plan)
      BY <1>2, <1>3, <3>1, <3>2, PlanMovesOn
    <3> HIDE DEF plan
    <3>4. QED BY <3>1, <3>3
  <2>4. QED BY <2>1, <2>2, <2>3 DEF StepEvent
<1>7. /\ CurrentMove \o Waiting = plan
      /\ (CurrentMove \o Waiting)' = next
  BY <1>2 DEF PlanKnown
<1> HIDE DEF plan, next
<1>8. Head(plan) = [dir |-> pinDir, left |-> CurrentCount]
  BY <1>4
<1>9. /\ Head(plan).left = CurrentCount
      /\ axis' = axis + Plan!Moved(Head(plan).dir)
  BY <1>5, <1>8, MovedSame
<1>10. next = IF Head(plan).left = 1 THEN Tail(plan) ELSE [plan EXCEPT ![1].left = @ - 1]
  BY <1>6, <1>9
<1>11. QED BY <1>4, <1>7, <1>9, <1>10, Zenon DEF Plan!StepOnce

LEMMA NextPlans ==
  IdleHost /\ IInv /\ [Next]_vars => [Plan!Next]_(Plan!vars)
<1> SUFFICES ASSUME IdleHost, IInv, [Next]_vars PROVE [Plan!Next]_(Plan!vars)
  OBVIOUS
<1>1. IInv' /\ PlanKnown /\ PlanKnown'
  BY NextIInv, PlanIsKnown, NextPlanIsKnown
<1>2. ASSUME NEW r \in Requests, QueueMove(r[1], r[2], r[3]) PROVE Plan!Next
  <2>1. Plan!Accept(NextDir, r[2])
    BY <1>1, <1>2, QueueMovePlans
  <2>2. NextDir \in Plan!Directions /\ r[2] \in {x[2] : x \in Requests}
    BY DEF Plan!Directions, IInv, TypeOK
  <2>3. QED BY <2>1, <2>2 DEF Plan!Next
<1>3. ASSUME NEW d \in {0, 1}, SetNextDir(d) PROVE UNCHANGED Plan!vars
  BY <1>1, <1>3, SamePlan DEF SetNextDir, currentVars, motorVars
<1>4. ASSUME NEW w \in Ticks, ResetClock(w) PROVE UNCHANGED Plan!vars
  BY <1>1, <1>4, SamePlan DEF ResetClock, queueVars, currentVars, motorVars
<1>5. CASE StopOnTrigger
  BY <1>1, <1>5, StopPlans DEF Plan!Next
<1>6. CASE StepEvent
  BY <1>1, <1>6, StepEventPlans DEF Plan!Next
<1>7. CASE UNCHANGED stepperVars
  BY <1>1, <1>7, SamePlan DEF stepperVars, queueVars, currentVars, motorVars
<1>8. QED
  BY <1>2, <1>3, <1>4, <1>5, <1>6, <1>7 DEF Next, Command, vars

(* The ring, the move in progress and the timer together make the steps of *)
(* the accepted moves, each once, oldest move first and each in its        *)
(* direction, and a move is refused only when the ring is full             *)
(* (stepper.go:71-301).                                                    *)
THEOREM Refinement ==
  ASSUME IdleHost PROVE Spec => ImplementsStepPlan
<1>1. Init => Plan!Init
  BY InitPlans
<1>2. IInv /\ [Next]_vars => [Plan!Next]_(Plan!vars)
  BY NextPlans
<1>3. QED BY <1>1, <1>2, Invariance, PTL DEF Spec, ImplementsStepPlan, Plan!Spec
=============================================================================
