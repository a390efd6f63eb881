----------------------------- MODULE TimerList -----------------------------
(***************************************************************************)
(* The intrusive timer list of core/scheduler.go, as operators on values:  *)
(* the list is a head pointer and the Next pointer of every timer, exactly *)
(* the pointers the Go code assigns.  Every component that owns a timer    *)
(* (steppers, endstops, trsyncs, digital outputs, ...) shares this one     *)
(* list, so every component's module builds on these operators.            *)
(*                                                                         *)
(* Clock values are ClockRange-valued counters (uint32 in the code) that   *)
(* wrap; HalfRange stands for 2^31.                                        *)
(***************************************************************************)
EXTENDS Integers, FiniteSets

CONSTANTS
  Timers,      \* the Timer structs of the program
  Nil,         \* the nil pointer
  HalfRange    \* half the range of the clock counter (2^31 in the code)

ASSUME TimerListAssumption ==
  /\ IsFiniteSet(Timers) /\ Nil \notin Timers
  /\ HalfRange \in Nat \ {0}

ClockRange == 2 * HalfRange
Ticks == 0 .. (ClockRange - 1)

(* uint32 a + d and a - b for a, b, d \in Ticks: one conditional           *)
(* correction is what "modulo ClockRange" amounts to on that domain.       *)
ClockAdd(a, d) == IF a + d < ClockRange THEN a + d ELSE a + d - ClockRange
ClockSub(a, b) == IF a >= b THEN a - b ELSE a - b + ClockRange

(* int32(a - b) *)
SignedDiff(a, b) ==
  IF ClockSub(a, b) >= HalfRange THEN ClockSub(a, b) - ClockRange
                                 ELSE ClockSub(a, b)

(* Mutant: the unsigned comparison, wrong where the clock wraps.           *)
BeforeUnsigned(a, b) == a < b

(* int32(a - b) < 0 *)
Before(a, b) == SignedDiff(a, b) < 0

(***************************************************************************)
(* The list: [head |-> pointer, next |-> [Timers -> pointer]].             *)
(***************************************************************************)
Pointers == Timers \union {Nil}
Lists == [head : Pointers, next : [Timers -> Pointers]]
EmptyList == [head |-> Nil, next |-> [t \in Timers |-> Nil]]

(* Timers some pointer of the list leads to.                               *)
Linked(list) ==
  {t \in Timers : t = list.head \/ \E u \in Timers : list.next[u] = t}

(* The insertion walk of insertTimer stops at c.                           *)
StopsAt(list, wake, t, c) ==
  \/ list.next[c] = Nil
  \/ ~Before(wake[list.next[c]], wake[t])

(* V contains the head and every node the walk moves on to.                *)
WalkClosed(list, wake, t, V) ==
  /\ list.head \in V
  /\ \A c \in V : ~StopsAt(list, wake, t, c) => list.next[c] \in V

(* The nodes the walk visits: the least such set.                          *)
Walked(list, wake, t) ==
  {c \in Timers : \A V \in SUBSET Timers :
                     WalkClosed(list, wake, t, V) => c \in V}

GoesFirst(list, wake, t) ==
  list.head = Nil \/ Before(wake[t], wake[list.head])

(* On a list some pointer has bent into a cycle the walk may never stop.   *)
InsertHangs(list, wake, t) ==
  /\ ~GoesFirst(list, wake, t)
  /\ \A c \in Walked(list, wake, t) : ~StopsAt(list, wake, t, c)

(* Mutant: current.Next = t before t.Next = current.Next.                  *)
InsertTimerSwapped(list, wake, t) ==
  IF GoesFirst(list, wake, t)
  THEN [head |-> t, next |-> [list.next EXCEPT ![t] = list.head]]
  ELSE LET c == CHOOSE c \in Walked(list, wake, t) : StopsAt(list, wake, t, c)
       IN  [head |-> list.head, next |-> [list.next EXCEPT ![t] = t, ![c] = t]]

(* insertTimer: t.Next = timerList; timerList = t, or behind the node the  *)
(* walk stops at: t.Next = current.Next; current.Next = t, in that order.  *)
InsertTimer(list, wake, t) ==
  IF GoesFirst(list, wake, t)
  THEN [head |-> t, next |-> [list.next EXCEPT ![t] = list.head]]
  ELSE LET c == CHOOSE c \in Walked(list, wake, t) : StopsAt(list, wake, t, c)
       IN  [head |-> list.head,
            next |-> [list.next EXCEPT ![t] = list.next[c], ![c] = t]]

(* timerList = timer.Next; timer.Next = nil                                *)
PopHead(list) ==
  [head |-> list.next[list.head],
   next |-> [list.next EXCEPT ![list.head] = Nil]]

(* t.Next = nil for every t of ts: the timers behind one of them that is   *)
(* on the list are no longer on it, and keep their own pointers.           *)
Cut(list, ts) ==
  [list EXCEPT !.next = [t \in Timers |-> IF t \in ts THEN Nil ELSE @[t]]]

(* The timers a walk from the head comes to, at the latest after as many   *)
(* steps as there are timers.  What was cut off may still point at one     *)
(* another, or into the list.                                              *)
Reached(list) ==
  LET at[k \in 0 .. Cardinality(Timers)] ==
        IF k = 0 THEN list.head
        ELSE IF at[k - 1] = Nil THEN Nil ELSE list.next[at[k - 1]]
  IN  Timers \intersect {at[k] : k \in DOMAIN at}
=============================================================================
