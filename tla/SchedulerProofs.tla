-------------------------- MODULE SchedulerProofs --------------------------
(***************************************************************************)
(* Theorems about Scheduler, for every set of timers and every clock width *)
(* that satisfies SchedulerAssumption.  The list is what a walk from its   *)
(* head comes to (Leads): a stop or a shutdown cuts timers off that keep   *)
(* pointers of their own.                                                  *)
(***************************************************************************)
EXTENDS Scheduler, TimerListProofs

-----------------------------------------------------------------------------
(* The wrapping clock.                                                     *)

LEMMA ClockTypes ==
  ASSUME NEW a \in Ticks, NEW b \in Ticks
  PROVE  /\ ClockAdd(a, 1) \in Ticks
         /\ SignedDiff(a, b) \in -HalfRange .. (HalfRange - 1)
BY TimerListAssumption DEF Ticks, ClockRange, ClockAdd, ClockSub, SignedDiff

(* Inside the window the signed comparison orders wake times by age.       *)
LEMMA BeforeIsOlder ==
  ASSUME NEW time \in Ticks, NEW a \in Ticks, NEW b \in Ticks,
         SignedDiff(time, a) \in -Horizon .. MaxLate,
         SignedDiff(time, b) \in -Horizon .. MaxLate
  PROVE  Before(a, b) <=> SignedDiff(time, a) > SignedDiff(time, b)
BY TimerListAssumption, SchedulerAssumption
   DEF Ticks, ClockRange, ClockSub, SignedDiff, Before

(* A tick makes every wake time one tick older.                            *)
LEMMA TickAges ==
  ASSUME NEW time \in Ticks, NEW a \in Ticks,
         SignedDiff(time, a) < MaxLate
  PROVE  SignedDiff(ClockAdd(time, 1), a) = SignedDiff(time, a) + 1
BY TimerListAssumption, SchedulerAssumption
   DEF Ticks, ClockRange, ClockAdd, ClockSub, SignedDiff

-----------------------------------------------------------------------------
(* Sorted lists.                                                           *)

InWindow(time, w) == SignedDiff(time, w) \in -Horizon .. MaxLate

(* The timers s[1], ..., s[n] are in the order of their ages.              *)
OldestFirst(time, w, n, s) ==
  \A i, j \in 1 .. n :
    i <= j => SignedDiff(time, w[s[i]]) >= SignedDiff(time, w[s[j]])

SortedList(l, time, w) ==
  \E n, s : Leads(l, n, s) /\ OldestFirst(time, w, n, s)

(* insertTimer keeps a sorted list sorted, adds its timer and loses none.  *)
LEMMA InsertSorted ==
  ASSUME NEW l \in Lists, NEW time \in Ticks, NEW w \in [Timers -> Ticks],
         NEW t \in Timers, t \notin Reached(l),
         SortedList(l, time, w),
         InWindow(time, w[t]), \A u \in Reached(l) : InWindow(time, w[u])
  PROVE  /\ ~InsertHangs(l, w, t)
         /\ InsertTimer(l, w, t) \in Lists
         /\ SortedList(InsertTimer(l, w, t), time, w)
         /\ Reached(InsertTimer(l, w, t)) = Reached(l) \union {t}
<1>1. PICK n, s : Leads(l, n, s) /\ OldestFirst(time, w, n, s)
  BY DEF SortedList
<1>0. Reached(l) = Members(n, s) /\ \A i \in 1 .. n : s[i] # t
  BY <1>1, ReachedAreMembers DEF Members
<1>2. /\ ~InsertHangs(l, w, t)
      /\ InsertTimer(l, w, t) \in Lists
  BY <1>1, <1>0, InsertLeads
<1>3. PICK k \in 0 .. n :
        /\ Leads(InsertTimer(l, w, t), n + 1, PutBehind(n, s, k, t))
        /\ k > 0 => ~Before(w[t], w[s[1]])
        /\ \A i \in 2 .. k : Before(w[s[i]], w[t])
        /\ (k = 0 /\ n > 0) => Before(w[t], w[s[1]])
        /\ (k > 0 /\ k < n) => ~Before(w[s[k + 1]], w[t])
  BY <1>1, <1>0, InsertLeads
<1> DEFINE p == PutBehind(n, s, k, t)
           new == InsertTimer(l, w, t)
           Old(u) == SignedDiff(time, w[u])
<1> HIDE DEF new
<1>4. n \in Nat /\ k \in Nat /\ k <= n
      /\ \A i \in 1 .. n : s[i] \in Timers
  BY <1>1, <1>3 DEF Leads
<1>5. Reached(l) = {s[i] : i \in 1 .. n}
  BY <1>1, ReachedAreMembers DEF Members
<1>6. Reached(new) = {p[i] : i \in 1 .. (n + 1)}
  BY <1>2, <1>3, ReachedAreMembers DEF Members, new
<1>7. \A i \in 1 .. (n + 1) :
        p[i] = IF i <= k THEN s[i] ELSE IF i = k + 1 THEN t ELSE s[i - 1]
  BY <1>4 DEF PutBehind
<1>8. Reached(new) = Reached(l) \union {t}
  <2>1. ASSUME NEW u \in Reached(new) PROVE u \in Reached(l) \union {t}
    <3>1. PICK i \in 1 .. (n + 1) : u = p[i]
      BY <1>6, <2>1
    <3>2. i <= k \/ i = k + 1 \/ (i > k + 1 /\ i - 1 \in 1 .. n)
      BY <1>4
    <3>3. QED BY <1>4, <1>5, <1>7, <3>1, <3>2
  <2>2. ASSUME NEW i \in 1 .. n PROVE s[i] \in Reached(new)
    <3>1. CASE i <= k
      BY <1>4, <1>6, <1>7, <3>1, i \in 1 .. (n + 1)
    <3>2. CASE i > k
      <4>1. i + 1 \in 1 .. (n + 1) /\ p[i + 1] = s[i]
        BY <1>4, <1>7, <3>2
      <4>2. QED BY <1>6, <4>1
    <3>3. QED BY <1>4, <3>1, <3>2
  <2>3. t \in Reached(new)
    <3>1. k + 1 \in 1 .. (n + 1) /\ p[k + 1] = t
      BY <1>4, <1>7
    <3>2. QED BY <1>6, <3>1
  <2>4. QED BY <1>5, <2>1, <2>2, <2>3
<1>9. \A i \in 1 .. n : Old(s[i]) \in Int /\ InWindow(time, w[s[i]])
  BY <1>4, <1>5, SchedulerAssumption DEF InWindow
<1>10. Old(t) \in Int
  BY SchedulerAssumption DEF InWindow
<1>11. \A i \in 1 .. n : (Before(w[s[i]], w[t]) <=> Old(s[i]) > Old(t))
                      /\ (Before(w[t], w[s[i]]) <=> Old(t) > Old(s[i]))
  <2>1. SUFFICES ASSUME NEW i \in 1 .. n
                 PROVE  (Before(w[s[i]], w[t]) <=> Old(s[i]) > Old(t))
                      /\ (Before(w[t], w[s[i]]) <=> Old(t) > Old(s[i]))
    OBVIOUS
  <2>2. w[t] \in Ticks /\ w[s[i]] \in Ticks
    BY <1>4
  <2>3. QED BY <1>9, <2>2, BeforeIsOlder DEF InWindow
<1>12. \A i, j \in 1 .. n : i <= j => Old(s[i]) >= Old(s[j])
  BY <1>1 DEF OldestFirst
<1>13. ASSUME NEW i \in 1 .. n, i <= k PROVE Old(s[i]) >= Old(t)
  <2>1. CASE i = 1
    BY <1>3, <1>4, <1>9, <1>10, <1>11, <1>13, <2>1
  <2>2. CASE i # 1
    BY <1>3, <1>4, <1>9, <1>10, <1>11, <1>13, <2>2, i \in 2 .. k
  <2>3. QED BY <2>1, <2>2
<1>14. ASSUME NEW i \in 1 .. n, i > k PROVE Old(t) >= Old(s[i])
  <2>1. k + 1 \in 1 .. n /\ k + 1 <= i
    BY <1>4, <1>14
  <2>2. Old(t) >= Old(s[k + 1])
    BY <1>3, <1>4, <1>9, <1>10, <1>11, <2>1
  <2>3. Old(s[k + 1]) >= Old(s[i])
    BY <1>12, <2>1
  <2>4. QED BY <1>9, <1>10, <2>1, <2>2, <2>3
<1>15. ASSUME NEW i \in 1 .. (n + 1), NEW j \in 1 .. (n + 1), i <= j
       PROVE  Old(p[i]) >= Old(p[j])
  <2>1. CASE j <= k
    BY <1>4, <1>7, <1>12, <1>15, <2>1
  <2>2. CASE j = k + 1 /\ i = j
    BY <1>7, <1>10, <2>2
  <2>3. CASE j = k + 1 /\ i # j
    BY <1>4, <1>7, <1>13, <1>15, <2>3, i \in 1 .. n
  <2>4. CASE j > k + 1
    <3>1. j - 1 \in 1 .. n /\ j - 1 > k /\ p[j] = s[j - 1]
      BY <1>4, <1>7, <2>4
    <3>2. CASE i <= k
      BY <1>4, <1>7, <1>12, <1>15, <3>1, <3>2, i \in 1 .. n, i <= j - 1
    <3>3. CASE i = k + 1
      BY <1>4, <1>7, <1>14, <3>1, <3>3
    <3>4. CASE i > k + 1
      <4>1. i - 1 \in 1 .. n /\ i - 1 <= j - 1 /\ p[i] = s[i - 1]
        BY <1>4, <1>7, <1>15, <3>4
      <4>2. QED BY <1>12, <3>1, <4>1
    <3>5. QED BY <1>4, <3>2, <3>3, <3>4
  <2>5. QED BY <1>4, <2>1, <2>2, <2>3, <2>4
<1>16. OldestFirst(time, w, n + 1, p)
  BY <1>15 DEF OldestFirst
<1>17. SortedList(new, time, w)
  BY <1>3, <1>16 DEF SortedList, new
<1>18. QED BY <1>2, <1>8, <1>17 DEF new

(* Popping a sorted list removes its oldest timer and loses no other.      *)
LEMMA PopSorted ==
  ASSUME NEW l \in Lists, NEW time, NEW w, l.head # Nil,
         SortedList(l, time, w)
  PROVE  /\ l.head \in Reached(l)
         /\ \A u \in Reached(l) :
              SignedDiff(time, w[l.head]) >= SignedDiff(time, w[u])
         /\ PopHead(l) \in Lists
         /\ SortedList(PopHead(l), time, w)
         /\ Reached(PopHead(l)) = Reached(l) \ {l.head}
<1>1. PICK n, s : Leads(l, n, s) /\ OldestFirst(time, w, n, s)
  BY DEF SortedList
<1>2. /\ n > 0 /\ l.head = s[1]
      /\ PopHead(l) \in Lists
      /\ Leads(PopHead(l), n - 1, Rest(n, s))
  BY <1>1, PopLeads
<1>3. n \in Nat /\ 1 \in 1 .. n
      /\ \A i, j \in 1 .. n : s[i] = s[j] => i = j
  BY <1>1, <1>2 DEF Leads
<1>4. Reached(l) = {s[i] : i \in 1 .. n}
  BY <1>1, ReachedAreMembers DEF Members
<1>5. Reached(PopHead(l)) = {Rest(n, s)[i] : i \in 1 .. (n - 1)}
  BY <1>2, ReachedAreMembers DEF Members
<1>6. \A i \in 1 .. (n - 1) : Rest(n, s)[i] = s[i + 1] /\ i + 1 \in 1 .. n
  BY <1>3 DEF Rest
<1>7. Reached(PopHead(l)) = Reached(l) \ {l.head}
  <2>1. ASSUME NEW i \in 1 .. n, i # 1
        PROVE  s[i] \in Reached(PopHead(l))
    <3>1. i - 1 \in 1 .. (n - 1) /\ Rest(n, s)[i - 1] = s[i]
      BY <1>3, <1>6, <2>1
    <3>2. QED BY <1>5, <3>1
  <2>2. \A i \in 1 .. (n - 1) : s[i + 1] # s[1]
    BY <1>3, <1>6
  <2>3. QED BY <1>2, <1>3, <1>4, <1>5, <1>6, <2>1, <2>2
<1>8. OldestFirst(time, w, n - 1, Rest(n, s))
  BY <1>1, <1>3, <1>6 DEF OldestFirst
<1>9. \A u \in Reached(l) :
        SignedDiff(time, w[l.head]) >= SignedDiff(time, w[u])
  BY <1>1, <1>2, <1>3, <1>4 DEF OldestFirst
<1>10. QED
  BY <1>2, <1>3, <1>4, <1>7, <1>8, <1>9 DEF SortedList

(* Clearing Next pointers leaves a sorted list: of the timers ts only the  *)
(* oldest, and of the others those in front of it.                         *)
Leaves(time, w, l, ts, new) ==
  IF Reached(l) \intersect ts = {} THEN Reached(new) = Reached(l)
  ELSE \E o \in Reached(l) \intersect ts :
         /\ Reached(new) \subseteq Reached(l) /\ Reached(new) \intersect ts = {o}
         /\ \A t \in Reached(new) : SignedDiff(time, w[t]) >= SignedDiff(time, w[o])
         /\ \A t \in Reached(l) \ Reached(new) :
              SignedDiff(time, w[t]) <= SignedDiff(time, w[o])

LEMMA CutSorted ==
  ASSUME NEW l \in Lists, NEW time, NEW w, NEW ts, SortedList(l, time, w),
         \A u \in Reached(l) : InWindow(time, w[u])
  PROVE  /\ Cut(l, ts) \in Lists
         /\ SortedList(Cut(l, ts), time, w)
         /\ Reached(Cut(l, ts)) \subseteq Reached(l)
         /\ Leaves(time, w, l, ts, Cut(l, ts))
<1> DEFINE new == Cut(l, ts)
           Old(u) == SignedDiff(time, w[u])
<1>1. PICK n, s : Leads(l, n, s) /\ OldestFirst(time, w, n, s)
  BY DEF SortedList
<1>2. new \in Lists
  BY <1>1, CutLeads
<1>3. PICK k \in 0 .. n :
        /\ Leads(new, k, Front(s, k))
        /\ \A i \in 1 .. n : i < k => s[i] \notin ts
        /\ (k = n /\ \A i \in 1 .. n : s[i] \notin ts) \/ (k > 0 /\ s[k] \in ts)
  BY <1>1, CutLeads
<1> HIDE DEF new
<1>4. n \in Nat /\ \A i \in 1 .. k : i \in 1 .. n /\ Front(s, k)[i] = s[i]
  BY <1>1, <1>3 DEF Leads, Front
<1>5. Reached(l) = {s[i] : i \in 1 .. n}
  BY <1>1, ReachedAreMembers DEF Members
<1>6. Reached(new) = {s[i] : i \in 1 .. k}
  <2>1. Reached(new) = Members(k, Front(s, k))
    BY <1>2, <1>3, ReachedAreMembers
  <2>2. QED BY <1>4, <2>1 DEF Members
<1>7. Reached(new) \subseteq Reached(l)
  BY <1>4, <1>5, <1>6
<1>8. \A i, j \in 1 .. n : i <= j => Old(s[i]) >= Old(s[j])
  BY <1>1 DEF OldestFirst
<1>9. SortedList(new, time, w)
  <2>1. OldestFirst(time, w, k, Front(s, k))
    BY <1>4, <1>8 DEF OldestFirst
  <2>2. QED BY <1>3, <2>1 DEF SortedList
<1>10. Leaves(time, w, l, ts, new)
  <2>1. CASE k = n /\ \A i \in 1 .. n : s[i] \notin ts
    <3>1. Reached(l) \intersect ts = {} /\ Reached(new) = Reached(l)
      BY <1>5, <1>6, <2>1
    <3>2. QED BY <3>1 DEF Leaves
  <2>2. CASE k > 0 /\ s[k] \in ts
    <3>1. k \in 1 .. n /\ s[k] \in Reached(l) \intersect ts
      BY <1>3, <1>4, <1>5, <2>2
    <3>2. Reached(new) \intersect ts = {s[k]}
      <4>1. \A i \in 1 .. k : s[i] \in ts => i = k
        BY <1>3, <1>4
      <4>2. s[k] \in Reached(new)
        BY <1>3, <1>6, <2>2, k \in 1 .. k
      <4>3. QED BY <1>6, <3>1, <4>1, <4>2
    <3>3. \A t \in Reached(new) : Old(t) >= Old(s[k])
      BY <1>4, <1>6, <1>8, <3>1
    <3>4. ASSUME NEW t \in Reached(l) \ Reached(new) PROVE Old(t) <= Old(s[k])
      <4>1. PICK j \in 1 .. n : t = s[j]
        BY <1>5
      <4>2. j > k
        BY <1>4, <1>6, <3>4, <4>1
      <4>3. Old(s[k]) >= Old(s[j])
        BY <1>4, <1>8, <3>1, <4>1, <4>2
      <4>4. Old(s[k]) \in Int /\ Old(s[j]) \in Int
        BY <1>5, <3>1, <4>1, SchedulerAssumption DEF InWindow
      <4>5. QED BY <4>1, <4>3, <4>4
    <3>5. QED BY <1>7, <3>1, <3>2, <3>3, <3>4 DEF Leaves
  <2>3. QED BY <1>3, <2>1, <2>2
<1>11. QED BY <1>2, <1>7, <1>9, <1>10 DEF new

-----------------------------------------------------------------------------
(* The inductive invariant.                                                *)

IInv ==
  /\ TypeOK
  /\ ~hung
  /\ phase = "handler" <=> running # Nil
  /\ running \notin Reached(list)
  /\ phase = "dispatch" => currentTime = now
  /\ \A t \in Reached(list) : InWindow(now, wake[t])
  /\ SortedList(list, now, wake)

LEMMA EmptyListSorted ==
  ASSUME NEW time, NEW w
  PROVE  /\ EmptyList \in Lists
         /\ Reached(EmptyList) = {}
         /\ SortedList(EmptyList, time, w)
<1>1. EmptyList \in Lists /\ Reached(EmptyList) = {}
  BY EmptyIsWhole DEF Whole
<1>2. Leads(EmptyList, 0, [i \in 1 .. 0 |-> Nil])
  BY DEF Leads, EmptyList
<1>3. OldestFirst(time, w, 0, [i \in 1 .. 0 |-> Nil])
  BY DEF OldestFirst
<1>4. QED BY <1>1, <1>2, <1>3 DEF SortedList

LEMMA InitIInv == Init => IInv
<1> SUFFICES ASSUME Init PROVE IInv
  OBVIOUS
<1>1. 0 \in Ticks
  BY TimerListAssumption DEF Ticks, ClockRange
<1>2. list \in Lists /\ SortedList(list, now, wake) /\ Reached(list) = {}
  BY EmptyListSorted DEF Init
<1>3. TypeOK
  BY <1>1, <1>2 DEF Init, TypeOK, Phases, Pointers
<1>4. QED BY <1>2, <1>3 DEF Init, IInv

(* The wake times of timers off the list do not matter to it.              *)
LEMMA WakesOffList ==
  ASSUME NEW l \in Lists, NEW time, NEW w, NEW v,
         \A u \in Reached(l) : v[u] = w[u], SortedList(l, time, w)
  PROVE  SortedList(l, time, v)
<1>1. PICK n, s : Leads(l, n, s) /\ OldestFirst(time, w, n, s)
  BY DEF SortedList
<1>2. Reached(l) = {s[i] : i \in 1 .. n}
  BY <1>1, ReachedAreMembers DEF Members
<1>3. OldestFirst(time, v, n, s)
  BY <1>1, <1>2 DEF OldestFirst
<1>4. QED BY <1>1, <1>3 DEF SortedList

(* A step that schedules t at x: ScheduleTimer, or the reinsertion of the  *)
(* timer whose handler asks for it.                                        *)
LEMMA ScheduleStep ==
  ASSUME IInv, NEW t \in Timers, t \notin Reached(list), NEW x \in Ticks,
         Reasonable(x), wake' = [wake EXCEPT ![t] = x],
         hung' = InsertHangs(list, wake', t),
         list' = IF hung' THEN list ELSE InsertTimer(list, wake', t),
         now' = now
  PROVE  /\ list' \in Lists /\ wake' \in [Timers -> Ticks]
         /\ ~hung'
         /\ Reached(list') = Reached(list) \union {t}
         /\ \A u \in Reached(list') : InWindow(now', wake'[u])
         /\ SortedList(list', now', wake')
<1>1. list \in Lists /\ wake \in [Timers -> Ticks] /\ now \in Ticks
  BY DEF IInv, TypeOK
<1>2. wake' \in [Timers -> Ticks]
  BY <1>1
<1>3. SortedList(list, now, wake')
  <2>1. \A u \in Reached(list) : wake'[u] = wake[u]
    BY <1>1 DEF Reached
  <2>2. QED BY <1>1, <2>1, WakesOffList DEF IInv
<1>4. InWindow(now, wake'[t])
  BY <1>1, SchedulerAssumption, ClockTypes, TimerListAssumption
  DEF Reasonable, InWindow
<1>5. \A u \in Reached(list) : InWindow(now, wake'[u])
  BY <1>1 DEF IInv, Reached
<1> DEFINE w == wake'
<1>6. /\ w \in [Timers -> Ticks] /\ SortedList(list, now, w)
      /\ InWindow(now, w[t]) /\ \A u \in Reached(list) : InWindow(now, w[u])
  BY <1>2, <1>3, <1>4, <1>5
<1>7. /\ ~InsertHangs(list, w, t)
      /\ InsertTimer(list, w, t) \in Lists
      /\ SortedList(InsertTimer(list, w, t), now, w)
      /\ Reached(InsertTimer(list, w, t)) = Reached(list) \union {t}
  <2> HIDE DEF w
  <2>1. QED BY <1>1, <1>6, InsertSorted
<1>8. ~hung'
  BY <1>7, Zenon
<1>9. list' = InsertTimer(list, wake', t)
  BY <1>8
<1>10. QED BY <1>2, <1>4, <1>5, <1>7, <1>8, <1>9

(* A step that pops the head.                                              *)
LEMMA PopStep ==
  ASSUME IInv, list.head # Nil, list' = PopHead(list), now' = now,
         wake' = wake
  PROVE  /\ list' \in Lists
         /\ list.head \in Timers
         /\ Reached(list') = Reached(list) \ {list.head}
         /\ \A u \in Reached(list') : InWindow(now', wake'[u])
         /\ SortedList(list', now', wake')
         /\ \A u \in Reached(list) : Age(list.head) >= Age(u)
<1>1. list \in Lists
  BY DEF IInv, TypeOK
<1>2. SortedList(list, now, wake)
  BY DEF IInv
<1>3. /\ list.head \in Reached(list)
      /\ \A u \in Reached(list) :
           SignedDiff(now, wake[list.head]) >= SignedDiff(now, wake[u])
      /\ PopHead(list) \in Lists
      /\ SortedList(PopHead(list), now, wake)
      /\ Reached(PopHead(list)) = Reached(list) \ {list.head}
  BY <1>1, <1>2, PopSorted
<1>4. list.head \in Timers
  BY <1>3 DEF Reached
<1>5. QED BY <1>1, <1>3, <1>4 DEF IInv, Age

(* A step after which the list is l, part of what it was, with its wake    *)
(* times kept.                                                             *)
LEMMA ForgetStep ==
  ASSUME IInv, NEW l \in Lists, SortedList(l, now, wake),
         Reached(l) \subseteq Reached(list), NEW t, Forget(l, t)
  PROVE  /\ wake' \in [Timers -> Ticks]
         /\ \A u \in Reached(l) : wake'[u] = wake[u] /\ InWindow(now, wake'[u])
         /\ SortedList(l, now, wake')
<1>1. wake \in [Timers -> Ticks] /\ Reached(l) \subseteq Timers
  BY DEF IInv, TypeOK, Reached
<1>2. wake' \in [Timers -> Ticks]
  BY <1>1, ZeroIsTick DEF Forget
<1>3. \A u \in Reached(l) : wake'[u] = wake[u]
  BY <1>1 DEF Forget
<1>4. \A u \in Reached(l) : InWindow(now, wake'[u])
  BY <1>3 DEF IInv
<1>5. QED BY <1>2, <1>3, <1>4, WakesOffList

(* A step that clears the Next of ts on the list, or on what was popped.   *)
LEMMA CutStep ==
  ASSUME IInv, NEW l \in Lists, SortedList(l, now, wake),
         Reached(l) \subseteq Reached(list), NEW ts, NEW t,
         Forget(Cut(l, ts), t)
  PROVE  /\ Cut(l, ts) \in Lists /\ wake' \in [Timers -> Ticks]
         /\ Reached(Cut(l, ts)) \subseteq Reached(list)
         /\ \A u \in Reached(Cut(l, ts)) :
              wake'[u] = wake[u] /\ InWindow(now, wake'[u])
         /\ SortedList(Cut(l, ts), now, wake')
         /\ Leaves(now, wake, l, ts, Cut(l, ts))
<1>1. \A u \in Reached(l) : InWindow(now, wake[u])
  BY DEF IInv
<1>2. /\ Cut(l, ts) \in Lists
      /\ SortedList(Cut(l, ts), now, wake)
      /\ Reached(Cut(l, ts)) \subseteq Reached(l)
      /\ Leaves(now, wake, l, ts, Cut(l, ts))
  BY <1>1, CutSorted
<1>3. QED BY <1>2, ForgetStep

LEMMA TickStep ==
  ASSUME IInv, Tick
  PROVE  /\ now' \in Ticks
         /\ \A u \in Reached(list) : InWindow(now', wake[u])
         /\ SortedList(list, now', wake)
<1>1. list \in Lists /\ wake \in [Timers -> Ticks] /\ now \in Ticks
  BY DEF IInv, TypeOK
<1>2. now' = ClockAdd(now, 1) /\ now' \in Ticks
  BY <1>1, ClockTypes DEF Tick
<1>3. ASSUME NEW u \in Reached(list)
      PROVE  SignedDiff(now', wake[u]) = SignedDiff(now, wake[u]) + 1
  <2>1. u \in Timers /\ SignedDiff(now, wake[u]) < MaxLate
    BY DEF Tick, Age, Reached
  <2>2. QED BY <1>1, <1>2, <2>1, TickAges
<1>4. \A u \in Reached(list) :
        /\ SignedDiff(now, wake[u]) \in -Horizon .. MaxLate
        /\ SignedDiff(now, wake[u]) < MaxLate
  BY DEF IInv, InWindow, Tick, Age
<1>5. \A u \in Reached(list) : InWindow(now', wake[u])
  BY <1>3, <1>4, SchedulerAssumption DEF InWindow
<1>6. PICK n, s : Leads(list, n, s) /\ OldestFirst(now, wake, n, s)
  BY DEF IInv, SortedList
<1>7. Reached(list) = {s[i] : i \in 1 .. n}
  BY <1>1, <1>6, ReachedAreMembers DEF Members
<1>8. ASSUME NEW i \in 1 .. n, NEW j \in 1 .. n, i <= j
      PROVE  SignedDiff(now', wake[s[i]]) >= SignedDiff(now', wake[s[j]])
  <2>1. SignedDiff(now, wake[s[i]]) >= SignedDiff(now, wake[s[j]])
    BY <1>6, <1>8 DEF OldestFirst
  <2>2. s[i] \in Reached(list) /\ s[j] \in Reached(list)
    BY <1>7
  <2>3. /\ SignedDiff(now, wake[s[i]]) \in Int
        /\ SignedDiff(now, wake[s[j]]) \in Int
    BY <1>4, <2>2, SchedulerAssumption
  <2>4. QED BY <1>3, <2>1, <2>2, <2>3
<1>9. OldestFirst(now', wake, n, s)
  BY <1>8 DEF OldestFirst
<1>10. QED BY <1>2, <1>5, <1>6, <1>9 DEF SortedList

LEMMA NextIInv == IInv /\ [Next]_vars => IInv'
<1> SUFFICES ASSUME IInv, [Next]_vars PROVE IInv'
  OBVIOUS
<1> USE DEF IInv, TypeOK, Phases
<1>1. CASE Tick
  BY <1>1, TickStep DEF Tick
<1>2. CASE ProcessTimers
  BY <1>2 DEF ProcessTimers
<1>3. CASE ClearShutdown
  BY <1>3 DEF ClearShutdown
<1>4. CASE DispatchReturn
  BY <1>4 DEF DispatchReturn
<1>5. CASE TimerInPast
  <2>1. list.head # Nil
    BY <1>5 DEF TimerInPast, HeadDue
  <2>2. /\ PopHead(list) \in Lists /\ Reached(PopHead(list)) \subseteq Reached(list)
        /\ SortedList(PopHead(list), now, wake)
    BY <2>1, PopSorted
  <2>3. /\ list' \in Lists /\ wake' \in [Timers -> Ticks]
        /\ Reached(list') \subseteq Reached(list)
        /\ \A u \in Reached(list') : InWindow(now, wake'[u])
        /\ SortedList(list', now, wake')
    <3>1. CASE isShutdown
      BY <1>5, <2>2, <3>1, ForgetStep DEF TimerInPast
    <3>2. CASE ~isShutdown
      BY <1>5, <2>2, <3>2, CutStep DEF TimerInPast, Stopped
    <3>3. QED BY <3>1, <3>2
  <2>4. QED BY <1>5, <2>3 DEF TimerInPast
<1>6. CASE RunHandler
  <2>1. list.head # Nil
    BY <1>6 DEF RunHandler, HeadDue
  <2>2. QED BY <1>6, <2>1, PopStep DEF RunHandler, Pointers
<1>7. CASE HandlerDone
  <2>1. Nil \notin Reached(list)
    BY TimerListAssumption DEF Reached
  <2>2. /\ wake' \in [Timers -> Ticks] /\ list' = list
        /\ \A u \in Reached(list) : InWindow(now, wake'[u])
        /\ SortedList(list, now, wake')
    BY <1>7, ForgetStep DEF HandlerDone
  <2>3. QED BY <1>7, <2>1, <2>2 DEF HandlerDone, Pointers
<1>8. ASSUME NEW w \in Ticks, HandlerReschedule(w) PROVE IInv'
  <2>1. running \in Timers /\ running \notin Reached(list)
    BY <1>8 DEF HandlerReschedule, Pointers
  <2>2. Nil \notin Reached(list')
    BY TimerListAssumption DEF Reached
  <2>3. /\ list' \in Lists /\ wake' \in [Timers -> Ticks]
        /\ ~hung'
        /\ \A u \in Reached(list') : InWindow(now', wake'[u])
        /\ SortedList(list', now', wake')
    BY <1>8, <2>1, ScheduleStep DEF HandlerReschedule
  <2>4. hung' \in BOOLEAN
    BY <1>8, Zenon DEF HandlerReschedule, InsertHangs
  <2>5. QED BY <1>8, <2>2, <2>3, <2>4 DEF HandlerReschedule, Pointers
<1>9. ASSUME NEW t \in Timers, NEW w \in Ticks, ScheduleTimer(t, w)
      PROVE  IInv'
  <2>1. running = Nil /\ Nil \notin Reached(list')
    BY <1>9, TimerListAssumption DEF ScheduleTimer, Reached
  <2>2. /\ list' \in Lists /\ wake' \in [Timers -> Ticks]
        /\ ~hung'
        /\ \A u \in Reached(list') : InWindow(now', wake'[u])
        /\ SortedList(list', now', wake')
    BY <1>9, ScheduleStep DEF ScheduleTimer
  <2>3. hung' \in BOOLEAN
    BY <1>9, Zenon DEF ScheduleTimer, InsertHangs
  <2>4. QED BY <1>9, <2>1, <2>2, <2>3 DEF ScheduleTimer
<1>10. CASE TryShutdown \/ EmergencyStop
  <2>1. /\ list' \in Lists /\ wake' \in [Timers -> Ticks]
        /\ Reached(list') \subseteq Reached(list)
        /\ \A u \in Reached(list') : InWindow(now, wake'[u])
        /\ SortedList(list', now, wake')
    BY <1>10, CutStep DEF TryShutdown, EmergencyStop, Stopped
  <2>2. CASE TryShutdown
    BY <2>1, <2>2 DEF TryShutdown
  <2>3. CASE EmergencyStop
    BY <2>1, <2>3 DEF EmergencyStop
  <2>4. QED BY <1>10, <2>2, <2>3
<1>11. ASSUME NEW t \in Timers, StopTimer(t) PROVE IInv'
  <2>1. /\ list' \in Lists /\ wake' \in [Timers -> Ticks]
        /\ Reached(list') \subseteq Reached(list)
        /\ \A u \in Reached(list') : InWindow(now, wake'[u])
        /\ SortedList(list', now, wake')
    BY <1>11, CutStep DEF StopTimer
  <2>2. QED BY <1>11, <2>1 DEF StopTimer
<1>12. CASE UNCHANGED vars
  BY <1>12 DEF vars
<1>13. QED
  BY <1>1, <1>2, <1>3, <1>4, <1>5, <1>6, <1>7, <1>8, <1>9, <1>10, <1>11, <1>12
  DEF Next, Dispatch

(* The inductive invariant holds in every reachable state.                 *)
THEOREM Invariance == Spec => []IInv
BY InitIInv, NextIInv, PTL DEF Spec

-----------------------------------------------------------------------------
(* Consequences.                                                           *)

(* Type correctness of the scheduler's state (scheduler.go:19-23).         *)
THEOREM TypeCorrect == Spec => []TypeOK
<1>1. IInv => TypeOK
  BY DEF IInv
<1>2. QED BY <1>1, Invariance, PTL

(* The pointers always form one acyclic list that the running timer is not *)
(* on, so insertTimer never walks forever (scheduler.go:37-53, 63-96).     *)
THEOREM ListAlwaysSound == Spec => []ListSound
<1>1. ASSUME IInv PROVE ListSound
  <2>1. list \in Lists /\ ~hung /\ running \notin Reached(list)
    BY <1>1 DEF IInv, TypeOK
  <2>2. PICK n, s : Leads(list, n, s)
    BY <1>1 DEF IInv, SortedList
  <2>3. QED BY <2>1, <2>2, LeadsSound DEF ListSound
<1>2. QED BY <1>1, Invariance, PTL

(* The list is always sorted by age, across the wrap of the clock.         *)
THEOREM AlwaysSorted == Spec => []Sorted
<1>1. ASSUME IInv PROVE Sorted
  <2>1. list \in Lists
    BY <1>1 DEF IInv, TypeOK
  <2>2. PICK n, s : Leads(list, n, s) /\ OldestFirst(now, wake, n, s)
    BY <1>1 DEF IInv, SortedList
  <2>3. ASSUME NEW t \in Reached(list), list.next[t] # Nil
        PROVE  Age(t) >= Age(list.next[t])
    <3>1. PICK i \in 1 .. n : t = s[i]
      BY <2>1, <2>2, ReachedAreMembers DEF Members
    <3>2. n \in Nat /\ i # n /\ list.next[t] = s[i + 1] /\ i + 1 \in 1 .. n
      BY <2>2, <2>3, <3>1 DEF Leads
    <3>3. QED BY <2>2, <3>1, <3>2 DEF OldestFirst, Age
  <2>4. QED BY <2>3 DEF Sorted
<1>2. QED BY <1>1, Invariance, PTL

-----------------------------------------------------------------------------
(* Refinement.                                                             *)

LEMMA SameClock ==
  /\ \A a : Queue!ClockAdd(a, 1) = ClockAdd(a, 1)
  /\ \A a, b : Queue!SignedDiff(a, b) = SignedDiff(a, b)
  /\ Queue!Ticks = Ticks
BY DEF Queue!ClockAdd, ClockAdd, Queue!SignedDiff, SignedDiff,
       Queue!ClockSub, ClockSub, Queue!ClockRange, ClockRange,
       Queue!Ticks, Ticks

LEMMA SameAge == \A t : Queue!Age(t) = Age(t)
BY SameClock DEF Queue!Age, Age

(* What a cut leaves of the list is what the abstract queue lets a stop    *)
(* leave.                                                                  *)
LEMMA LeavesIsRemains ==
  ASSUME NEW l, NEW ts, NEW new, Leaves(now, wake, l, ts, new)
  PROVE  Queue!Remains(Reached(l), ts, Reached(new))
BY SameAge DEF Leaves, Queue!Remains, Age

(* Initial states map to initial states.                                   *)
LEMMA InitRefines == Init => Queue!Init
BY EmptyListSorted DEF Init, Queue!Init

(* Every step of the dispatcher, of a command and of the clock is a step   *)
(* of the abstract queue or leaves it unchanged.                           *)
LEMMA NextRefines == IInv /\ [Next]_vars => [Queue!Next]_(Queue!vars)
<1> SUFFICES ASSUME IInv, [Next]_vars PROVE [Queue!Next]_(Queue!vars)
  OBVIOUS
<1> USE DEF Queue!Next, Queue!vars
<1>1. CASE Tick
  BY <1>1, SameClock DEF Tick, Queue!Tick
<1>2. CASE ProcessTimers
  BY <1>2 DEF ProcessTimers
<1>3. CASE ClearShutdown
  BY <1>3 DEF ClearShutdown, Queue!ClearShutdown
<1>4. CASE DispatchReturn
  BY <1>4 DEF DispatchReturn
<1>5. ASSUME TimerInPast \/ RunHandler
      PROVE  /\ list.head \in Timers /\ running = Nil /\ phase = "dispatch"
             /\ Queue!Oldest(list.head)
             /\ PopHead(list) \in Lists /\ SortedList(PopHead(list), now, wake)
             /\ Reached(PopHead(list)) = Reached(list) \ {list.head}
             /\ Queue!Age(list.head) >= 0
             /\ HeadTooLate <=> Queue!Age(list.head) > TimerPastThreshold
  <2>1. /\ list.head # Nil /\ phase = "dispatch" /\ list \in Lists
        /\ SignedDiff(currentTime, wake[list.head]) >= 0
        /\ SortedList(list, now, wake)
    BY <1>5 DEF TimerInPast, RunHandler, HeadDue, IInv, TypeOK
  <2>2. /\ list.head \in Reached(list)
        /\ PopHead(list) \in Lists /\ SortedList(PopHead(list), now, wake)
        /\ Reached(PopHead(list)) = Reached(list) \ {list.head}
        /\ \A u \in Reached(list) : Age(list.head) >= Age(u)
    BY <2>1, PopSorted DEF Age
  <2>3. list.head \in Timers
    BY <2>2 DEF Reached
  <2>4. running = Nil /\ currentTime = now
    BY <2>1 DEF IInv
  <2>5. \A u \in Reached(list) : Age(u) \in Int
    BY SchedulerAssumption DEF IInv, InWindow, Age
  <2>6. Queue!Oldest(list.head)
    BY <2>2, <2>5, SameAge DEF Queue!Oldest
  <2>7. QED BY <2>1, <2>2, <2>3, <2>4, <2>6, SameAge DEF Age, HeadTooLate
<1>6. CASE TimerInPast
  <2>1. /\ Queue!Age(list.head) > TimerPastThreshold
        /\ isShutdown' = TRUE /\ now' = now /\ running' = running
        /\ Forget(list', Nil)
        /\ list' = IF isShutdown THEN PopHead(list) ELSE Cut(PopHead(list), Stoppable)
    BY <1>5, <1>6 DEF TimerInPast, Stopped
  <2>2. Reached(PopHead(list)) \subseteq Reached(list)
    BY <1>5, <1>6
  <2>3. CASE isShutdown
    <3>1. list' = PopHead(list)
      BY <2>1, <2>3
    <3>2. Queue!WakesKept
      BY <1>5, <1>6, <2>1, <2>2, <3>1, ForgetStep DEF Queue!WakesKept
    <3>3. Queue!Discard(list.head)
      BY <1>5, <1>6, <2>1, <2>3, <3>1, <3>2 DEF Queue!Discard
    <3>4. QED BY <1>5, <1>6, <3>3
  <2>4. CASE ~isShutdown
    <3>1. list' = Cut(PopHead(list), Stoppable)
      BY <2>1, <2>4
    <3>2. /\ \A u \in Reached(list') : wake'[u] = wake[u]
          /\ Leaves(now, wake, PopHead(list), Stoppable, list')
      BY <1>5, <1>6, <2>1, <2>2, <3>1, CutStep
    <3>3. Queue!Remains(Reached(list) \ {list.head}, Stoppable, Reached(list'))
      BY <1>5, <1>6, <3>2, LeavesIsRemains
    <3>4. Queue!WakesKept
      BY <3>2 DEF Queue!WakesKept
    <3>5. Queue!Discard(list.head)
      BY <1>5, <1>6, <2>1, <2>4, <3>3, <3>4 DEF Queue!Discard
    <3>6. QED BY <1>5, <1>6, <3>5
  <2>5. QED BY <2>3, <2>4
<1>7. CASE RunHandler
  <2>1. Queue!Age(list.head) \in 0 .. TimerPastThreshold
    <3>1. Queue!Age(list.head) \in Int
      BY <1>5, <1>7, SameAge, SchedulerAssumption
      DEF IInv, InWindow, Age, Queue!Oldest
    <3>2. ~HeadTooLate
      BY <1>7 DEF RunHandler
    <3>3. QED BY <1>5, <1>7, <3>1, <3>2, SchedulerAssumption
  <2>2. Queue!WakesKept
    BY <1>7 DEF RunHandler, Queue!WakesKept
  <2>3. Queue!Run(list.head)
    BY <1>5, <1>7, <2>1, <2>2 DEF RunHandler, Queue!Run
  <2>4. QED BY <1>5, <1>7, <2>3
<1>8. CASE HandlerDone
  <2>1. Queue!WakesKept
    BY <1>8, ForgetStep DEF HandlerDone, IInv, TypeOK, Queue!WakesKept
  <2>2. QED BY <1>8, <2>1 DEF HandlerDone, IInv, Queue!Finish
<1>9. ASSUME NEW w \in Ticks, HandlerReschedule(w) PROVE Queue!Rearm(w)
  <2>1. running \in Timers /\ running \notin Reached(list) /\ running # Nil
    BY <1>9, TimerListAssumption
    DEF HandlerReschedule, Pointers, IInv, TypeOK
  <2>2. Reached(list') = Reached(list) \union {running}
    BY <1>9, <2>1, ScheduleStep DEF HandlerReschedule
  <2>3. QED BY <1>9, <2>1, <2>2 DEF HandlerReschedule, Queue!Rearm
<1>10. ASSUME NEW t \in Timers, NEW w \in Ticks, ScheduleTimer(t, w)
       PROVE  Queue!Arm(t, w)
  <2>1. Reached(list') = Reached(list) \union {t}
    BY <1>10, ScheduleStep DEF ScheduleTimer
  <2>2. QED BY <1>10, <2>1 DEF ScheduleTimer, Queue!Arm
<1>11. CASE TryShutdown \/ EmergencyStop
  <2>1. /\ list' = Cut(list, Stoppable) /\ Forget(list', running)
        /\ isShutdown' = TRUE /\ now' = now /\ running' = running
    BY <1>11 DEF TryShutdown, EmergencyStop, Stopped
  <2>2. /\ \A u \in Reached(list') : wake'[u] = wake[u]
        /\ Leaves(now, wake, list, Stoppable, list')
    BY <2>1, CutStep DEF IInv, TypeOK
  <2>3. Queue!Remains(Reached(list), Stoppable, Reached(list'))
    BY <2>2, LeavesIsRemains
  <2>4. Queue!ShutDown
    BY <2>1, <2>2, <2>3 DEF Queue!ShutDown, Queue!WakesKept
  <2>5. QED BY <2>4
<1>12. ASSUME NEW t \in Timers, StopTimer(t) PROVE Queue!Stop(t)
  <2>1. /\ list' = Cut(list, {t}) /\ Forget(list', Nil) /\ running = Nil
        /\ now' = now /\ running' = running /\ isShutdown' = isShutdown
    BY <1>12 DEF StopTimer, IInv
  <2>2. /\ \A u \in Reached(list') : wake'[u] = wake[u]
        /\ Leaves(now, wake, list, {t}, list')
    BY <2>1, CutStep DEF IInv, TypeOK
  <2>3. Queue!Remains(Reached(list), {t}, Reached(list'))
    BY <2>2, LeavesIsRemains
  <2>4. QED BY <2>1, <2>2, <2>3 DEF Queue!Stop, Queue!WakesKept
<1>13. CASE UNCHANGED vars
  BY <1>13 DEF vars
<1>14. CASE \E w \in Ticks : HandlerReschedule(w)
  BY <1>9, <1>14, SameClock
<1>15. CASE \E t \in Timers : StopTimer(t) \/ \E w \in Ticks : ScheduleTimer(t, w)
  BY <1>10, <1>12, <1>15, SameClock
<1>16. QED
  BY <1>1, <1>2, <1>3, <1>4, <1>6, <1>7, <1>8, <1>11, <1>13, <1>14, <1>15
  DEF Next, Dispatch

(* The dispatcher implements the abstract queue: no timer is run twice,    *)
(* none runs early or before an older one, one that is too late is         *)
(* discarded with a shutdown, and an armed timer is lost only to a stop or *)
(* a shutdown, behind a stopped timer that is no younger                   *)
(* (scheduler.go:56-102, commands.go:209-233).                             *)
THEOREM Refinement == Spec => ImplementsTimerQueue
BY InitRefines, NextRefines, Invariance, PTL
DEF Spec, ImplementsTimerQueue, Queue!Spec
=============================================================================
