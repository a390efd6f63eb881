-------------------------- MODULE TimerListProofs --------------------------
(***************************************************************************)
(* What the operators of TimerList do to a list that represents a          *)
(* sequence of timers.                                                     *)
(***************************************************************************)
EXTENDS TimerList, FiniteSetTheorems, WellFoundedInduction, TLAPS

(* From the head the list leads to the n timers s[1], ..., s[n], in this   *)
(* order, and ends there.                                                  *)
Leads(list, n, s) ==
  /\ n \in Nat
  /\ s \in [1 .. n -> Timers]
  /\ \A i, j \in 1 .. n : s[i] = s[j] => i = j
  /\ list.head = IF n = 0 THEN Nil ELSE s[1]
  /\ \A i \in 1 .. n : list.next[s[i]] = IF i = n THEN Nil ELSE s[i + 1]

(* The list holds exactly these timers: no other one leads anywhere.       *)
Represents(list, n, s) ==
  /\ Leads(list, n, s)
  /\ \A t \in Timers : (\A i \in 1 .. n : s[i] # t) => list.next[t] = Nil

(* s without its first timer, and s with t put behind its first k.         *)
Rest(n, s) == [i \in 1 .. (n - 1) |-> s[i + 1]]
PutBehind(n, s, k, t) ==
  [i \in 1 .. (n + 1) |-> IF i <= k THEN s[i]
                          ELSE IF i = k + 1 THEN t ELSE s[i - 1]]

(* The timers that are neither t nor in the sequence.                      *)
Others(n, s, t) == {u \in Timers : u # t /\ \A i \in 1 .. n : s[i] # u}

(* The timers of the sequence.                                            *)
Members(n, s) == {s[i] : i \in 1 .. n}

LEMMA PutBehindMembers ==
  ASSUME NEW n \in Nat, NEW s, NEW k \in 0 .. n, NEW t
  PROVE  Members(n + 1, PutBehind(n, s, k, t)) = Members(n, s) \union {t}
<1> DEFINE p == PutBehind(n, s, k, t)
<1>1. \A i \in 1 .. (n + 1) :
        p[i] = IF i <= k THEN s[i] ELSE IF i = k + 1 THEN t ELSE s[i - 1]
  BY DEF PutBehind
<1> HIDE DEF p
<1>2. ASSUME NEW i \in 1 .. n PROVE \E j \in 1 .. (n + 1) : p[j] = s[i]
  <2>1. CASE i <= k
    <3>1. i \in 1 .. (n + 1) /\ p[i] = s[i]
      BY <1>1, <2>1
    <3>2. QED BY <3>1
  <2>2. CASE i > k
    <3>1. i + 1 \in 1 .. (n + 1) /\ p[i + 1] = s[i]
      BY <1>1, <2>2
    <3>2. QED BY <3>1
  <2>3. QED BY <2>1, <2>2
<1>3. ASSUME NEW j \in 1 .. (n + 1)
      PROVE  p[j] = t \/ \E i \in 1 .. n : p[j] = s[i]
  <2>1. CASE j <= k
    <3>1. j \in 1 .. n /\ p[j] = s[j]
      BY <1>1, <2>1
    <3>2. QED BY <3>1
  <2>2. CASE j > k + 1
    <3>1. j - 1 \in 1 .. n /\ p[j] = s[j - 1]
      BY <1>1, <2>2
    <3>2. QED BY <3>1
  <2>3. QED BY <1>1, <2>1, <2>2
<1>4. k + 1 \in 1 .. (n + 1) /\ p[k + 1] = t
  BY <1>1
<1>5. QED BY <1>2, <1>3, <1>4 DEF Members, p

LEMMA RestMembers ==
  ASSUME NEW list, NEW n, NEW s, Leads(list, n, s), n > 0
  PROVE  Members(n - 1, Rest(n, s)) = Members(n, s) \ {s[1]}
<1>1. n \in Nat /\ 1 \in 1 .. n /\ \A i, j \in 1 .. n : s[i] = s[j] => i = j
  BY DEF Leads
<1>2. \A i \in 1 .. (n - 1) : Rest(n, s)[i] = s[i + 1] /\ i + 1 \in 1 .. n /\ i + 1 # 1
  BY <1>1 DEF Rest
<1>3. ASSUME NEW i \in 1 .. n, s[i] # s[1]
      PROVE  \E j \in 1 .. (n - 1) : Rest(n, s)[j] = s[i]
  <2>1. i - 1 \in 1 .. (n - 1) /\ Rest(n, s)[i - 1] = s[(i - 1) + 1] /\ (i - 1) + 1 = i
    <3>1. i # 1
      BY <1>3
    <3>2. i - 1 \in 1 .. (n - 1) /\ (i - 1) + 1 = i
      BY <1>1, <3>1
    <3>3. QED BY <1>2, <3>2
  <2>2. QED BY <2>1
<1>4. ASSUME NEW i \in 1 .. (n - 1)
      PROVE  Rest(n, s)[i] \in {s[j] : j \in 1 .. n} \ {s[1]}
  <2>1. Rest(n, s)[i] = s[i + 1] /\ i + 1 \in 1 .. n /\ i + 1 # 1
    BY <1>2
  <2>2. s[i + 1] # s[1]
    BY <1>1, <2>1
  <2>3. QED BY <2>1, <2>2
<1>5. QED BY <1>3, <1>4 DEF Members

(* They are the linked timers.                                             *)
LEMMA LinkedAreMembers ==
  ASSUME NEW list \in Lists, NEW n, NEW s, Represents(list, n, s)
  PROVE  Linked(list) = Members(n, s)
<1>1. ASSUME NEW t \in Linked(list) PROVE t \in {s[i] : i \in 1 .. n}
  <2>1. CASE t = list.head
    BY <1>1, <2>1, TimerListAssumption DEF Linked, Represents, Leads
  <2>2. CASE \E u \in Timers : list.next[u] = t
    <3>1. PICK u \in Timers : list.next[u] = t
      BY <2>2
    <3>2. PICK i \in 1 .. n : s[i] = u
      BY <1>1, <3>1, TimerListAssumption DEF Linked, Represents, Leads
    <3>3. i # n /\ t = s[i + 1] /\ i + 1 \in 1 .. n
      BY <1>1, <3>1, <3>2, TimerListAssumption DEF Linked, Represents, Leads
    <3>4. QED BY <3>3
  <2>3. QED BY <1>1, <2>1, <2>2 DEF Linked
<1>2. ASSUME NEW i \in 1 .. n PROVE s[i] \in Linked(list)
  <2>1. s[i] \in Timers
    BY DEF Represents, Leads
  <2>2. CASE i = 1
    BY <2>1, <2>2 DEF Linked, Represents, Leads
  <2>3. CASE i # 1
    <3>1. n \in Nat /\ i - 1 \in 1 .. n /\ i - 1 # n /\ (i - 1) + 1 = i
      BY <2>3 DEF Represents, Leads
    <3>2. s[i - 1] \in Timers /\ list.next[s[i - 1]] = s[i]
      BY <3>1 DEF Represents, Leads
    <3>3. QED BY <2>1, <3>2 DEF Linked
  <2>4. QED BY <2>2, <2>3
<1>3. QED BY <1>1, <1>2 DEF Members

(* Popping a nonempty list removes its first timer.                        *)
LEMMA PopLeads ==
  ASSUME NEW list \in Lists, NEW n, NEW s, Leads(list, n, s),
         list.head # Nil
  PROVE  /\ n > 0 /\ list.head = s[1]
         /\ PopHead(list) \in Lists
         /\ Leads(PopHead(list), n - 1, Rest(n, s))
         /\ \A t \in Timers :
              PopHead(list).next[t] = IF t = list.head THEN Nil ELSE list.next[t]
<1>1. n \in Nat /\ n > 0 /\ list.head = s[1] /\ s[1] \in Timers
  BY DEF Leads
<1>2. PopHead(list) \in Lists
  BY <1>1 DEF PopHead, Lists, Pointers
<1>3. n - 1 \in Nat /\ Rest(n, s) \in [1 .. (n - 1) -> Timers]
  BY <1>1 DEF Leads, Rest
<1>4. \A i, j \in 1 .. (n - 1) : Rest(n, s)[i] = Rest(n, s)[j] => i = j
  BY <1>1 DEF Leads, Rest
<1>5. PopHead(list).head = IF n - 1 = 0 THEN Nil ELSE Rest(n, s)[1]
  BY <1>1 DEF Leads, Rest, PopHead
<1>6. ASSUME NEW i \in 1 .. (n - 1)
      PROVE  PopHead(list).next[Rest(n, s)[i]]
               = IF i = n - 1 THEN Nil ELSE Rest(n, s)[i + 1]
  <2>1. i + 1 \in 1 .. n /\ Rest(n, s)[i] = s[i + 1]
    BY <1>1 DEF Rest
  <2>2. s[i + 1] # s[1] /\ s[i + 1] \in Timers
    BY <1>1, <2>1 DEF Leads
  <2>3. PopHead(list).next[s[i + 1]] = list.next[s[i + 1]]
    BY <1>1, <2>2 DEF PopHead, Lists
  <2>4. list.next[s[i + 1]] = IF i + 1 = n THEN Nil ELSE s[i + 2]
    BY <1>1, <2>1 DEF Leads
  <2>5. i # n - 1 => Rest(n, s)[i + 1] = s[i + 2]
    BY <1>1 DEF Rest
  <2>6. QED BY <1>1, <2>1, <2>3, <2>4, <2>5
<1>7. \A t \in Timers :
        PopHead(list).next[t] = IF t = list.head THEN Nil ELSE list.next[t]
  BY <1>1 DEF PopHead, Lists
<1>8. QED BY <1>1, <1>2, <1>3, <1>4, <1>5, <1>6, <1>7 DEF Leads

LEMMA PopRepresents ==
  ASSUME NEW list \in Lists, NEW n, NEW s, Represents(list, n, s),
         list.head # Nil
  PROVE  /\ n > 0 /\ list.head = s[1]
         /\ PopHead(list) \in Lists
         /\ Represents(PopHead(list), n - 1, Rest(n, s))
<1>0. n \in Nat /\ Leads(list, n, s)
  BY DEF Represents, Leads
<1>1. /\ n > 0 /\ list.head = s[1]
      /\ PopHead(list) \in Lists
      /\ Leads(PopHead(list), n - 1, Rest(n, s))
      /\ \A t \in Timers :
           PopHead(list).next[t] = IF t = list.head THEN Nil ELSE list.next[t]
  BY <1>0, PopLeads
<1>2. ASSUME NEW t \in Timers, \A i \in 1 .. (n - 1) : Rest(n, s)[i] # t
      PROVE  PopHead(list).next[t] = Nil
  <2>1. CASE t = s[1]
    BY <1>1, <2>1
  <2>2. CASE t # s[1]
    <3>1. ASSUME NEW i \in 1 .. n PROVE s[i] # t
      <4>1. CASE i = 1 BY <2>2, <4>1
      <4>2. CASE i # 1
        <5>1. i - 1 \in 1 .. (n - 1) /\ Rest(n, s)[i - 1] = s[i]
          BY <1>0, <1>1, <4>2 DEF Rest
        <5>2. QED BY <5>1, <1>2
      <4>3. QED BY <4>1, <4>2
    <3>2. list.next[t] = Nil
      BY <3>1 DEF Represents, Leads
    <3>3. QED BY <1>1, <2>2, <3>2
  <2>3. QED BY <2>1, <2>2
<1>3. QED BY <1>1, <1>2 DEF Represents

(* Every nonempty set of natural numbers has a least element.              *)
LEMMA LeastNumber ==
  ASSUME NEW K \in SUBSET Nat, K # {}
  PROVE  \E k \in K : \A j \in K : k <= j
<1> DEFINE R == OpToRel(<, Nat)
<1>1. IsWellFoundedOn(R, Nat)
  BY NatLessThanWellFounded
<1>2. R = {ij \in Nat \X Nat : ij[1] < ij[2]}
  BY Zenon DEF OpToRel
<1> HIDE DEF R
<1>3. PICK k \in K : \A j \in K : ~ (<<j, k>> \in R)
  BY <1>1, WFMin
<1>4. \A j \in K : j < k => <<j, k>> \in R
  BY <1>2
<1>5. \A j \in K : ~ (j < k)
  BY <1>3, <1>4
<1>6. \A j \in K : j \in Nat /\ k \in Nat
  OBVIOUS
<1>7. QED BY <1>5, <1>6

(* The walk of insertTimer over such a list stops, at the first            *)
(* timer whose successor is missing or does not wake before t.             *)
LEMMA WalkLeads ==
  ASSUME NEW list \in Lists, NEW n, NEW s, Leads(list, n, s), n > 0,
         NEW wake, NEW t
  PROVE  \E k \in 1 .. n :
           /\ StopsAt(list, wake, t, s[k])
           /\ \A i \in 1 .. (k - 1) : ~StopsAt(list, wake, t, s[i])
           /\ s[k] \in Walked(list, wake, t)
           /\ \A c \in Walked(list, wake, t) :
                StopsAt(list, wake, t, c) => c = s[k]
<1> DEFINE Stops(i) == StopsAt(list, wake, t, s[i])
           K == {i \in 1 .. n : Stops(i)}
<1>0. n \in Nat /\ n \in 1 .. n /\ list.head = s[1]
      /\ \A i \in 1 .. n : s[i] \in Timers
  BY DEF Leads
<1>1. n \in K
  BY <1>0 DEF Leads, StopsAt
<1>2. PICK k \in K : \A j \in K : k <= j
  BY <1>0, <1>1, LeastNumber, K \in SUBSET Nat
<1>3. k \in 1 .. n /\ Stops(k) /\ \A i \in 1 .. (k - 1) : ~Stops(i)
  BY <1>0, <1>2
<1>4. \A i \in 1 .. (k - 1) : list.next[s[i]] = s[i + 1]
  BY <1>0, <1>3 DEF Leads
<1>5. ASSUME NEW V \in SUBSET Timers, WalkClosed(list, wake, t, V)
      PROVE  s[k] \in V
  <2> DEFINE Out == {i \in 1 .. k : s[i] \notin V}
  <2>1. SUFFICES ASSUME Out # {} PROVE FALSE
    BY <1>3
  <2>2. PICK m \in Out : \A j \in Out : m <= j
    BY <2>1, <1>3, LeastNumber, Out \in SUBSET Nat
  <2>3. m # 1
    BY <1>0, <1>5, <2>2 DEF WalkClosed
  <2>4. m - 1 \in 1 .. (k - 1) /\ s[m - 1] \in V
    BY <1>3, <2>2, <2>3
  <2>5. list.next[s[m - 1]] \in V
    BY <1>3, <1>5, <2>4 DEF WalkClosed
  <2>6. QED BY <1>3, <1>4, <2>2, <2>4, <2>5
<1>6. s[k] \in Walked(list, wake, t)
  BY <1>0, <1>3, <1>5 DEF Walked
<1>7. ASSUME NEW c \in Walked(list, wake, t), StopsAt(list, wake, t, c)
      PROVE  c = s[k]
  <2> DEFINE V == {s[i] : i \in 1 .. k}
  <2>1. V \in SUBSET Timers /\ list.head \in V
    BY <1>0, <1>3
  <2>2. ASSUME NEW d \in V, ~StopsAt(list, wake, t, d)
        PROVE  list.next[d] \in V
    <3>1. PICK i \in 1 .. k : d = s[i]
      OBVIOUS
    <3>2. i \in 1 .. (k - 1) /\ i + 1 \in 1 .. k
      BY <1>3, <2>2, <3>1
    <3>3. QED BY <1>4, <3>1, <3>2
  <2>3. WalkClosed(list, wake, t, V)
    BY <2>1, <2>2 DEF WalkClosed
  <2>4. PICK i \in 1 .. k : c = s[i]
    BY <1>7, <2>1, <2>3 DEF Walked
  <2>5. QED BY <1>3, <1>7, <2>4
<1>8. QED BY <1>3, <1>6, <1>7

(* t linked behind s[k], or in front of the whole list for k = 0.          *)
Linking(list, s, k, t) ==
  IF k = 0
  THEN [head |-> t, next |-> [list.next EXCEPT ![t] = list.head]]
  ELSE [head |-> list.head,
        next |-> [list.next EXCEPT ![t] = list.next[s[k]], ![s[k]] = t]]

(* The list then leads to s with t put behind its first k timers.          *)
LEMMA LinkLeads ==
  ASSUME NEW list \in Lists, NEW n, NEW s, Leads(list, n, s),
         NEW t \in Timers, \A i \in 1 .. n : s[i] # t,
         NEW k \in 0 .. n, NEW new, new = Linking(list, s, k, t)
  PROVE  /\ new \in Lists /\ Leads(new, n + 1, PutBehind(n, s, k, t))
         /\ \A u \in Others(n, s, t) :
              new.next[u] = list.next[u]
<1> DEFINE p == PutBehind(n, s, k, t)
<1>0. /\ n \in Nat /\ k \in Nat /\ k <= n
      /\ \A i \in 1 .. n : s[i] \in Timers /\ s[i] # t
      /\ list.head \in Pointers /\ list.next \in [Timers -> Pointers]
  BY DEF Leads, Lists
<1>1. \A i \in 1 .. (n + 1) :
        p[i] = IF i <= k THEN s[i] ELSE IF i = k + 1 THEN t ELSE s[i - 1]
  BY <1>0 DEF PutBehind
<1>2. new \in Lists /\ new.head = IF k = 0 THEN t ELSE list.head
  BY <1>0 DEF Linking, Lists, Pointers
<1>3. \A u \in Timers :
        new.next[u] =
          IF k = 0 THEN IF u = t THEN list.head ELSE list.next[u]
          ELSE IF u = s[k] THEN t
          ELSE IF u = t THEN list.next[s[k]] ELSE list.next[u]
  BY <1>0 DEF Linking
<1>4. p \in [1 .. (n + 1) -> Timers]
  BY <1>0 DEF PutBehind
<1>5. ASSUME NEW i \in 1 .. (n + 1), NEW j \in 1 .. (n + 1), p[i] = p[j]
      PROVE  i = j
  <2>1. \A x, y \in 1 .. n : s[x] = s[y] => x = y
    BY DEF Leads
  <2>2. i <= k \/ i = k + 1 \/ (i - 1 \in 1 .. n /\ i > k + 1)
    BY <1>0
  <2>3. j <= k \/ j = k + 1 \/ (j - 1 \in 1 .. n /\ j > k + 1)
    BY <1>0
  <2>4. QED BY <1>0, <1>1, <1>5, <2>1, <2>2, <2>3
<1>6. new.head = p[1]
  BY <1>0, <1>1, <1>2 DEF Leads
<1>7. ASSUME NEW i \in 1 .. (n + 1)
      PROVE  new.next[p[i]] = IF i = n + 1 THEN Nil ELSE p[i + 1]
  <2>0. \A x \in 1 .. n : list.next[s[x]] = IF x = n THEN Nil ELSE s[x + 1]
    BY DEF Leads
  <2>1. \A x, y \in 1 .. n : s[x] = s[y] => x = y
    BY DEF Leads
  <2>2. CASE i < k
    <3>1. p[i] = s[i] /\ p[i + 1] = s[i + 1] /\ s[i] # s[k] /\ i # n + 1
      BY <1>0, <1>1, <2>1, <2>2
    <3>2. QED BY <1>0, <1>3, <2>0, <2>2, <3>1
  <2>3. CASE i = k
    BY <1>0, <1>1, <1>3, <2>3
  <2>4. CASE i = k + 1
    <3>1. p[i] = t
      BY <1>0, <1>1, <2>4
    <3>2. CASE k = 0
      <4>1. new.next[t] = list.head
        BY <1>3, <3>2
      <4>2. n # 0 => p[i + 1] = s[1]
        BY <1>0, <1>1, <2>4, <3>2
      <4>3. QED BY <1>0, <2>4, <3>1, <3>2, <4>1, <4>2 DEF Leads
    <3>3. CASE k # 0
      <4>1. new.next[t] = list.next[s[k]]
        BY <1>0, <1>3, <3>3
      <4>2. k # n => p[i + 1] = s[k + 1]
        BY <1>0, <1>1, <2>4, <3>3
      <4>3. QED BY <1>0, <2>0, <2>4, <3>1, <3>3, <4>1, <4>2
    <3>4. QED BY <3>2, <3>3
  <2>5. CASE i > k + 1
    <3>1. i - 1 \in 1 .. n /\ p[i] = s[i - 1] /\ (k # 0 => s[i - 1] # s[k])
      BY <1>0, <1>1, <2>1, <2>5
    <3>2. i # n + 1 => p[i + 1] = s[i]
      BY <1>0, <1>1, <2>5
    <3>3. new.next[s[i - 1]] = list.next[s[i - 1]]
      BY <1>0, <1>3, <3>1
    <3>4. QED BY <1>0, <2>0, <3>1, <3>2, <3>3
  <2>6. QED BY <1>0, <2>2, <2>3, <2>4, <2>5
<1>8. ASSUME NEW u \in Others(n, s, t) PROVE new.next[u] = list.next[u]
  <2>1. u \in Timers /\ u # t /\ (k # 0 => u # s[k])
    BY <1>0 DEF Others
  <2>2. QED BY <1>3, <2>1
<1>9. QED
  BY <1>0, <1>2, <1>4, <1>5, <1>6, <1>7, <1>8 DEF Leads

(* insertTimer on such a list never hangs; it puts t behind the k          *)
(* timers found by the comparisons it makes.                               *)
LEMMA InsertLeads ==
  ASSUME NEW list \in Lists, NEW n, NEW s, Leads(list, n, s),
         NEW wake, NEW t \in Timers, \A i \in 1 .. n : s[i] # t
  PROVE  /\ ~InsertHangs(list, wake, t)
         /\ InsertTimer(list, wake, t) \in Lists
         /\ \E k \in 0 .. n :
              /\ Leads(InsertTimer(list, wake, t), n + 1,
                        PutBehind(n, s, k, t))
              /\ \A u \in Others(n, s, t) :
                   InsertTimer(list, wake, t).next[u] = list.next[u]
              /\ k > 0 => ~Before(wake[t], wake[s[1]])
              /\ \A i \in 2 .. k : Before(wake[s[i]], wake[t])
              /\ (k = 0 /\ n > 0) => Before(wake[t], wake[s[1]])
              /\ (k > 0 /\ k < n) => ~Before(wake[s[k + 1]], wake[t])
<1>0. /\ n \in Nat /\ \A i \in 1 .. n : s[i] \in Timers /\ s[i] # t
      /\ list.head = IF n = 0 THEN Nil ELSE s[1]
      /\ \A i \in 1 .. n : list.next[s[i]] = IF i = n THEN Nil ELSE s[i + 1]
  BY DEF Leads
<1>1. CASE GoesFirst(list, wake, t)
  <2>1. n > 0 => Before(wake[t], wake[s[1]])
    BY <1>0, <1>1, TimerListAssumption DEF GoesFirst
  <2> DEFINE new == InsertTimer(list, wake, t)
  <2>2. new = [head |-> t, next |-> [list.next EXCEPT ![t] = list.head]]
    BY <1>1 DEF InsertTimer
  <2> HIDE DEF new
  <2>3. /\ new \in Lists /\ Leads(new, n + 1, PutBehind(n, s, 0, t))
        /\ \A u \in Others(n, s, t) :
             new.next[u] = list.next[u]
    <3>1. new = Linking(list, s, 0, t) /\ 0 \in 0 .. n
      BY <1>0, <2>2 DEF Linking
    <3>2. \A i \in 1 .. n : s[i] # t
      BY <1>0
    <3>3. QED BY <3>1, <3>2, LinkLeads
  <2>4. ~InsertHangs(list, wake, t)
    BY <1>1 DEF InsertHangs
  <2>5. QED
    BY <1>0, <2>1, <2>3, <2>4, 0 \in 0 .. n DEF new
<1>2. CASE ~GoesFirst(list, wake, t)
  <2>1. n > 0 /\ ~Before(wake[t], wake[s[1]])
    BY <1>0, <1>2 DEF GoesFirst
  <2>2. PICK k \in 1 .. n :
           /\ StopsAt(list, wake, t, s[k])
           /\ \A i \in 1 .. (k - 1) : ~StopsAt(list, wake, t, s[i])
           /\ s[k] \in Walked(list, wake, t)
           /\ \A c \in Walked(list, wake, t) :
                StopsAt(list, wake, t, c) => c = s[k]
    BY <2>1, WalkLeads
  <2>3. ~InsertHangs(list, wake, t)
    BY <2>2 DEF InsertHangs
  <2>4. (CHOOSE c \in Walked(list, wake, t) : StopsAt(list, wake, t, c)) = s[k]
    BY <2>2
  <2> DEFINE new == InsertTimer(list, wake, t)
  <2>5. new = [head |-> list.head,
               next |-> [list.next EXCEPT ![t] = list.next[s[k]],
                                          ![s[k]] = t]]
    BY <1>2, <2>4 DEF InsertTimer
  <2> HIDE DEF new
  <2>6. k \in 0 .. n /\ k # 0
    BY <1>0
  <2>7. /\ new \in Lists /\ Leads(new, n + 1, PutBehind(n, s, k, t))
        /\ \A u \in Others(n, s, t) :
             new.next[u] = list.next[u]
    <3>1. new = Linking(list, s, k, t)
      BY <2>5, <2>6 DEF Linking
    <3>2. \A i \in 1 .. n : s[i] # t
      BY <1>0
    <3>3. QED BY <2>6, <3>1, <3>2, LinkLeads
  <2>8. ASSUME NEW i \in 2 .. k PROVE Before(wake[s[i]], wake[t])
    <3>1. i - 1 \in 1 .. (k - 1) /\ i - 1 \in 1 .. n /\ i - 1 # n
          /\ (i - 1) + 1 = i
      BY <1>0
    <3>2. list.next[s[i - 1]] = s[i] /\ ~StopsAt(list, wake, t, s[i - 1])
      BY <1>0, <2>2, <3>1
    <3>3. QED BY <3>2 DEF StopsAt
  <2>9. k < n => ~Before(wake[s[k + 1]], wake[t])
    <3>1. k < n => list.next[s[k]] = s[k + 1] /\ s[k + 1] \in Timers
      BY <1>0
    <3>2. QED BY <2>2, <3>1, TimerListAssumption DEF StopsAt
  <2>10. QED
    BY <2>1, <2>3, <2>6, <2>7, <2>8, <2>9 DEF new
<1>3. QED BY <1>1, <1>2

(* On a list that holds exactly these timers.                              *)
LEMMA InsertRepresents ==
  ASSUME NEW list \in Lists, NEW n, NEW s, Represents(list, n, s),
         NEW wake, NEW t \in Timers, t \notin Linked(list)
  PROVE  /\ ~InsertHangs(list, wake, t)
         /\ InsertTimer(list, wake, t) \in Lists
         /\ \E k \in 0 .. n :
              /\ Represents(InsertTimer(list, wake, t), n + 1,
                            PutBehind(n, s, k, t))
              /\ k > 0 => ~Before(wake[t], wake[s[1]])
              /\ \A i \in 2 .. k : Before(wake[s[i]], wake[t])
              /\ (k = 0 /\ n > 0) => Before(wake[t], wake[s[1]])
              /\ (k > 0 /\ k < n) => ~Before(wake[s[k + 1]], wake[t])
<1> DEFINE new == InsertTimer(list, wake, t)
<1>1. Leads(list, n, s) /\ \A i \in 1 .. n : s[i] # t
  BY LinkedAreMembers DEF Represents, Members
<1>2. ~InsertHangs(list, wake, t) /\ new \in Lists
  BY <1>1, InsertLeads
<1>3. PICK k \in 0 .. n :
        /\ Leads(new, n + 1, PutBehind(n, s, k, t))
        /\ \A u \in Others(n, s, t) :
             new.next[u] = list.next[u]
        /\ k > 0 => ~Before(wake[t], wake[s[1]])
        /\ \A i \in 2 .. k : Before(wake[s[i]], wake[t])
        /\ (k = 0 /\ n > 0) => Before(wake[t], wake[s[1]])
        /\ (k > 0 /\ k < n) => ~Before(wake[s[k + 1]], wake[t])
  BY <1>1, InsertLeads
<1> HIDE DEF new
<1>0. n \in Nat /\ k \in Nat /\ k <= n
  BY <1>1, <1>3 DEF Leads
<1> DEFINE p == PutBehind(n, s, k, t)
<1>4. \A i \in 1 .. (n + 1) :
        p[i] = IF i <= k THEN s[i] ELSE IF i = k + 1 THEN t ELSE s[i - 1]
  BY <1>0 DEF PutBehind
<1>8. ASSUME NEW u \in Timers, \A i \in 1 .. (n + 1) : p[i] # u
      PROVE  new.next[u] = Nil
  <2>1. u # t
    BY <1>0, <1>4, <1>8, k + 1 \in 1 .. (n + 1)
  <2>2. ASSUME NEW i \in 1 .. n PROVE s[i] # u
    <3>1. CASE i <= k
      BY <1>0, <1>4, <1>8, <3>1, i \in 1 .. (n + 1)
    <3>2. CASE i > k
      <4>1. i + 1 \in 1 .. (n + 1) /\ p[i + 1] = s[i]
        BY <1>0, <1>4, <3>2
      <4>2. QED BY <1>8, <4>1
    <3>3. QED BY <1>0, <3>1, <3>2
  <2>3. list.next[u] = Nil
    BY <2>2 DEF Represents
  <2>4. QED BY <1>3, <2>1, <2>2, <2>3 DEF Others
<1>9. Represents(new, n + 1, p)
  BY <1>3, <1>8 DEF Represents
<1>10. QED BY <1>2, <1>3, <1>9 DEF new

(* In a represented list pointers have one source and there is no cycle.   *)
LEMMA RepresentedSound ==
  ASSUME NEW l \in Lists, NEW n, NEW s, Represents(l, n, s)
  PROVE  /\ \A t, u, v \in Timers :
              l.next[u] = t => t # l.head /\ (l.next[v] = t => u = v)
         /\ \A S \in SUBSET Linked(l) :
              S # {} => \E t \in S : \A u \in S : l.next[u] # t
<1>1. /\ n \in Nat
      /\ \A i, j \in 1 .. n : s[i] = s[j] => i = j
      /\ \A i \in 1 .. n : l.next[s[i]] = IF i = n THEN Nil ELSE s[i + 1]
  BY DEF Represents, Leads
<1>2. ASSUME NEW t \in Timers, NEW u \in Timers, l.next[u] = t
      PROVE  \E i \in 1 .. n : u = s[i] /\ i # n /\ t = s[i + 1]
  <2>1. PICK i \in 1 .. n : u = s[i]
    BY <1>2, TimerListAssumption DEF Represents, Leads
  <2>2. QED BY <1>1, <1>2, <2>1, TimerListAssumption
<1>3. ASSUME NEW t \in Timers, NEW u \in Timers, NEW v \in Timers,
             l.next[u] = t
      PROVE  t # l.head /\ (l.next[v] = t => u = v)
  <2>1. PICK i \in 1 .. n : u = s[i] /\ i # n /\ t = s[i + 1]
    BY <1>2, <1>3
  <2>2. i + 1 \in 1 .. n /\ 1 \in 1 .. n /\ i + 1 # 1 /\ l.head = s[1]
    BY <1>1, <2>1 DEF Represents, Leads
  <2>3. t # l.head
    BY <1>1, <2>1, <2>2
  <2>4. ASSUME l.next[v] = t PROVE u = v
    <3>1. PICK j \in 1 .. n : v = s[j] /\ j # n /\ t = s[j + 1]
      BY <1>2, <2>4
    <3>2. i + 1 = j + 1
      BY <1>1, <2>1, <2>2, <3>1, j + 1 \in 1 .. n
    <3>3. QED BY <1>1, <2>1, <3>1, <3>2
  <2>5. QED BY <2>3, <2>4
<1>4. ASSUME NEW S \in SUBSET Linked(l), S # {}
      PROVE  \E t \in S : \A u \in S : l.next[u] # t
  <2> DEFINE K == {i \in 1 .. n : s[i] \in S}
  <2>1. \A u \in S : \E i \in 1 .. n : u = s[i]
    BY LinkedAreMembers DEF Members
  <2>2. K \in SUBSET Nat /\ K # {}
    BY <1>1, <1>4, <2>1
  <2>3. PICK k \in K : \A j \in K : k <= j
    <3> HIDE DEF K
    <3>1. QED BY <2>2, LeastNumber
  <2>4. ASSUME NEW u \in S, l.next[u] = s[k] PROVE FALSE
    <3>1. PICK j \in 1 .. n : u = s[j]
      BY <2>1
    <3>2. k <= j
      BY <2>3, <3>1
    <3>3. j # n
      BY <1>1, <2>4, <3>1, TimerListAssumption, s[k] \in Timers DEF Represents, Leads
    <3>4. j + 1 = k
      BY <1>1, <2>4, <3>1, <3>3, j + 1 \in 1 .. n
    <3>5. QED BY <1>1, <3>2, <3>4
  <2>5. QED BY <2>3, <2>4
<1>5. QED BY <1>3, <1>4

-----------------------------------------------------------------------------
(* What the components whose timers are on the list need to know: the list *)
(* is one, and which timers are linked.                                    *)
IsList(list) == list \in Lists /\ \E n, s : Represents(list, n, s)

LEMMA EmptyIsList == IsList(EmptyList) /\ Linked(EmptyList) = {}
<1>1. EmptyList \in Lists
  BY DEF EmptyList, Lists, Pointers
<1>2. Represents(EmptyList, 0, [i \in 1 .. 0 |-> Nil])
  BY DEF Represents, Leads, EmptyList
<1>3. Linked(EmptyList) = {}
  BY TimerListAssumption DEF Linked, EmptyList
<1>4. QED BY <1>1, <1>2, <1>3 DEF IsList

(* A timer that is not linked leads nowhere.                               *)
LEMMA NotLinkedIsClear ==
  ASSUME NEW list, IsList(list), NEW t \in Timers, t \notin Linked(list)
  PROVE  /\ list.next[t] = Nil
         /\ [list EXCEPT !.next[t] = Nil] = list
<1>1. PICK n, s : Represents(list, n, s)
  BY DEF IsList
<1>2. list \in Lists /\ Linked(list) = Members(n, s)
  BY <1>1, LinkedAreMembers DEF IsList
<1>3. list.next[t] = Nil
  BY <1>1, <1>2 DEF Represents, Leads, Members
<1>4. QED BY <1>2, <1>3 DEF Lists

(* insertTimer links a timer that was not linked, and no other.            *)
LEMMA InsertLinks ==
  ASSUME NEW list, IsList(list), NEW wake,
         NEW t \in Timers, t \notin Linked(list)
  PROVE  /\ ~InsertHangs(list, wake, t)
         /\ IsList(InsertTimer(list, wake, t))
         /\ Linked(InsertTimer(list, wake, t)) = Linked(list) \union {t}
<1> DEFINE new == InsertTimer(list, wake, t)
<1>1. PICK n, s : Represents(list, n, s)
  BY DEF IsList
<1>2. list \in Lists /\ n \in Nat
  BY <1>1 DEF IsList, Represents, Leads
<1>3. PICK k \in 0 .. n : Represents(new, n + 1, PutBehind(n, s, k, t))
  BY <1>1, <1>2, InsertRepresents
<1>4. ~InsertHangs(list, wake, t) /\ new \in Lists
  BY <1>1, <1>2, InsertRepresents
<1> HIDE DEF new
<1>5. Linked(new) = Members(n + 1, PutBehind(n, s, k, t))
  BY <1>3, <1>4, LinkedAreMembers
<1>6. Linked(list) = Members(n, s)
  BY <1>1, <1>2, LinkedAreMembers
<1>7. Linked(new) = Linked(list) \union {t}
  BY <1>2, <1>5, <1>6, PutBehindMembers
<1>8. QED BY <1>3, <1>4, <1>7 DEF IsList, new

(* The dispatcher unlinks the first timer, and no other.                   *)
LEMMA PopUnlinks ==
  ASSUME NEW list, IsList(list), list.head # Nil
  PROVE  /\ list.head \in Timers /\ list.head \in Linked(list)
         /\ IsList(PopHead(list))
         /\ Linked(PopHead(list)) = Linked(list) \ {list.head}
<1> DEFINE new == PopHead(list)
<1>1. PICK n, s : Represents(list, n, s)
  BY DEF IsList
<1>2. list \in Lists /\ n \in Nat
  BY <1>1 DEF IsList, Represents, Leads
<1>3. /\ n > 0 /\ list.head = s[1] /\ new \in Lists
      /\ Represents(new, n - 1, Rest(n, s))
  BY <1>1, <1>2, PopRepresents
<1> HIDE DEF new
<1>4. Linked(new) = Members(n - 1, Rest(n, s))
  BY <1>3, LinkedAreMembers
<1>5. Linked(list) = Members(n, s)
  BY <1>1, <1>2, LinkedAreMembers
<1>6. s[1] \in Timers /\ 1 \in 1 .. n
  BY <1>1, <1>2, <1>3 DEF Represents, Leads
<1>7. Linked(new) = Linked(list) \ {s[1]}
  BY <1>1, <1>3, <1>4, <1>5, RestMembers DEF Represents
<1>8. QED BY <1>3, <1>5, <1>6, <1>7 DEF IsList, Members, new

(* Clearing Next of every linked timer leaves the first one alone.         *)
LEMMA ClearLeavesFirst ==
  ASSUME NEW list, IsList(list), NEW cleared,
         cleared = [list EXCEPT !.next = [t \in Timers |-> Nil]]
  PROVE  /\ IsList(cleared)
         /\ Linked(cleared) \subseteq Linked(list)
<1>1. list \in Lists
  BY DEF IsList
<1>2. cleared \in Lists /\ cleared.head = list.head
      /\ \A t \in Timers : cleared.next[t] = Nil
  BY <1>1 DEF Lists, Pointers
<1>3. Linked(cleared) \subseteq Linked(list)
  BY <1>2, TimerListAssumption DEF Linked
<1>4. CASE list.head = Nil
  <2>1. Represents(cleared, 0, [i \in 1 .. 0 |-> Nil])
    BY <1>2, <1>4 DEF Represents, Leads
  <2>2. QED BY <1>2, <1>3, <2>1 DEF IsList
<1>5. CASE list.head # Nil
  <2>1. list.head \in Timers
    BY <1>1, <1>5 DEF Lists, Pointers
  <2>2. Represents(cleared, 1, [i \in 1 .. 1 |-> list.head])
    BY <1>2, <2>1 DEF Represents, Leads
  <2>3. QED BY <1>2, <1>3, <2>2 DEF IsList
<1>6. QED BY <1>4, <1>5

-----------------------------------------------------------------------------
(* Types, on any list.                                                     *)

LEMMA InsertType ==
  ASSUME NEW list \in Lists, NEW wake, NEW t \in Timers,
         ~InsertHangs(list, wake, t)
  PROVE  InsertTimer(list, wake, t) \in Lists
<1>1. CASE GoesFirst(list, wake, t)
  BY <1>1 DEF InsertTimer, Lists, Pointers
<1>2. CASE ~GoesFirst(list, wake, t)
  <2> DEFINE c == CHOOSE c \in Walked(list, wake, t) : StopsAt(list, wake, t, c)
  <2>1. c \in Timers
    BY <1>2 DEF InsertHangs, Walked
  <2> HIDE DEF c
  <2>2. [head |-> list.head,
         next |-> [list.next EXCEPT ![t] = list.next[c], ![c] = t]] \in Lists
    BY <2>1 DEF Lists, Pointers
  <2>3. QED BY <1>2, <2>2 DEF InsertTimer, c
<1>3. QED BY <1>1, <1>2

LEMMA PopType ==
  ASSUME NEW list \in Lists, list.head \in Timers
  PROVE  PopHead(list) \in Lists
BY DEF PopHead, Lists, Pointers

-----------------------------------------------------------------------------
(* Lists that some timers have been cut off.                               *)

(* The walk from the head ends, whatever the other timers point at.        *)
Whole(l) == l \in Lists /\ \E n, s : Leads(l, n, s)

(* f says where a walk of m steps from the head is after each.             *)
Walks(l, m, f) ==
  f = [k \in 0 .. m |-> IF k = 0 THEN l.head
                        ELSE IF f[k - 1] = Nil THEN Nil ELSE l.next[f[k - 1]]]

(* There is one way to go only.                                            *)
LEMMA OneWalk ==
  ASSUME NEW m \in Nat, NEW l, NEW f, NEW g, Walks(l, m, f), Walks(l, m, g)
  PROVE  f = g
<1> DEFINE Out == {k \in 0 .. m : f[k] # g[k]}
<1>1. /\ \A k \in 0 .. m : f[k] = IF k = 0 THEN l.head
           ELSE IF f[k - 1] = Nil THEN Nil ELSE l.next[f[k - 1]]
      /\ \A k \in 0 .. m : g[k] = IF k = 0 THEN l.head
           ELSE IF g[k - 1] = Nil THEN Nil ELSE l.next[g[k - 1]]
  BY DEF Walks
<1>2. f = [k \in 0 .. m |-> f[k]] /\ g = [k \in 0 .. m |-> g[k]]
  BY DEF Walks
<1>3. Out = {}
  <2>1. SUFFICES ASSUME Out # {} PROVE FALSE
    OBVIOUS
  <2>2. PICK k \in Out : \A j \in Out : k <= j
    <3>1. Out \in SUBSET Nat
      OBVIOUS
    <3> HIDE DEF Out
    <3>2. QED BY <2>1, <3>1, LeastNumber
  <2>3. k \in 0 .. m /\ f[k] # g[k] /\ k # 0
    BY <1>1, <2>2
  <2>4. k - 1 \in 0 .. m /\ ~(k <= k - 1)
    BY <2>3
  <2>5. f[k - 1] = g[k - 1]
    BY <2>2, <2>4
  <2>6. QED BY <1>1, <2>3, <2>5
<1>4. QED BY <1>2, <1>3

LEMMA ReachedAreMembers ==
  ASSUME NEW l \in Lists, NEW n, NEW s, Leads(l, n, s)
  PROVE  Reached(l) = Members(n, s)
<1> DEFINE N == Cardinality(Timers)
           w == [k \in 0 .. N |-> IF k < n THEN s[k + 1] ELSE Nil]
<1>1. /\ n \in Nat /\ \A i \in 1 .. n : s[i] \in Timers
      /\ l.head = IF n = 0 THEN Nil ELSE s[1]
      /\ \A i \in 1 .. n : l.next[s[i]] = IF i = n THEN Nil ELSE s[i + 1]
  BY DEF Leads
<1>2. N \in Nat /\ n <= N
  <2>1. s \in Injection(1 .. n, Timers)
    BY DEF Leads, Injection, IsInjective
  <2>2. Cardinality(1 .. n) <= Cardinality(Timers)
    BY <2>1, TimerListAssumption, FS_Injection
  <2>3. QED BY <1>1, <2>2, TimerListAssumption, FS_Interval, FS_CardinalityType
<1>3. Walks(l, N, w)
  <2>1. \A k \in 0 .. N : w[k] = IF k < n THEN s[k + 1] ELSE Nil
    OBVIOUS
  <2>2. ASSUME NEW k \in 0 .. N, k # 0
        PROVE  w[k] = IF w[k - 1] = Nil THEN Nil ELSE l.next[w[k - 1]]
    <3>1. k - 1 \in 0 .. N
      BY <1>2, <2>2
    <3>2. CASE k - 1 < n
      <4>1. k \in 1 .. n /\ w[k - 1] = s[k] /\ s[k] # Nil
        BY <1>1, <1>2, <2>1, <2>2, <3>1, <3>2, TimerListAssumption
      <4>2. QED BY <1>1, <2>1, <4>1
    <3>3. CASE ~(k - 1 < n)
      BY <1>1, <1>2, <2>1, <2>2, <3>1, <3>3
    <3>4. QED BY <3>2, <3>3
  <2>3. w[0] = l.head
    BY <1>1, <1>2, <2>1
  <2>4. QED BY <1>2, <2>2, <2>3 DEF Walks
<1> HIDE DEF w
<1>4. \A f : Walks(l, N, f) => f = w
  BY <1>2, <1>3, OneWalk
<1>5. (CHOOSE f : Walks(l, N, f)) = w
  BY <1>3, <1>4
<1>6. Reached(l) = Timers \intersect {w[k] : k \in 0 .. N}
  <2>1. DOMAIN w = 0 .. N
    BY DEF w
  <2>2. QED BY <1>5, <2>1 DEF Reached, Walks
<1>7. {w[k] : k \in 0 .. N} \subseteq {s[i] : i \in 1 .. n} \union {Nil}
  BY <1>1, <1>2 DEF w
<1>8. {s[i] : i \in 1 .. n} \subseteq Timers \intersect {w[k] : k \in 0 .. N}
  <2>1. ASSUME NEW i \in 1 .. n PROVE i - 1 \in 0 .. N /\ w[i - 1] = s[i]
    BY <1>1, <1>2 DEF w
  <2>2. QED BY <1>1, <2>1
<1>9. QED BY <1>6, <1>7, <1>8, TimerListAssumption DEF Members

LEMMA EmptyIsWhole == Whole(EmptyList) /\ Reached(EmptyList) = {}
<1> DEFINE s == [i \in 1 .. 0 |-> Nil]
<1>1. EmptyList \in Lists
  BY DEF EmptyList, Lists, Pointers
<1>2. Leads(EmptyList, 0, s)
  BY DEF Leads, EmptyList
<1> HIDE DEF s
<1>3. Reached(EmptyList) = Members(0, s)
  BY <1>1, <1>2, ReachedAreMembers
<1>4. QED BY <1>1, <1>2, <1>3 DEF Whole, Members

(* What ListHolds says of a list.                                          *)
LEMMA WholeEnds ==
  ASSUME NEW l, Whole(l), l.head # Nil
  PROVE  \E t \in Reached(l) : l.next[t] = Nil
<1>1. PICK n, s : Leads(l, n, s)
  BY DEF Whole
<1>2. n \in Nat /\ n # 0 /\ l.next[s[n]] = Nil
  BY <1>1 DEF Leads
<1>3. Reached(l) = Members(n, s)
  BY <1>1, ReachedAreMembers DEF Whole
<1>4. n \in 1 .. n
  BY <1>2
<1>5. QED BY <1>2, <1>3, <1>4 DEF Members

(* insertTimer, of a timer the walk does not come to.                      *)
LEMMA InsertReaches ==
  ASSUME NEW l, Whole(l), NEW w, NEW t \in Timers, t \notin Reached(l)
  PROVE  /\ ~InsertHangs(l, w, t)
         /\ Whole(InsertTimer(l, w, t))
         /\ Reached(InsertTimer(l, w, t)) = Reached(l) \union {t}
<1> DEFINE new == InsertTimer(l, w, t)
<1>1. PICK n, s : Leads(l, n, s)
  BY DEF Whole
<1>2. l \in Lists /\ n \in Nat /\ Reached(l) = Members(n, s)
  BY <1>1, ReachedAreMembers DEF Whole, Leads
<1>3. \A i \in 1 .. n : s[i] # t
  BY <1>2 DEF Members
<1>4. ~InsertHangs(l, w, t) /\ new \in Lists
  BY <1>1, <1>2, <1>3, InsertLeads
<1>5. PICK k \in 0 .. n : Leads(new, n + 1, PutBehind(n, s, k, t))
  BY <1>1, <1>2, <1>3, InsertLeads
<1> HIDE DEF new
<1>6. Reached(new) = Members(n + 1, PutBehind(n, s, k, t))
  BY <1>4, <1>5, ReachedAreMembers
<1>7. Reached(new) = Reached(l) \union {t}
  BY <1>2, <1>6, PutBehindMembers
<1>8. QED BY <1>4, <1>5, <1>7 DEF Whole, new

(* TimerDispatch takes the first timer.                                    *)
LEMMA PopReaches ==
  ASSUME NEW l, Whole(l), l.head # Nil
  PROVE  /\ l.head \in Timers /\ l.head \in Reached(l)
         /\ Whole(PopHead(l))
         /\ Reached(PopHead(l)) = Reached(l) \ {l.head}
<1> DEFINE new == PopHead(l)
<1>1. PICK n, s : Leads(l, n, s)
  BY DEF Whole
<1>2. l \in Lists /\ n \in Nat /\ Reached(l) = Members(n, s)
  BY <1>1, ReachedAreMembers DEF Whole, Leads
<1>3. /\ n > 0 /\ l.head = s[1] /\ new \in Lists
      /\ Leads(new, n - 1, Rest(n, s))
  BY <1>1, <1>2, PopLeads
<1> HIDE DEF new
<1>4. Reached(new) = Members(n - 1, Rest(n, s))
  BY <1>3, ReachedAreMembers
<1>5. s[1] \in Timers /\ 1 \in 1 .. n
  BY <1>1, <1>2, <1>3 DEF Leads
<1>6. Reached(new) = Reached(l) \ {s[1]}
  BY <1>1, <1>2, <1>3, <1>4, RestMembers
<1>7. QED BY <1>2, <1>3, <1>5, <1>6 DEF Whole, Members, new

(* The first k timers of s.                                                *)
Front(s, k) == [i \in 1 .. k |-> s[i]]

(* Next = nil of the timers ts ends the walk at the first of them it comes *)
(* to, if any.                                                             *)
LEMMA CutLeads ==
  ASSUME NEW l \in Lists, NEW n, NEW s, Leads(l, n, s), NEW ts
  PROVE  /\ Cut(l, ts) \in Lists /\ Cut(l, ts).head = l.head
         /\ \E k \in 0 .. n :
              /\ Leads(Cut(l, ts), k, Front(s, k))
              /\ \A i \in 1 .. n : i < k => s[i] \notin ts
              /\ (k = n /\ \A i \in 1 .. n : s[i] \notin ts) \/ (k > 0 /\ s[k] \in ts)
<1> DEFINE new == Cut(l, ts)
<1>1. /\ new \in Lists /\ new.head = l.head
      /\ \A t \in Timers : new.next[t] = IF t \in ts THEN Nil ELSE l.next[t]
  BY DEF Cut, Lists, Pointers
<1> HIDE DEF new
<1>2. /\ n \in Nat /\ s \in [1 .. n -> Timers]
      /\ \A i \in 1 .. n : s[i] \in Timers
      /\ \A i, j \in 1 .. n : s[i] = s[j] => i = j
      /\ l.head = IF n = 0 THEN Nil ELSE s[1]
      /\ \A i \in 1 .. n : l.next[s[i]] = IF i = n THEN Nil ELSE s[i + 1]
  BY DEF Leads
<1> DEFINE K == {i \in 1 .. n : s[i] \in ts}
<1>3. CASE K = {}
  <2>1. \A i \in 1 .. n : s[i] \notin ts /\ new.next[s[i]] = l.next[s[i]]
    BY <1>1, <1>2, <1>3
  <2>2. Front(s, n) = s
    BY <1>2 DEF Front
  <2>3. Leads(new, n, s)
    BY <1>1, <2>1 DEF Leads
  <2>4. QED BY <1>1, <1>2, <2>1, <2>2, <2>3 DEF new
<1>4. CASE K # {}
  <2>1. PICK k \in K : \A j \in K : k <= j
    <3>1. K \in SUBSET Nat
      BY <1>2
    <3> HIDE DEF K
    <3>2. QED BY <1>4, <3>1, LeastNumber
  <2>2. k \in 1 .. n /\ s[k] \in ts /\ \A i \in 1 .. n : i < k => s[i] \notin ts
    BY <1>2, <2>1
  <2> HIDE DEF K
  <2> DEFINE p == Front(s, k)
  <2>3. \A i \in 1 .. k : i \in 1 .. n /\ p[i] = s[i]
    BY <1>2, <2>2 DEF Front
  <2>4. k \in Nat /\ k # 0 /\ p \in [1 .. k -> Timers]
    BY <1>2, <2>2 DEF Front
  <2> HIDE DEF p
  <2>5. ASSUME NEW i \in 1 .. k
        PROVE  new.next[p[i]] = IF i = k THEN Nil ELSE p[i + 1]
    <3>1. CASE i = k
      BY <1>1, <1>2, <2>2, <2>3, <3>1
    <3>2. CASE i # k
      <4>1. i \in 1 .. n /\ i < k /\ i + 1 \in 1 .. k /\ i # n
        BY <1>2, <2>2, <3>2
      <4>2. new.next[s[i]] = l.next[s[i]]
        BY <1>1, <1>2, <2>2, <4>1
      <4>3. QED BY <1>2, <2>3, <3>2, <4>1, <4>2
    <3>3. QED BY <3>1, <3>2
  <2>6. new.head = IF k = 0 THEN Nil ELSE p[1]
    BY <1>1, <1>2, <2>2, <2>3, <2>4
  <2>7. \A i, j \in 1 .. k : p[i] = p[j] => i = j
    BY <1>2, <2>3
  <2>8. Leads(new, k, p)
    BY <2>4, <2>5, <2>6, <2>7 DEF Leads
  <2>9. k \in 0 .. n /\ k > 0
    BY <1>2, <2>2
  <2>10. QED BY <1>1, <2>2, <2>8, <2>9 DEF new, p
<1>5. QED BY <1>3, <1>4

LEMMA CutReaches ==
  ASSUME NEW l, Whole(l), NEW ts
  PROVE  /\ Whole(Cut(l, ts))
         /\ Reached(Cut(l, ts)) \subseteq Reached(l)
         /\ ts \intersect Reached(l) = {} => Reached(Cut(l, ts)) = Reached(l)
         /\ Cut(l, ts).head = l.head
<1>1. PICK n, s : Leads(l, n, s)
  BY DEF Whole
<1>2. l \in Lists /\ n \in Nat /\ Reached(l) = Members(n, s)
  BY <1>1, ReachedAreMembers DEF Whole, Leads
<1> DEFINE new == Cut(l, ts)
<1>3. /\ new \in Lists /\ new.head = l.head
  BY <1>1, <1>2, CutLeads
<1>4. PICK k \in 0 .. n :
        /\ Leads(new, k, Front(s, k))
        /\ (k = n /\ \A i \in 1 .. n : s[i] \notin ts) \/ (k > 0 /\ s[k] \in ts)
  BY <1>1, <1>2, CutLeads
<1> HIDE DEF new
<1>5. Reached(new) = {s[i] : i \in 1 .. k}
  <2>1. Reached(new) = Members(k, Front(s, k))
    BY <1>3, <1>4, ReachedAreMembers
  <2>2. \A i \in 1 .. k : Front(s, k)[i] = s[i]
    BY DEF Front
  <2>3. QED BY <2>1, <2>2 DEF Members
<1>6. Reached(new) \subseteq Reached(l)
  BY <1>2, <1>5 DEF Members
<1>7. ts \intersect Reached(l) = {} => Reached(new) = Reached(l)
  <2>1. k > 0 => s[k] \in Reached(l)
    BY <1>2 DEF Members
  <2>2. k = n => Reached(new) = Reached(l)
    BY <1>2, <1>5 DEF Members
  <2>3. QED BY <1>4, <2>1, <2>2
<1>8. QED BY <1>3, <1>4, <1>6, <1>7 DEF Whole, new

(* What a walk that comes to the timers of s finds.                        *)
LEMMA LeadsSound ==
  ASSUME NEW l \in Lists, NEW n, NEW s, Leads(l, n, s)
  PROVE  /\ \A t, u, v \in Reached(l) :
              l.next[u] = t => t # l.head /\ (l.next[v] = t => u = v)
         /\ \A S \in SUBSET Reached(l) :
              S # {} => \E t \in S : \A u \in S : l.next[u] # t
<1>1. /\ n \in Nat /\ \A i \in 1 .. n : s[i] \in Timers
      /\ \A i, j \in 1 .. n : s[i] = s[j] => i = j
      /\ l.head = IF n = 0 THEN Nil ELSE s[1]
      /\ \A i \in 1 .. n : l.next[s[i]] = IF i = n THEN Nil ELSE s[i + 1]
  BY DEF Leads
<1>2. Reached(l) = {s[i] : i \in 1 .. n}
  BY ReachedAreMembers DEF Members
<1>3. ASSUME NEW u \in Reached(l), NEW t \in Reached(l), l.next[u] = t
      PROVE  \E i \in 1 .. n : u = s[i] /\ i + 1 \in 1 .. n /\ t = s[i + 1]
  <2>1. PICK i \in 1 .. n : u = s[i]
    BY <1>2
  <2>2. t \in Timers /\ t # Nil
    BY <1>1, <1>2, TimerListAssumption
  <2>3. i # n /\ t = s[i + 1]
    BY <1>1, <1>3, <2>1, <2>2
  <2>4. i + 1 \in 1 .. n
    BY <1>1, <2>3
  <2>5. QED BY <2>1, <2>3, <2>4
<1>4. ASSUME NEW t \in Reached(l), NEW u \in Reached(l), NEW v \in Reached(l),
             l.next[u] = t
      PROVE  t # l.head /\ (l.next[v] = t => u = v)
  <2>1. PICK i \in 1 .. n : u = s[i] /\ i + 1 \in 1 .. n /\ t = s[i + 1]
    BY <1>3, <1>4
  <2>2. t # l.head
    BY <1>1, <2>1, 1 \in 1 .. n
  <2>3. ASSUME l.next[v] = t PROVE u = v
    <3>1. PICK j \in 1 .. n : v = s[j] /\ j + 1 \in 1 .. n /\ t = s[j + 1]
      BY <1>3, <2>3
    <3>2. i + 1 = j + 1
      BY <1>1, <2>1, <3>1
    <3>3. QED BY <2>1, <3>1, <3>2
  <2>4. QED BY <2>2, <2>3
<1>5. ASSUME NEW S \in SUBSET Reached(l), S # {}
      PROVE  \E t \in S : \A u \in S : l.next[u] # t
  <2> DEFINE I == {i \in 1 .. n : s[i] \in S}
  <2>1. I # {} /\ I \in SUBSET Nat
    BY <1>1, <1>2, <1>5
  <2>2. PICK i \in I : \A j \in I : i <= j
    <3> HIDE DEF I
    <3>1. QED BY <2>1, LeastNumber
  <2>3. i \in 1 .. n /\ s[i] \in S /\ \A j \in 1 .. n : s[j] \in S => i <= j
    BY <2>2
  <2>4. ASSUME NEW u \in S, l.next[u] = s[i] PROVE FALSE
    <3>1. PICK j \in 1 .. n : u = s[j] /\ j + 1 \in 1 .. n /\ s[i] = s[j + 1]
      BY <1>3, <2>3, <2>4
    <3>2. i = j + 1 /\ i <= j
      BY <1>1, <2>3, <2>4, <3>1
    <3>3. QED BY <1>1, <3>1, <3>2
  <2>5. QED BY <2>3, <2>4
<1>6. QED BY <1>4, <1>5

(* On a list that holds every timer some pointer leads to, those are the   *)
(* timers a walk comes to.                                                 *)
LEMMA ListReached ==
  ASSUME NEW list, IsList(list)
  PROVE  Reached(list) = Linked(list)
<1>1. PICK n, s : Represents(list, n, s)
  BY DEF IsList
<1>2. list \in Lists /\ Leads(list, n, s)
  BY <1>1 DEF IsList, Represents
<1>3. QED BY <1>1, <1>2, LinkedAreMembers, ReachedAreMembers

-----------------------------------------------------------------------------
(* Clock values.                                                           *)

LEMMA ClockAddType ==
  ASSUME NEW a \in Ticks, NEW d \in Nat, d < HalfRange
  PROVE  ClockAdd(a, d) \in Ticks
BY TimerListAssumption DEF ClockAdd, Ticks, ClockRange

LEMMA ZeroIsTick == 0 \in Ticks
BY TimerListAssumption DEF Ticks, ClockRange

LEMMA SignedDiffType ==
  ASSUME NEW a \in Ticks, NEW b \in Ticks
  PROVE  SignedDiff(a, b) \in -HalfRange .. (HalfRange - 1)
BY TimerListAssumption DEF SignedDiff, ClockSub, Ticks, ClockRange

LEMMA ClockNegated ==
  ASSUME NEW a \in Ticks, NEW b \in Ticks, SignedDiff(a, b) > -HalfRange
  PROVE  SignedDiff(b, a) = -SignedDiff(a, b)
BY TimerListAssumption DEF SignedDiff, ClockSub, Ticks, ClockRange

(* What is added to a clock is the difference, also across the wrap.       *)
LEMMA ClockAhead ==
  ASSUME NEW a \in Ticks, NEW d \in Nat, d < HalfRange
  PROVE  /\ SignedDiff(ClockAdd(a, d), a) = d
         /\ SignedDiff(a, ClockAdd(a, d)) = -d
BY TimerListAssumption DEF SignedDiff, ClockAdd, ClockSub, Ticks, ClockRange

LEMMA ClockFurther ==
  ASSUME NEW a \in Ticks, NEW b \in Ticks, NEW d \in Nat, d < HalfRange,
         SignedDiff(a, b) - d >= -HalfRange
  PROVE  SignedDiff(a, ClockAdd(b, d)) = SignedDiff(a, b) - d
BY TimerListAssumption DEF SignedDiff, ClockAdd, ClockSub, Ticks, ClockRange

LEMMA ClockTicks ==
  ASSUME NEW a \in Ticks, NEW b \in Ticks
  PROVE  /\ ClockAdd(a, 1) \in Ticks
         /\ SignedDiff(a, b) < HalfRange - 1 =>
              SignedDiff(ClockAdd(a, 1), b) = SignedDiff(a, b) + 1
         /\ SignedDiff(b, a) > -HalfRange =>
              SignedDiff(b, ClockAdd(a, 1)) = SignedDiff(b, a) - 1
BY TimerListAssumption DEF SignedDiff, ClockAdd, ClockSub, Ticks, ClockRange
=============================================================================
