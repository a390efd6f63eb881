--------------------------- MODULE ProtocolProofs --------------------------
(***************************************************************************)
(* Theorems about the protocol package: about Transport, for every range   *)
(* of sequence numbers, every window smaller than it and every number of   *)
(* frames, sessions and faults; about FifoBuffer, for every size and every *)
(* set of bytes.                                                           *)
(***************************************************************************)
EXTENDS Transport, FifoBuffer, SequenceTheorems, TLAPS

-----------------------------------------------------------------------------
(* Sequence numbers: residues of frame numbers.                            *)

LEMMA Residue ==
  ASSUME NEW a \in Int
  PROVE  /\ a % SeqRange \in 0 .. (SeqRange - 1)
         /\ \E q \in Int : a = SeqRange * q + (a % SeqRange)
<1>1. SeqRange \in Nat \ {0}
  BY TransportAssumption
<1>2. a \div SeqRange \in Int /\ a = SeqRange * (a \div SeqRange) + (a % SeqRange)
  BY <1>1
<1>3. a % SeqRange \in 0 .. (SeqRange - 1)
  BY <1>1
<1>4. QED BY <1>2, <1>3

LEMMA ResidueOf ==
  ASSUME NEW q \in Int, NEW r \in 0 .. (SeqRange - 1)
  PROVE  (SeqRange * q + r) % SeqRange = r
BY TransportAssumption

LEMMA ResidueOfSmall ==
  ASSUME NEW r \in 0 .. (SeqRange - 1)
  PROVE  r % SeqRange = r
BY TransportAssumption

(* Numbers less than SeqRange apart differ in their sequence numbers.      *)
LEMMA SameResidue ==
  ASSUME NEW a \in Int, NEW b \in Int, a % SeqRange = b % SeqRange,
         a - b < SeqRange, b - a < SeqRange
  PROVE  a = b
<1>1. SeqRange \in Nat \ {0}
  BY TransportAssumption
<1>2. PICK p \in Int : a = SeqRange * p + (a % SeqRange)
  BY Residue
<1>3. PICK q \in Int : b = SeqRange * q + (b % SeqRange)
  BY Residue
<1>4. a % SeqRange \in Int
  BY Residue
<1>5. a - b = SeqRange * (p - q)
  BY <1>1, <1>2, <1>3, <1>4
<1>6. p - q < 1 /\ q - p < 1
  <2>1. ASSUME NEW d \in Int, d >= 1 PROVE SeqRange * d >= SeqRange
    BY <1>1, <2>1
  <2>2. b - a = SeqRange * (q - p)
    BY <1>1, <1>5
  <2>3. p - q >= 1 => a - b >= SeqRange
    BY <1>5, <2>1, p - q \in Int
  <2>4. q - p >= 1 => b - a >= SeqRange
    BY <2>1, <2>2, q - p \in Int
  <2>5. QED BY <1>1, <2>3, <2>4
<1>7. p = q
  BY <1>6
<1>8. QED BY <1>2, <1>3, <1>7

(* The sequence number behind that of a is that of a + 1.                  *)
LEMMA NextResidue ==
  ASSUME NEW a \in Int
  PROVE  ((a % SeqRange) + 1) % SeqRange = (a + 1) % SeqRange
<1>1. SeqRange \in Nat \ {0}
  BY TransportAssumption
<1>2. PICK q \in Int, r \in 0 .. (SeqRange - 1) :
        a = SeqRange * q + r /\ a % SeqRange = r
  BY Residue
<1> DEFINE p == SeqRange * q
<1>3. p \in Int /\ a = p + r
  BY <1>1, <1>2
<1>4. CASE r + 1 < SeqRange
  <2>1. r + 1 \in 0 .. (SeqRange - 1)
    BY <1>1, <1>4
  <2>2. a + 1 = p + (r + 1)
    <3> HIDE DEF p
    <3>1. QED BY <1>1, <1>3
  <2>3. QED BY <1>2, <2>1, <2>2, ResidueOf, ResidueOfSmall
<1>5. CASE r + 1 = SeqRange
  <2>1. a + 1 = p + SeqRange
    <3> HIDE DEF p
    <3>1. QED BY <1>1, <1>3, <1>5
  <2>2. a + 1 = SeqRange * (q + 1) + 0 /\ SeqRange = SeqRange * 1 + 0
    BY <1>1, <2>1
  <2>3. 0 \in 0 .. (SeqRange - 1)
    BY <1>1
  <2>4. QED BY <1>2, <1>5, <2>2, <2>3, ResidueOf
<1>6. QED BY <1>1, <1>4, <1>5

(* Counted from base, the sequence number of the frame v that is less than *)
(* SeqRange further gives v back.                                          *)
LEMMA Distance ==
  ASSUME NEW base \in Int, NEW v \in Int, base <= v, v < base + SeqRange
  PROVE  base + (((v % SeqRange) - base) % SeqRange) = v
<1>1. SeqRange \in Nat \ {0}
  BY TransportAssumption
<1>2. PICK q \in Int : v = SeqRange * q + (v % SeqRange)
  BY Residue
<1>3. v % SeqRange \in Int
  BY Residue
<1>4. (v % SeqRange) - base = SeqRange * (-q) + (v - base)
  BY <1>1, <1>2, <1>3
<1>5. v - base \in 0 .. (SeqRange - 1) /\ -q \in Int
  BY <1>1
<1>6. ((v % SeqRange) - base) % SeqRange = v - base
  BY <1>4, <1>5, ResidueOf
<1>7. QED BY <1>6

(* The number that a sequence number stands for has this sequence number.  *)
LEMMA ResidueBack ==
  ASSUME NEW base \in Int, NEW r \in 0 .. (SeqRange - 1)
  PROVE  (base + ((r - base) % SeqRange)) % SeqRange = r
<1>1. SeqRange \in Nat \ {0} /\ r \in Int
  BY TransportAssumption
<1>2. PICK q \in Int, d \in 0 .. (SeqRange - 1) :
        r - base = SeqRange * q + d /\ (r - base) % SeqRange = d
  BY <1>1, Residue, r - base \in Int
<1> DEFINE p == SeqRange * q
<1>3. p \in Int /\ SeqRange * (-q) = -p
  BY <1>1, <1>2
<1>4. base + d = -p + r
  <2> HIDE DEF p
  <2>1. d \in Int /\ r - base = p + d
    BY <1>1, <1>2 DEF p
  <2>2. QED BY <1>1, <1>3, <2>1
<1>5. base + d = SeqRange * (-q) + r
  BY <1>3, <1>4
<1>6. -q \in Int
  BY <1>2
<1>7. (SeqRange * (-q) + r) % SeqRange = r
  BY <1>6, ResidueOf
<1>8. QED BY <1>2, <1>5, <1>7

-----------------------------------------------------------------------------
(* The channels.                                                           *)

Items == Frames \union {Bad(b) : b \in BOOLEAN}

LEMMA HeadAndTail ==
  ASSUME NEW S, NEW s \in Seq(S), s # <<>>
  PROVE  /\ Len(s) \in Nat \ {0} /\ Head(s) = s[1] /\ Head(s) \in S
         /\ Tail(s) \in Seq(S) /\ Len(Tail(s)) = Len(s) - 1
         /\ \A i \in 1 .. Len(Tail(s)) : Tail(s)[i] = s[i + 1]
OBVIOUS

LEMMA TwoBehind ==
  ASSUME NEW S, NEW s \in Seq(S), NEW b \in Seq(S), NEW e \in S
  PROVE  /\ s \o b \o <<e>> \in Seq(S)
         /\ Len(s) \in Nat /\ Len(b) \in Nat
         /\ Len(s \o b \o <<e>>) = Len(s) + Len(b) + 1
         /\ \A i \in 1 .. Len(s) : (s \o b \o <<e>>)[i] = s[i]
         /\ \A i \in 1 .. Len(b) : (s \o b \o <<e>>)[Len(s) + i] = b[i]
         /\ (s \o b \o <<e>>)[Len(s) + Len(b) + 1] = e
OBVIOUS

LEMMA OneBehind ==
  ASSUME NEW S, NEW s \in Seq(S), NEW b \in Seq(S)
  PROVE  /\ s \o b \in Seq(S)
         /\ Len(s) \in Nat /\ Len(s \o b) = Len(s) + Len(b)
         /\ \A i \in 1 .. Len(s) : (s \o b)[i] = s[i]
         /\ \A i \in 1 .. Len(b) : (s \o b)[Len(s) + i] = b[i]
OBVIOUS

(* The answers b and an acknowledgement put behind those under way.        *)
Behind(s, b, q) == s \o b \o <<[kind |-> "ack", seq |-> q]>>

LEMMA AnswersBehind ==
  ASSUME NEW s \in Seq(Answers), NEW b \in Seq(Answers),
         NEW q \in 0 .. (SeqRange - 1), \A i \in 1 .. Len(b) : b[i].seq = q
  PROVE  /\ Behind(s, b, q) \in Seq(Answers)
         /\ Len(s) \in Nat /\ Len(Behind(s, b, q)) \in Nat
         /\ Len(s) < Len(Behind(s, b, q))
         /\ \A i \in 1 .. Len(s) : Behind(s, b, q)[i] = s[i]
         /\ \A i \in (Len(s) + 1) .. Len(Behind(s, b, q)) :
              Behind(s, b, q)[i].seq = q
<1> DEFINE ack == [kind |-> "ack", seq |-> q]
           t == Behind(s, b, q)
<1>1. ack \in Answers /\ ack.seq = q
  BY DEF Answers
<1>2. /\ t \in Seq(Answers)
      /\ Len(s) \in Nat /\ Len(b) \in Nat /\ Len(t) = Len(s) + Len(b) + 1
      /\ \A i \in 1 .. Len(s) : t[i] = s[i]
      /\ \A i \in 1 .. Len(b) : t[Len(s) + i] = b[i]
      /\ t[Len(s) + Len(b) + 1] = ack
  <2>1. ack \in Answers /\ t = s \o b \o <<ack>>
    BY <1>1 DEF Behind
  <2> HIDE DEF ack, t
  <2>2. QED BY <2>1, TwoBehind
<1> HIDE DEF ack, t
<1>3. ASSUME NEW i \in (Len(s) + 1) .. Len(t) PROVE t[i].seq = q
  <2> /\ Len(s) \in Nat /\ Len(b) \in Nat /\ Len(t) = Len(s) + Len(b) + 1
    BY <1>2
  <2>1. CASE i <= Len(s) + Len(b)
    <3>1. i - Len(s) \in 1 .. Len(b) /\ i = Len(s) + (i - Len(s))
      BY <1>2, <2>1
    <3>2. t[Len(s) + (i - Len(s))] = b[i - Len(s)]
      BY <1>2, <3>1
    <3>3. QED BY <3>1, <3>2
  <2>2. CASE i > Len(s) + Len(b)
    <3>1. i = Len(s) + Len(b) + 1
      BY <2>2
    <3>2. QED BY <1>1, <1>2, <3>1
  <2>3. QED BY <1>2, <2>1, <2>2
<1>4. QED BY <1>2, <1>3 DEF t

-----------------------------------------------------------------------------
(* The inductive invariant.                                                *)

(* Nothing has run but frames of the host's session.                       *)
Running == \A i \in 1 .. Len(executed) : executed[i].session = session

(* The host's window, and the one frame that opens a session.              *)
WindowKept ==
  /\ sent <= acked + Window
  /\ acked = 0 => sent <= 1

(* A frame under way is one the host has sent, and is followed only by     *)
(* frames that are less than a window behind it: when a frame was sent     *)
(* again, those before it in the channel had been sent.                    *)
ChannelOrdered ==
  \A j \in 1 .. Len(toMcu) : toMcu[j].kind = "frame" =>
    /\ toMcu[j].session = session /\ toMcu[j].num < sent
    /\ \A i \in 1 .. j :
         toMcu[i].kind = "frame" => toMcu[i].num < toMcu[j].num + Window

(* What has run is one session's frames in order, and the sequence number  *)
(* expected is that of the next.                                           *)
ExecutedInOrder ==
  /\ nextSequence = Len(executed) % SeqRange
  /\ \A i \in 1 .. Len(executed) :
       /\ executed[i] = Frame(executed[1].session, i - 1)
       /\ executed[i].session <= session

(* What the host takes the answer at place i of toHost for.                *)
UpTo(i) == acked + ((toHost[i].seq - acked) % SeqRange)
Ignored(i) == UpTo(i) > sent

(* Once the session runs: the host is not ahead of the firmware, no frame  *)
(* under way is a whole window behind it, and of the answers under way the *)
(* first may be left over from the session before, for numbers the host    *)
(* has not sent, and the others acknowledge more and more of what has run. *)
InStep ==
  /\ acked <= Len(executed) /\ Len(executed) <= sent
  /\ \A j \in 1 .. Len(toMcu) :
       toMcu[j].kind = "frame" => Len(executed) <= toMcu[j].num + Window
  /\ \A j \in 1 .. Len(toHost) :
       /\ Ignored(j) => acked = 0 /\ sent > 0
       /\ ~Ignored(j) => UpTo(j) <= Len(executed)
       /\ \A i \in 1 .. j :
            Ignored(i) \/ (~Ignored(j) /\ UpTo(i) <= UpTo(j))

(* While the frames of an older session are the last that ran: all answers *)
(* say what it expected next, which may be taken for an acknowledgement of *)
(* the first frame.                                                        *)
OutOfDate ==
  /\ acked > 0 => acked = 1 /\ nextSequence = 1
  /\ \A j \in 1 .. Len(toHost) : toHost[j].seq = nextSequence

Tracked ==
  /\ ExecutedInOrder
  /\ Running => InStep
  /\ ~Running => OutOfDate

IInv ==
  /\ TypeOK
  /\ WindowKept
  /\ ChannelOrdered
  /\ ~spurious /\ ~unnoticed => Tracked

-----------------------------------------------------------------------------
(* What the parts of the invariant need to survive a step.                 *)

LEMMA UpToRange ==
  ASSUME NEW base \in Int, NEW q \in Int
  PROVE  base + ((q - base) % SeqRange) \in base .. (base + SeqRange - 1)
<1>1. SeqRange \in Nat \ {0}
  BY TransportAssumption
<1> DEFINE d == (q - base) % SeqRange
<1>2. d \in 0 .. (SeqRange - 1)
  BY Residue, q - base \in Int
<1> HIDE DEF d
<1>3. base + d \in base .. (base + SeqRange - 1)
  BY <1>1, <1>2
<1>4. QED BY <1>3 DEF d

LEMMA UpToType ==
  ASSUME TypeOK, NEW j \in 1 .. Len(toHost)
  PROVE  UpTo(j) \in Int /\ acked <= UpTo(j) /\ UpTo(j) < acked + SeqRange
<1>1. toHost[j] \in Answers /\ acked \in Int /\ SeqRange \in Int
  BY TransportAssumption DEF TypeOK
<1>2. toHost[j].seq \in Int
  BY <1>1 DEF Answers
<1>3. UpTo(j) \in acked .. (acked + SeqRange - 1)
  BY <1>1, <1>2, UpToRange DEF UpTo
<1>4. QED BY <1>1, <1>3

(* Frames are taken from the front of their channel.                       *)
LEMMA TakenInOrder ==
  ASSUME TypeOK, ChannelOrdered, toMcu # <<>>, toMcu' = Tail(toMcu),
         session' = session, sent' = sent
  PROVE  /\ toMcu' \in Seq(Items)
         /\ ChannelOrdered'
<1>1. toMcu \in Seq(Items)
  BY DEF TypeOK, Items
<1>2. /\ Len(toMcu) \in Nat \ {0}
      /\ toMcu' \in Seq(Items) /\ Len(toMcu') = Len(toMcu) - 1
      /\ \A i \in 1 .. Len(toMcu') : toMcu'[i] = toMcu[i + 1]
  BY <1>1, HeadAndTail
<1>3. ASSUME NEW j \in 1 .. Len(toMcu'), toMcu'[j].kind = "frame"
      PROVE  /\ toMcu'[j].session = session' /\ toMcu'[j].num < sent'
             /\ \A i \in 1 .. j :
                  toMcu'[i].kind = "frame" => toMcu'[i].num < toMcu'[j].num + Window
  <2>1. j + 1 \in 1 .. Len(toMcu) /\ toMcu[j + 1].kind = "frame"
    BY <1>2, <1>3
  <2>2. toMcu'[j].session = session' /\ toMcu'[j].num < sent'
    BY <1>2, <2>1 DEF ChannelOrdered
  <2>3. ASSUME NEW i \in 1 .. j, toMcu'[i].kind = "frame"
        PROVE  toMcu'[i].num < toMcu'[j].num + Window
    <3>1. i + 1 \in 1 .. (j + 1) /\ toMcu'[i] = toMcu[i + 1]
      BY <1>2
    <3>2. QED BY <1>2, <2>1, <2>3, <3>1 DEF ChannelOrdered
  <2>4. QED BY <2>2, <2>3
<1>4. QED BY <1>2, <1>3 DEF ChannelOrdered

(* Fewer or damaged frames under way: nothing is out of step.              *)
LEMMA FewerFrames ==
  ASSUME TypeOK, Tracked, UNCHANGED <<hostVars, toHost, nextSequence, executed>>,
         toMcu' \in Seq(Items),
         \A j \in 1 .. Len(toMcu') : toMcu'[j].kind = "frame" =>
           \E i \in 1 .. Len(toMcu) : toMcu'[j] = toMcu[i]
  PROVE  Tracked'
<1>1. ExecutedInOrder'
  BY DEF Tracked, ExecutedInOrder, hostVars
<1>2. Running' = Running
  BY DEF Running, hostVars
<1>3. \A j : UpTo(j)' = UpTo(j) /\ (Ignored(j)' <=> Ignored(j))
  BY DEF UpTo, Ignored, hostVars
<1>4. InStep => InStep'
  BY <1>3 DEF InStep, hostVars
<1>5. OutOfDate => OutOfDate'
  BY DEF OutOfDate, hostVars
<1>6. QED BY <1>1, <1>2, <1>4, <1>5 DEF Tracked

(* An answer with the number expected is right whenever it is given.       *)
LEMMA ExpectedAnswered ==
  ASSUME IInv, Tracked, UNCHANGED <<hostVars, nextSequence, executed>>,
         toMcu # <<>>, toMcu' = Tail(toMcu), EncodeAckNak(<<>>, nextSequence)
  PROVE  /\ toHost' \in Seq(Answers)
         /\ Tracked'
<1>1. /\ toHost \in Seq(Answers) /\ nextSequence \in 0 .. (SeqRange - 1)
      /\ toMcu \in Seq(Items) /\ executed \in Seq(Frames)
      /\ acked \in Nat /\ sent \in Nat
  BY DEF IInv, TypeOK, Items
<1>2. /\ toHost' \in Seq(Answers) /\ Len(toHost) < Len(toHost')
      /\ Len(toHost) \in Nat /\ Len(toHost') \in Nat
      /\ \A i \in 1 .. Len(toHost) : toHost'[i] = toHost[i]
      /\ \A i \in (Len(toHost) + 1) .. Len(toHost') : toHost'[i].seq = nextSequence
  <2> DEFINE none == <<>>
  <2>1. none \in Seq(Answers) /\ \A i \in 1 .. Len(none) : none[i].seq = nextSequence
    BY EmptySeq
  <2>2. toHost' = Behind(toHost, none, nextSequence)
    BY DEF EncodeAckNak, Behind
  <2> HIDE DEF none
  <2>3. /\ Behind(toHost, none, nextSequence) \in Seq(Answers)
        /\ Len(toHost) \in Nat /\ Len(Behind(toHost, none, nextSequence)) \in Nat
        /\ Len(toHost) < Len(Behind(toHost, none, nextSequence))
        /\ \A i \in 1 .. Len(toHost) :
             Behind(toHost, none, nextSequence)[i] = toHost[i]
        /\ \A i \in (Len(toHost) + 1) .. Len(Behind(toHost, none, nextSequence)) :
             Behind(toHost, none, nextSequence)[i].seq = nextSequence
    BY <1>1, <2>1, AnswersBehind
  <2>4. QED BY <2>2, <2>3
<1>3. /\ Len(toMcu') = Len(toMcu) - 1 /\ Len(toMcu) \in Nat
      /\ \A i \in 1 .. Len(toMcu') : toMcu'[i] = toMcu[i + 1]
  BY <1>1, HeadAndTail
<1>4. ExecutedInOrder' /\ Running' = Running
  BY DEF Tracked, ExecutedInOrder, Running, hostVars
<1>5. \A i \in 1 .. Len(toHost) : UpTo(i)' = UpTo(i) /\ (Ignored(i)' <=> Ignored(i))
  BY <1>2 DEF UpTo, Ignored, hostVars
<1>6. ASSUME InStep PROVE InStep'
  <2>1. acked <= Len(executed) /\ Len(executed) <= sent /\ Len(executed) \in Nat
    BY <1>1, <1>6 DEF InStep
  <2>2. Len(executed) < acked + SeqRange
    BY <1>1, <2>1, TransportAssumption DEF IInv, WindowKept
  <2>3. \A i \in (Len(toHost) + 1) .. Len(toHost') : UpTo(i)' = Len(executed)
    BY <1>1, <1>2, <2>1, <2>2, Distance DEF UpTo, hostVars, Tracked, ExecutedInOrder
  <2>4. \A i \in (Len(toHost) + 1) .. Len(toHost') : ~Ignored(i)'
    BY <1>1, <2>1, <2>3 DEF Ignored, hostVars
  <2>5. \A j \in 1 .. Len(toMcu') :
          toMcu'[j].kind = "frame" => Len(executed)' <= toMcu'[j].num + Window
    BY <1>3, <1>6, \A j \in 1 .. Len(toMcu') : j + 1 \in 1 .. Len(toMcu)
    DEF InStep
  <2>6. ASSUME NEW j \in 1 .. Len(toHost')
        PROVE  /\ Ignored(j)' => acked = 0 /\ sent > 0
               /\ ~Ignored(j)' => UpTo(j)' <= Len(executed)
               /\ \A i \in 1 .. j :
                    Ignored(i)' \/ (~Ignored(j)' /\ UpTo(i)' <= UpTo(j)')
    <3>1. CASE j <= Len(toHost)
      <4>1. j \in 1 .. Len(toHost) /\ \A i \in 1 .. j : i \in 1 .. Len(toHost)
        BY <1>2, <3>1
      <4>2. /\ Ignored(j) => acked = 0 /\ sent > 0
            /\ ~Ignored(j) => UpTo(j) <= Len(executed)
            /\ \A i \in 1 .. j :
                 Ignored(i) \/ (~Ignored(j) /\ UpTo(i) <= UpTo(j))
        BY <1>6, <4>1 DEF InStep
      <4>3. QED BY <1>5, <4>1, <4>2
    <3>2. CASE j > Len(toHost)
      <4>1. UpTo(j)' = Len(executed) /\ ~Ignored(j)'
        BY <1>1, <1>2, <2>3, <2>4, <3>2
      <4>2. ASSUME NEW i \in 1 .. j PROVE Ignored(i)' \/ UpTo(i)' <= Len(executed)
        <5>1. CASE i <= Len(toHost)
          BY <1>1, <1>5, <1>6, <5>1 DEF InStep
        <5>2. CASE i > Len(toHost)
          <6>1. UpTo(i)' = Len(executed)
            BY <1>2, <2>3, <5>2
          <6>2. QED BY <2>1, <6>1
        <5>3. QED BY <1>1, <5>1, <5>2
      <4>3. QED BY <2>1, <4>1, <4>2
    <3>3. QED BY <1>1, <3>1, <3>2
  <2>7. QED BY <2>1, <2>5, <2>6 DEF InStep, hostVars
<1>7. ASSUME OutOfDate PROVE OutOfDate'
  BY <1>1, <1>2, <1>7 DEF OutOfDate, hostVars
<1>8. QED BY <1>2, <1>4, <1>6, <1>7 DEF Tracked

-----------------------------------------------------------------------------
(* The invariant holds at first, and each action keeps it.                 *)

LEMMA InitIInv == Init => IInv
<1> SUFFICES ASSUME Init PROVE IInv
  OBVIOUS
<1>1. /\ SeqRange \in Nat \ {0} /\ Window \in Nat \ {0}
      /\ MaxFrames \in Nat /\ MaxFaults \in Nat /\ MaxSessions \in Nat \ {0}
  BY TransportAssumption
<1>2. TypeOK
  <2>1. /\ session \in 1 .. MaxSessions
        /\ sent \in 0 .. MaxFrames /\ acked \in 0 .. sent
        /\ faults \in 0 .. MaxFaults /\ nextSequence \in 0 .. (SeqRange - 1)
    BY <1>1 DEF Init
  <2>2. /\ toMcu \in Seq(Frames \union {Bad(b) : b \in BOOLEAN})
        /\ toHost \in Seq(Answers) /\ executed \in Seq(Frames)
    BY EmptySeq DEF Init
  <2>3. QED BY <2>1, <2>2 DEF Init, TypeOK
<1>3. WindowKept /\ ChannelOrdered
  BY <1>1 DEF Init, WindowKept, ChannelOrdered
<1>4. ExecutedInOrder /\ Running
  BY <1>1, ResidueOfSmall, 0 \in 0 .. (SeqRange - 1) DEF Init, ExecutedInOrder, Running
<1>5. InStep
  BY <1>1 DEF Init, InStep
<1>6. QED BY <1>2, <1>3, <1>4, <1>5 DEF IInv, Tracked

LEMMA HostSendStep == IInv /\ HostSend => IInv'
<1> SUFFICES ASSUME IInv, HostSend PROVE IInv'
  OBVIOUS
<1>1. /\ toMcu \in Seq(Items) /\ sent \in Nat /\ acked \in Nat
      /\ acked <= sent /\ Window \in Nat \ {0}
  BY TransportAssumption DEF IInv, TypeOK, Items
<1>2. Frame(session, sent) \in Items /\ sent' \in 0 .. MaxFrames
  <2>1. /\ session \in 1 .. MaxSessions /\ sent \in 0 .. (MaxFrames - 1)
        /\ MaxFrames \in Nat /\ sent' = sent + 1
    BY TransportAssumption DEF IInv, TypeOK, HostSend
  <2>2. Frame(session, sent) \in Frames
    BY <2>1 DEF Frames
  <2>3. QED BY <2>1, <2>2 DEF Items
<1>3. /\ toMcu' \in Seq(Items) /\ Len(toMcu') = Len(toMcu) + 1
      /\ Len(toMcu) \in Nat
      /\ \A i \in 1 .. Len(toMcu) : toMcu'[i] = toMcu[i]
      /\ toMcu'[Len(toMcu) + 1] = Frame(session, sent)
  BY <1>1, <1>2, AppendProperties DEF HostSend
<1>4. TypeOK'
  BY <1>1, <1>2, <1>3 DEF IInv, TypeOK, HostSend, mcuVars, Items
<1>5. WindowKept'
  BY <1>1 DEF IInv, WindowKept, HostSend
<1>6. ChannelOrdered'
  <2>1. ASSUME NEW j \in 1 .. Len(toMcu'), toMcu'[j].kind = "frame"
        PROVE  /\ toMcu'[j].session = session' /\ toMcu'[j].num < sent'
               /\ \A i \in 1 .. j :
                    toMcu'[i].kind = "frame" => toMcu'[i].num < toMcu'[j].num + Window
    <3>1. CASE j <= Len(toMcu)
      <4>1. j \in 1 .. Len(toMcu) /\ toMcu'[j] = toMcu[j]
            /\ \A i \in 1 .. j : toMcu'[i] = toMcu[i]
        BY <1>3, <3>1
      <4>2. toMcu[j].num \in Nat
        BY <1>1, <2>1, <4>1 DEF Items, Frames, Frame, Bad
      <4>3. QED BY <1>1, <2>1, <4>1, <4>2 DEF IInv, ChannelOrdered, HostSend
    <3>2. CASE j = Len(toMcu) + 1
      <4>1. toMcu'[j].session = session /\ toMcu'[j].num = sent
        BY <1>3, <3>2 DEF Frame
      <4>2. ASSUME NEW i \in 1 .. j, toMcu'[i].kind = "frame"
            PROVE  toMcu'[i].num < sent + Window
        <5>1. CASE i = j
          BY <1>1, <4>1, <5>1
        <5>2. CASE i # j
          <6>1. i \in 1 .. Len(toMcu) /\ toMcu'[i] = toMcu[i]
            BY <1>3, <3>2, <5>2
          <6>2. toMcu[i].num \in Nat /\ toMcu[i].num < sent
            BY <1>1, <4>2, <6>1 DEF IInv, ChannelOrdered, Items, Frames, Frame, Bad
          <6>3. QED BY <1>1, <6>1, <6>2
        <5>3. QED BY <5>1, <5>2
      <4>3. QED BY <1>1, <4>1, <4>2 DEF HostSend
    <3>3. QED BY <1>3, <3>1, <3>2
  <2>2. QED BY <2>1 DEF ChannelOrdered
<1>7. ASSUME ~spurious', ~unnoticed' PROVE Tracked'
  <2>1. Tracked
    BY <1>7 DEF IInv, HostSend, mcuVars
  <2>2. ExecutedInOrder' /\ Running' = Running /\ OutOfDate' = OutOfDate
    BY <2>1 DEF Tracked, ExecutedInOrder, Running, OutOfDate, HostSend, mcuVars
  <2>3. ASSUME InStep PROVE InStep'
    <3>1. /\ acked <= Len(executed) /\ Len(executed) <= sent
          /\ executed' = executed /\ acked' = acked /\ toHost' = toHost
          /\ Len(executed) \in Nat
      BY <2>3 DEF InStep, HostSend, mcuVars, IInv, TypeOK
    <3>2. ASSUME NEW j \in 1 .. Len(toMcu'), toMcu'[j].kind = "frame"
          PROVE  Len(executed) <= toMcu'[j].num + Window
      <4>1. CASE j <= Len(toMcu)
        BY <1>3, <2>3, <3>2, <4>1 DEF InStep
      <4>2. CASE j = Len(toMcu) + 1
        BY <1>1, <1>3, <3>1, <4>2 DEF Frame
      <4>3. QED BY <1>3, <4>1, <4>2
    <3>3. \A j \in 1 .. Len(toHost) : UpTo(j)' = UpTo(j)
      BY <3>1 DEF UpTo
    <3>4. \A j \in 1 .. Len(toHost) : ~Ignored(j)
      BY <2>3 DEF InStep, HostSend, IInv, TypeOK
    <3>5. \A j \in 1 .. Len(toHost) : UpTo(j) <= Len(executed) /\ UpTo(j) \in Int
      BY <2>3, <3>4, UpToType DEF InStep, IInv
    <3>6. \A j \in 1 .. Len(toHost) : ~Ignored(j)'
      BY <1>1, <3>1, <3>3, <3>5 DEF Ignored, HostSend
    <3>7. \A j \in 1 .. Len(toHost) : \A i \in 1 .. j : UpTo(i) <= UpTo(j)
      BY <2>3, <3>4 DEF InStep, IInv, TypeOK
    <3>8. Len(executed)' <= sent'
      BY <1>1, <3>1 DEF HostSend
    <3>9. ASSUME NEW j \in 1 .. Len(toHost')
          PROVE  /\ Ignored(j)' => acked' = 0 /\ sent' > 0
                 /\ ~Ignored(j)' => UpTo(j)' <= Len(executed')
                 /\ \A i \in 1 .. j :
                      Ignored(i)' \/ (~Ignored(j)' /\ UpTo(i)' <= UpTo(j)')
      <4>1. j \in 1 .. Len(toHost) /\ Len(toHost) \in Nat
            /\ \A i \in 1 .. j : i \in 1 .. Len(toHost)
        BY <3>1, <3>9 DEF IInv, TypeOK
      <4>2. ~Ignored(j)' /\ UpTo(j)' <= Len(executed')
        BY <3>1, <3>3, <3>5, <3>6, <4>1
      <4>3. \A i \in 1 .. j : UpTo(i)' <= UpTo(j)'
        BY <3>3, <3>7, <4>1
      <4>4. QED BY <4>2, <4>3
    <3>10. acked' <= Len(executed')
      BY <3>1
    <3>11. QED BY <3>2, <3>8, <3>9, <3>10, <3>1 DEF InStep
  <2>4. QED BY <2>1, <2>2, <2>3 DEF Tracked
<1>8. QED BY <1>4, <1>5, <1>6, <1>7 DEF IInv

LEMMA HostResendStep == IInv /\ HostResend => IInv'
<1> SUFFICES ASSUME IInv, HostResend PROVE IInv'
  OBVIOUS
<1>1. /\ toMcu \in Seq(Items) /\ sent \in 0 .. MaxFrames /\ acked \in Nat
      /\ acked < sent /\ sent \in Nat /\ Window \in Nat \ {0}
      /\ sent <= acked + Window
  BY TransportAssumption DEF IInv, TypeOK, Items, HostResend, WindowKept
<1> DEFINE again == [i \in 1 .. (sent - acked) |-> Frame(session, acked + i - 1)]
<1>2. /\ again \in Seq(Items) /\ Len(again) = sent - acked
      /\ \A i \in 1 .. (sent - acked) : again[i] = Frame(session, acked + i - 1)
  <2>1. \A i \in 1 .. (sent - acked) : Frame(session, acked + i - 1) \in Items
    <3> TAKE i \in 1 .. (sent - acked)
    <3>2. acked + i - 1 \in 0 .. (MaxFrames - 1)
      BY <1>1, TransportAssumption
    <3>3. session \in 1 .. MaxSessions
      BY DEF IInv, TypeOK
    <3>4. QED BY <3>2, <3>3 DEF Items, Frames
  <2>2. sent - acked \in Nat
    BY <1>1
  <2>3. QED BY <2>1, <2>2
<1> HIDE DEF again
<1>3. /\ toMcu' \in Seq(Items) /\ Len(toMcu') = Len(toMcu) + (sent - acked)
      /\ Len(toMcu) \in Nat
      /\ \A i \in 1 .. Len(toMcu) : toMcu'[i] = toMcu[i]
      /\ \A i \in 1 .. (sent - acked) :
           toMcu'[Len(toMcu) + i] = Frame(session, acked + i - 1)
  <2>1. toMcu' = toMcu \o again
    BY DEF HostResend, again
  <2>2. /\ toMcu \o again \in Seq(Items) /\ Len(toMcu) \in Nat
        /\ Len(toMcu \o again) = Len(toMcu) + Len(again)
        /\ \A i \in 1 .. Len(toMcu) : (toMcu \o again)[i] = toMcu[i]
        /\ \A i \in 1 .. Len(again) : (toMcu \o again)[Len(toMcu) + i] = again[i]
    <3>1. toMcu \in Seq(Items) /\ again \in Seq(Items)
      BY <1>1, <1>2
    <3>2. QED BY <3>1, OneBehind
  <2>3. QED BY <1>2, <2>1, <2>2
<1>4. \A j \in 1 .. Len(toMcu') :
        \/ j \in 1 .. Len(toMcu) /\ toMcu'[j] = toMcu[j]
        \/ /\ j > Len(toMcu)
           /\ toMcu'[j] = Frame(session, acked + (j - Len(toMcu)) - 1)
           /\ acked + (j - Len(toMcu)) <= sent
  <2>1. TAKE j \in 1 .. Len(toMcu')
  <2>2. CASE j <= Len(toMcu)
    BY <1>3, <2>2
  <2>3. CASE j > Len(toMcu)
    <3>1. /\ j - Len(toMcu) \in 1 .. (sent - acked)
          /\ j = Len(toMcu) + (j - Len(toMcu))
      BY <1>1, <1>3, <2>3
    <3>2. toMcu'[Len(toMcu) + (j - Len(toMcu))]
            = Frame(session, acked + (j - Len(toMcu)) - 1)
      BY <1>3, <3>1
    <3>3. QED BY <1>1, <1>3, <2>3, <3>1, <3>2
  <2>4. QED BY <1>3, <2>2, <2>3
<1>5. TypeOK' /\ WindowKept'
  BY <1>1, <1>3 DEF IInv, TypeOK, WindowKept, HostResend, mcuVars, hostVars, Items
<1>6. ASSUME NEW j \in 1 .. Len(toMcu'), toMcu'[j].kind = "frame"
      PROVE  /\ toMcu'[j].session = session /\ toMcu'[j].num < sent
             /\ toMcu'[j].num \in Nat
             /\ j > Len(toMcu) =>
                  /\ acked <= toMcu'[j].num
                  /\ toMcu'[j].num = acked + (j - Len(toMcu)) - 1
  <2>1. CASE j \in 1 .. Len(toMcu) /\ toMcu'[j] = toMcu[j]
    BY <1>1, <1>6, <2>1 DEF IInv, ChannelOrdered, Items, Frames, Frame, Bad
  <2>2. CASE /\ j > Len(toMcu)
             /\ toMcu'[j] = Frame(session, acked + (j - Len(toMcu)) - 1)
             /\ acked + (j - Len(toMcu)) <= sent
    BY <1>1, <1>3, <2>2 DEF Frame
  <2>3. QED BY <1>4, <2>1, <2>2
<1>7. ChannelOrdered'
  <2>1. ASSUME NEW j \in 1 .. Len(toMcu'), toMcu'[j].kind = "frame",
               NEW i \in 1 .. j, toMcu'[i].kind = "frame"
        PROVE  toMcu'[i].num < toMcu'[j].num + Window
    <3>0. i \in 1 .. Len(toMcu')
      BY <1>3
    <3>1. /\ toMcu'[i].num \in Nat /\ toMcu'[j].num \in Nat
          /\ toMcu'[i].num < sent
      BY <1>6, <2>1, <3>0
    <3>2. CASE j <= Len(toMcu)
      <4>1. toMcu'[i] = toMcu[i] /\ toMcu'[j] = toMcu[j] /\ j \in 1 .. Len(toMcu)
        BY <1>3, <3>2
      <4>2. QED BY <2>1, <4>1 DEF IInv, ChannelOrdered
    <3>3. CASE j > Len(toMcu)
      <4>1. acked <= toMcu'[j].num
        BY <1>6, <2>1, <3>3
      <4>2. sent <= acked + Window /\ sent \in Nat /\ acked \in Nat /\ Window \in Nat
        BY <1>1, TransportAssumption DEF IInv, TypeOK, WindowKept
      <4>3. QED BY ONLY <3>1, <4>1, <4>2
    <3>4. QED BY <1>3, <3>2, <3>3
  <2>2. QED BY <1>6, <2>1 DEF ChannelOrdered, HostResend, hostVars
<1>8. ASSUME ~spurious', ~unnoticed' PROVE Tracked'
  <2>1. Tracked
    BY <1>8 DEF IInv, HostResend, mcuVars
  <2>2. /\ ExecutedInOrder' /\ Running' = Running /\ OutOfDate' = OutOfDate
    BY <2>1 DEF Tracked, ExecutedInOrder, Running, OutOfDate, HostResend,
                mcuVars, hostVars
  <2>3. ASSUME InStep PROVE InStep'
    <3>1. \A j : UpTo(j)' = UpTo(j) /\ (Ignored(j)' <=> Ignored(j))
      BY DEF UpTo, Ignored, HostResend, hostVars
    <3>2. Len(executed) <= sent /\ Len(executed) \in Nat
      BY <2>3 DEF InStep, IInv, TypeOK
    <3>3. ASSUME NEW j \in 1 .. Len(toMcu'), toMcu'[j].kind = "frame"
          PROVE  Len(executed) <= toMcu'[j].num + Window
      <4>1. CASE j <= Len(toMcu)
        BY <1>3, <2>3, <3>3, <4>1 DEF InStep
      <4>2. CASE j > Len(toMcu)
        BY <1>1, <1>6, <3>2, <3>3, <4>2
      <4>3. QED BY <1>3, <4>1, <4>2
    <3>4. QED BY <2>3, <3>1, <3>3 DEF InStep, HostResend, hostVars, mcuVars
  <2>4. QED BY <2>1, <2>2, <2>3 DEF Tracked
<1>9. QED BY <1>5, <1>7, <1>8 DEF IInv

(* The answers left when the first is taken off, which the host has taken  *)
(* for an acknowledgement or not.                                          *)
LEMMA AnswerTaken ==
  ASSUME IInv, Tracked, toHost # <<>>, toHost' = Tail(toHost),
         UNCHANGED <<session, sent, toMcu, nextSequence, executed>>,
         \/ acked' = acked
         \/ ~Ignored(1) /\ acked' = UpTo(1)
  PROVE  Tracked'
<1>1. /\ toHost \in Seq(Answers) /\ Len(toHost) \in Nat \ {0}
      /\ acked \in Nat /\ sent \in Nat /\ acked <= sent
      /\ executed \in Seq(Frames) /\ Len(executed) \in Nat
      /\ nextSequence \in 0 .. (SeqRange - 1)
      /\ sent < acked + SeqRange /\ SeqRange \in Nat \ {0, 1}
  BY TransportAssumption DEF IInv, TypeOK, WindowKept
<1>2. /\ Len(toHost') = Len(toHost) - 1
      /\ \A i \in 1 .. Len(toHost') : toHost'[i] = toHost[i + 1]
  BY <1>1, HeadAndTail
<1>3. ExecutedInOrder' /\ Running' = Running
  BY DEF Tracked, ExecutedInOrder, Running
<1>4. ASSUME InStep PROVE InStep'
  <2>1. /\ acked <= Len(executed) /\ Len(executed) <= sent
        /\ 1 \in 1 .. Len(toHost)
    BY <1>1, <1>4 DEF InStep
  <2>2. UpTo(1) \in Int /\ acked <= UpTo(1)
    BY <2>1, UpToType DEF IInv
  <2>3. acked' \in Nat /\ acked <= acked' /\ acked' <= Len(executed)
    BY <1>1, <1>4, <2>1, <2>2 DEF InStep
  <2>4. ASSUME NEW j \in 1 .. Len(toHost')
        PROVE  UpTo(j)' = UpTo(j + 1) /\ (Ignored(j)' <=> Ignored(j + 1))
    <3>1. j + 1 \in 1 .. Len(toHost) /\ toHost'[j] = toHost[j + 1] /\ 1 \in 1 .. (j + 1)
      BY <1>1, <1>2
    <3>2. CASE acked' = acked
      BY <3>1, <3>2 DEF UpTo, Ignored
    <3>3. CASE acked' # acked
      <4>1. ~Ignored(1) /\ acked' = UpTo(1)
        BY <3>3
      <4>2. ~Ignored(j + 1) /\ UpTo(1) <= UpTo(j + 1)
        BY <1>4, <3>1, <4>1 DEF InStep
      <4>3. UpTo(j + 1) \in Int /\ UpTo(j + 1) < acked + SeqRange
        BY <3>1, UpToType DEF IInv
      <4>4. acked' + (((UpTo(j + 1) % SeqRange) - acked') % SeqRange) = UpTo(j + 1)
        <5> DEFINE v == UpTo(j + 1)
        <5>1. /\ v \in Int /\ acked' \in Int
              /\ acked' <= v /\ v < acked' + SeqRange
          BY <1>1, <2>3, <4>1, <4>2, <4>3
        <5> HIDE DEF v
        <5>2. acked' + (((v % SeqRange) - acked') % SeqRange) = v
          BY <5>1, Distance
        <5>3. QED BY <5>2 DEF v
      <4>5. UpTo(j + 1) % SeqRange = toHost[j + 1].seq
        <5> DEFINE r == toHost[j + 1].seq
        <5>1. toHost[j + 1] \in Answers
          BY <1>1, <3>1
        <5>2. r \in 0 .. (SeqRange - 1) /\ acked \in Int
          BY <1>1, <5>1 DEF Answers
        <5> HIDE DEF r
        <5>3. (acked + ((r - acked) % SeqRange)) % SeqRange = r
          BY <5>2, ResidueBack
        <5>4. QED BY <5>3 DEF UpTo, r
      <4>6. UpTo(j)' = UpTo(j + 1)
        BY <3>1, <4>4, <4>5 DEF UpTo
      <4>7. QED BY <4>6 DEF Ignored
    <3>4. QED BY <3>2, <3>3
  <2>5. ASSUME NEW j \in 1 .. Len(toHost')
        PROVE  /\ Ignored(j)' => acked' = 0 /\ sent > 0
               /\ ~Ignored(j)' => UpTo(j)' <= Len(executed)
               /\ \A i \in 1 .. j :
                    Ignored(i)' \/ (~Ignored(j)' /\ UpTo(i)' <= UpTo(j)')
    <3>1. j + 1 \in 1 .. Len(toHost) /\ 1 \in 1 .. (j + 1)
          /\ \A i \in 1 .. j : i + 1 \in 1 .. (j + 1) /\ i \in 1 .. Len(toHost')
      BY <1>1, <1>2
    <3>2. /\ Ignored(j + 1) => acked = 0 /\ sent > 0
          /\ ~Ignored(j + 1) => UpTo(j + 1) <= Len(executed)
          /\ \A i \in 1 .. (j + 1) :
               Ignored(i) \/ (~Ignored(j + 1) /\ UpTo(i) <= UpTo(j + 1))
      BY <1>4, <3>1 DEF InStep
    <3>3. Ignored(j + 1) => acked' = acked
      BY <3>1, <3>2
    <3>4. QED BY <2>4, <3>1, <3>2, <3>3
  <2>6. QED BY <1>4, <2>3, <2>1, <2>5 DEF InStep
<1>5. ASSUME OutOfDate PROVE OutOfDate'
  <2>1. \A j \in 1 .. Len(toHost') : toHost'[j].seq = nextSequence
    BY <1>1, <1>2, <1>5, \A j \in 1 .. Len(toHost') : j + 1 \in 1 .. Len(toHost)
    DEF OutOfDate
  <2>2. acked' > 0 => acked' = 1 /\ nextSequence = 1
    <3>1. CASE acked' = acked
      BY <1>5, <3>1 DEF OutOfDate
    <3>2. CASE acked = 0 /\ acked' # acked
      <4>1. UpTo(1) <= sent /\ acked' = UpTo(1) /\ sent <= 1
        BY <1>1, <3>2, UpToType DEF IInv, WindowKept, Ignored
      <4>2. UpTo(1) = nextSequence
        <5>1. toHost[1].seq = nextSequence
          BY <1>1, <1>5 DEF OutOfDate
        <5>2. UpTo(1) = 0 + ((nextSequence - 0) % SeqRange)
          BY <3>2, <5>1 DEF UpTo
        <5>3. QED BY <1>1, <5>2, ResidueOfSmall
      <4>3. QED BY <1>1, <4>1, <4>2
    <3>3. CASE acked # 0 /\ acked' # acked
      <4>1. acked = 1 /\ nextSequence = 1 /\ toHost[1].seq = 1
        BY <1>1, <1>5, <3>3 DEF OutOfDate
      <4>2. UpTo(1) = 1 + (0 % SeqRange)
        BY <4>1 DEF UpTo
      <4>3. 0 % SeqRange = 0
        BY <1>1, ResidueOfSmall, 0 \in 0 .. (SeqRange - 1)
      <4>4. QED BY <3>3, <4>1, <4>2, <4>3
    <3>4. QED BY <3>1, <3>2, <3>3
  <2>3. QED BY <2>1, <2>2 DEF OutOfDate
<1>6. QED BY <1>3, <1>4, <1>5 DEF Tracked

LEMMA HostReceiveStep == IInv /\ HostReceive => IInv'
<1> SUFFICES ASSUME IInv, HostReceive PROVE IInv'
  OBVIOUS
<1>1. /\ toHost \in Seq(Answers) /\ toHost # <<>> /\ toHost' = Tail(toHost)
      /\ 1 \in 1 .. Len(toHost) /\ Head(toHost) = toHost[1]
      /\ toHost' \in Seq(Answers)
  BY HeadAndTail DEF IInv, TypeOK, HostReceive
<1>2. acked' = IF UpTo(1) <= sent THEN UpTo(1) ELSE acked
  BY <1>1 DEF HostReceive, UpTo
<1>3. /\ sent \in Nat /\ acked \in Nat /\ acked <= sent /\ Window \in Nat \ {0}
      /\ UpTo(1) \in Int /\ acked <= UpTo(1)
  BY <1>1, UpToType, TransportAssumption DEF IInv, TypeOK
<1>4. acked' \in 0 .. sent /\ acked <= acked'
  BY <1>2, <1>3
<1>5. TypeOK'
  BY <1>1, <1>4 DEF IInv, TypeOK, HostReceive, mcuVars
<1>6. WindowKept' /\ ChannelOrdered'
  BY <1>3, <1>4 DEF IInv, WindowKept, ChannelOrdered, HostReceive
<1>7. ASSUME ~spurious', ~unnoticed' PROVE Tracked'
  <2>1. Tracked
    BY <1>7 DEF IInv, HostReceive, mcuVars
  <2>2. acked' = acked \/ (~Ignored(1) /\ acked' = UpTo(1))
    BY <1>2, <1>3 DEF Ignored
  <2>3. UNCHANGED <<session, sent, toMcu, nextSequence, executed>>
    BY DEF HostReceive, mcuVars
  <2>4. QED BY <1>1, <2>1, <2>2, <2>3, AnswerTaken
<1>8. QED BY <1>5, <1>6, <1>7 DEF IInv

LEMMA LoseAnswerStep == IInv /\ LoseAnswer => IInv'
<1> SUFFICES ASSUME IInv, LoseAnswer PROVE IInv'
  OBVIOUS
<1>1. /\ toHost # <<>> /\ toHost' = Tail(toHost) /\ toHost' \in Seq(Answers)
      /\ faults' \in 0 .. MaxFaults
  BY HeadAndTail, TransportAssumption DEF IInv, TypeOK, LoseAnswer
<1>2. TypeOK' /\ WindowKept' /\ ChannelOrdered'
  BY <1>1 DEF IInv, TypeOK, WindowKept, ChannelOrdered, LoseAnswer, hostVars, mcuVars
<1>3. ASSUME ~spurious', ~unnoticed' PROVE Tracked'
  <2>1. Tracked
    BY <1>3 DEF IInv, LoseAnswer, mcuVars
  <2>2. UNCHANGED <<session, sent, acked, toMcu, nextSequence, executed>>
    BY DEF LoseAnswer, hostVars, mcuVars
  <2>3. QED BY <1>1, <2>1, <2>2, AnswerTaken
<1>4. QED BY <1>2, <1>3 DEF IInv

LEMMA DamageFrameStep == IInv /\ DamageFrame => IInv'
<1> SUFFICES ASSUME IInv, DamageFrame PROVE IInv'
  OBVIOUS
<1>1. PICK k \in 1 .. Len(toMcu), sync \in BOOLEAN :
        toMcu' = [toMcu EXCEPT ![k] = Bad(sync)]
  BY DEF DamageFrame
<1>2. toMcu \in Seq(Items) /\ Bad(sync) \in Items /\ Bad(sync).kind = "bad"
  BY DEF IInv, TypeOK, Items, Bad
<1>3. /\ toMcu' \in Seq(Items) /\ Len(toMcu') = Len(toMcu)
      /\ \A i \in 1 .. Len(toMcu) : toMcu'[i] = IF i = k THEN Bad(sync) ELSE toMcu[i]
  BY <1>1, <1>2, ExceptSeq
<1>4. \A i \in 1 .. Len(toMcu') : toMcu'[i].kind = "frame" => toMcu'[i] = toMcu[i]
  BY <1>2, <1>3
<1>5. faults' \in 0 .. MaxFaults
  BY TransportAssumption DEF IInv, TypeOK, DamageFrame
<1>6. TypeOK' /\ WindowKept'
  BY <1>3, <1>5 DEF IInv, TypeOK, WindowKept, DamageFrame, hostVars, mcuVars, Items
<1>7. ChannelOrdered'
  <2>1. \A j \in 1 .. Len(toMcu') : \A i \in 1 .. j : i \in 1 .. Len(toMcu')
    BY <1>2, <1>3
  <2>2. QED
    BY <1>3, <1>4, <2>1 DEF IInv, ChannelOrdered, DamageFrame, hostVars
<1>8. ASSUME ~spurious', ~unnoticed' PROVE Tracked'
  <2>1. Tracked
    BY <1>8 DEF IInv, DamageFrame, mcuVars
  <2>2. UNCHANGED <<hostVars, toHost, nextSequence, executed>>
    BY DEF DamageFrame, mcuVars
  <2>3. \A j \in 1 .. Len(toMcu') : toMcu'[j].kind = "frame" =>
          \E i \in 1 .. Len(toMcu) : toMcu'[j] = toMcu[i]
    BY <1>3, <1>4
  <2>4. QED BY <1>3, <2>1, <2>2, <2>3, FewerFrames DEF IInv
<1>9. QED BY <1>6, <1>7, <1>8 DEF IInv

(* A frame that is not run is taken off and the number expected is said    *)
(* again: RefuseFrame and Resync.                                          *)
LEMMA NotRunStep ==
  ASSUME IInv, TakeItem, EncodeAckNak(<<>>, nextSequence),
         UNCHANGED <<hostVars, faults, nextSequence, executed, spurious, unnoticed>>,
         synchronized' \in BOOLEAN
  PROVE  IInv'
<1>1. toMcu # <<>> /\ toMcu' = Tail(toMcu)
  BY DEF TakeItem
<1>2. toMcu' \in Seq(Items) /\ ChannelOrdered'
  BY <1>1, TakenInOrder DEF IInv, hostVars
<1>3. toHost' \in Seq(Answers)
  <2> DEFINE none == <<>>
  <2>1. none \in Seq(Answers) /\ \A i \in 1 .. Len(none) : none[i].seq = nextSequence
    BY EmptySeq
  <2>2. toHost' = Behind(toHost, none, nextSequence)
    BY DEF EncodeAckNak, Behind
  <2> HIDE DEF none
  <2>3. toHost \in Seq(Answers) /\ nextSequence \in 0 .. (SeqRange - 1)
    BY DEF IInv, TypeOK
  <2>4. QED BY <2>1, <2>2, <2>3, AnswersBehind
<1>4. TypeOK' /\ WindowKept'
  BY <1>2, <1>3 DEF IInv, TypeOK, WindowKept, hostVars, Items
<1>5. ASSUME ~spurious', ~unnoticed' PROVE Tracked'
  <2>1. Tracked
    BY <1>5 DEF IInv
  <2>2. QED BY <1>1, <2>1, ExpectedAnswered
<1>6. QED BY <1>2, <1>4, <1>5 DEF IInv

LEMMA DiscardGarbageStep == IInv /\ DiscardGarbage => IInv'
<1> SUFFICES ASSUME IInv, DiscardGarbage PROVE IInv'
  OBVIOUS
<1>1. toMcu # <<>> /\ toMcu' = Tail(toMcu)
  BY DEF DiscardGarbage, TakeItem
<1>2. toMcu' \in Seq(Items) /\ ChannelOrdered'
  BY <1>1, TakenInOrder DEF IInv, DiscardGarbage, hostVars
<1>3. TypeOK' /\ WindowKept'
  BY <1>2 DEF IInv, TypeOK, WindowKept, DiscardGarbage, hostVars, Items
<1>4. ASSUME ~spurious', ~unnoticed' PROVE Tracked'
  <2>1. Tracked
    BY <1>4 DEF IInv, DiscardGarbage
  <2>2. toMcu \in Seq(Items)
    BY DEF IInv, TypeOK, Items
  <2>3. \A j \in 1 .. Len(toMcu') :
          \E i \in 1 .. Len(toMcu) : toMcu'[j] = toMcu[i]
    <3>1. /\ Len(toMcu') = Len(toMcu) - 1 /\ Len(toMcu) \in Nat
          /\ \A i \in 1 .. Len(toMcu') : toMcu'[i] = toMcu[i + 1]
      BY <1>1, <2>2, HeadAndTail
    <3>2. \A j \in 1 .. Len(toMcu') : j + 1 \in 1 .. Len(toMcu)
      BY <3>1
    <3>3. QED BY <3>1, <3>2
  <2>4. QED BY <1>2, <2>1, <2>3, FewerFrames DEF IInv, DiscardGarbage
<1>5. QED BY <1>2, <1>3, <1>4 DEF IInv

(* A new session, with the firmware reset or not.                          *)
LEMMA NewSessionStep == IInv /\ (Reset \/ HostRestart) => IInv'
<1> SUFFICES ASSUME IInv, Reset \/ HostRestart PROVE IInv'
  OBVIOUS
<1>1. /\ session' = session + 1 /\ session' \in 1 .. MaxSessions
      /\ sent' = 0 /\ acked' = 0 /\ toMcu' = <<>> /\ toHost' = <<>>
      /\ faults' = faults /\ spurious' = spurious /\ unnoticed' = unnoticed
  <2>1. NewSession /\ UNCHANGED <<spurious, unnoticed>>
    BY DEF Reset, HostRestart, mcuVars
  <2>2. session \in 1 .. MaxSessions /\ MaxSessions \in Nat
    BY TransportAssumption DEF IInv, TypeOK
  <2>3. QED BY <2>1, <2>2 DEF NewSession
<1>2. \/ nextSequence' = 0 /\ executed' = <<>> /\ synchronized' = TRUE
      \/ UNCHANGED <<nextSequence, executed, synchronized>>
  BY DEF Reset, HostRestart, mcuVars
<1>3. TypeOK'
  <2>1. /\ toMcu' \in Seq(Frames \union {Bad(b) : b \in BOOLEAN})
        /\ toHost' \in Seq(Answers)
    BY <1>1, EmptySeq
  <2>2. sent' \in 0 .. MaxFrames /\ acked' \in 0 .. sent'
    BY <1>1, TransportAssumption
  <2>3. nextSequence' \in 0 .. (SeqRange - 1) /\ executed' \in Seq(Frames)
    <3>1. 0 \in 0 .. (SeqRange - 1) /\ <<>> \in Seq(Frames)
      BY TransportAssumption, EmptySeq
    <3>2. nextSequence \in 0 .. (SeqRange - 1) /\ executed \in Seq(Frames)
      BY DEF IInv, TypeOK
    <3>3. QED BY <1>2, <3>1, <3>2
  <2>4. QED BY <1>1, <1>2, <2>1, <2>2, <2>3 DEF IInv, TypeOK
<1>4. WindowKept' /\ ChannelOrdered'
  BY <1>1, TransportAssumption DEF WindowKept, ChannelOrdered
<1>5. ASSUME ~spurious', ~unnoticed' PROVE Tracked'
  <2>1. Tracked
    BY <1>1, <1>5 DEF IInv
  <2>2. CASE nextSequence' = 0 /\ executed' = <<>>
    <3>1. ExecutedInOrder' /\ Running'
      BY <2>2, ResidueOfSmall, TransportAssumption, 0 \in 0 .. (SeqRange - 1)
      DEF ExecutedInOrder, Running
    <3>2. InStep'
      BY <1>1, <2>2 DEF InStep
    <3>3. QED BY <3>1, <3>2 DEF Tracked
  <2>3. CASE UNCHANGED <<nextSequence, executed>>
    <3>1. session \in Nat /\ executed \in Seq(Frames) /\ MaxSessions \in Nat
      BY TransportAssumption DEF IInv, TypeOK
    <3>2. ASSUME NEW i \in 1 .. Len(executed)
          PROVE  /\ executed[i].session <= session' /\ executed[i].session # session'
                 /\ executed[i] = Frame(executed[1].session, i - 1)
      <4>1. executed[i] \in Frames /\ executed[i].session <= session
            /\ executed[i] = Frame(executed[1].session, i - 1)
        BY <2>1, <3>1 DEF Tracked, ExecutedInOrder
      <4>2. executed[i].session \in Nat
        BY <3>1, <4>1 DEF Frames, Frame
      <4>3. QED BY <1>1, <3>1, <4>1, <4>2
    <3>3. ExecutedInOrder'
      BY <2>1, <2>3, <3>2 DEF Tracked, ExecutedInOrder
    <3>4. ASSUME Running' PROVE InStep'
      <4>1. Len(executed) = 0
        BY <2>3, <3>1, <3>2, <3>4 DEF Running
      <4>2. QED BY <1>1, <2>3, <4>1 DEF InStep
    <3>5. OutOfDate'
      BY <1>1 DEF OutOfDate
    <3>6. QED BY <3>3, <3>4, <3>5 DEF Tracked
  <2>4. QED BY <1>2, <2>2, <2>3
<1>6. QED BY <1>3, <1>4, <1>5 DEF IInv

LEMMA AcceptFrameStep ==
  ASSUME IInv, NEW loses \in BOOLEAN, NEW answers \in BOOLEAN,
         AcceptFrame(loses, answers)
  PROVE  IInv'
<1> DEFINE f == toMcu[1]
           next == NextSeq(Seqno(f))
           e == Len(executed)
<1>1. /\ SeqRange \in Nat \ {0, 1} /\ Window \in Nat \ {0} /\ Window < SeqRange
      /\ toMcu \in Seq(Items) /\ toHost \in Seq(Answers)
      /\ sent \in Nat /\ acked \in Nat /\ acked <= sent
      /\ sent <= acked + Window /\ (acked = 0 => sent <= 1)
      /\ nextSequence \in 0 .. (SeqRange - 1)
      /\ executed \in Seq(Frames) /\ e \in Nat
  BY TransportAssumption DEF IInv, TypeOK, Items, WindowKept
<1>2. /\ toMcu # <<>> /\ toMcu' = Tail(toMcu) /\ Item = f
      /\ 1 \in 1 .. Len(toMcu) /\ f \in Items
      /\ Len(toMcu') = Len(toMcu) - 1 /\ Len(toMcu) \in Nat
      /\ \A i \in 1 .. Len(toMcu') : toMcu'[i] = toMcu[i + 1]
  BY <1>1, HeadAndTail DEF AcceptFrame, TakeItem, Item
<1>3. /\ f.kind = "frame" /\ f \in Frames /\ f.session = session
      /\ f.num \in Nat /\ f.num < sent /\ f = Frame(session, f.num)
  <2>1. f.kind = "frame" /\ f \in Frames
    BY <1>2 DEF AcceptFrame, Items, Bad
  <2>2. f.session = session /\ f.num < sent
    BY <1>2, <2>1 DEF IInv, ChannelOrdered
  <2>3. QED BY <2>1, <2>2 DEF Frames, Frame
<1>4. /\ Seqno(f) = ExpectedSeq(f) /\ nextSequence' = next
      /\ EncodeAckNak(IF answers THEN <<[kind |-> "response", seq |-> next]>>
                                 ELSE <<>>, next)
      /\ executed' = IF IsHostReset(f) /\ ~Ran(session)
                     THEN <<f>> ELSE Append(executed, f)
      /\ spurious' = (spurious \/ (IsHostReset(f) /\ Ran(session)))
      /\ unnoticed' = (unnoticed \/ (~IsHostReset(f) /\ executed # <<>>
                                     /\ ~Ran(session)))
      /\ synchronized' = ~loses
      /\ UNCHANGED <<session, sent, acked, faults>>
  BY <1>2, <1>3 DEF AcceptFrame, Matches, hostVars
<1>5. Seqno(f) = f.num % SeqRange /\ next \in 0 .. (SeqRange - 1)
      /\ next = (f.num + 1) % SeqRange
  <2>1. Seqno(f) \in Int
    BY <1>3, Residue DEF Seqno
  <2>2. QED BY <1>3, <2>1, Residue, NextResidue DEF Seqno, NextSeq
<1>6. /\ toHost' \in Seq(Answers) /\ Len(toHost) < Len(toHost')
      /\ Len(toHost) \in Nat /\ Len(toHost') \in Nat
      /\ \A i \in 1 .. Len(toHost) : toHost'[i] = toHost[i]
      /\ \A i \in (Len(toHost) + 1) .. Len(toHost') : toHost'[i].seq = next
  <2> DEFINE b == IF answers THEN <<[kind |-> "response", seq |-> next]>> ELSE <<>>
  <2> HIDE DEF next
  <2>1. b \in Seq(Answers) /\ \A i \in 1 .. Len(b) : b[i].seq = next
    <3>1. [kind |-> "response", seq |-> next] \in Answers
      BY <1>5 DEF Answers
    <3>2. CASE answers
      BY <3>1, <3>2
    <3>3. CASE ~answers
      BY <3>3, EmptySeq
    <3>4. QED BY <3>2, <3>3
  <2>2. toHost' = Behind(toHost, b, next)
    BY <1>4 DEF EncodeAckNak, Behind
  <2> HIDE DEF b
  <2>3. toHost \in Seq(Answers) /\ next \in 0 .. (SeqRange - 1)
    BY <1>1, <1>5
  <2>4. /\ Behind(toHost, b, next) \in Seq(Answers)
        /\ Len(toHost) \in Nat /\ Len(Behind(toHost, b, next)) \in Nat
        /\ Len(toHost) < Len(Behind(toHost, b, next))
        /\ \A i \in 1 .. Len(toHost) : Behind(toHost, b, next)[i] = toHost[i]
        /\ \A i \in (Len(toHost) + 1) .. Len(Behind(toHost, b, next)) :
             Behind(toHost, b, next)[i].seq = next
    BY <2>1, <2>3, AnswersBehind
  <2>5. QED BY <2>2, <2>4
<1>7. toMcu' \in Seq(Items) /\ ChannelOrdered'
  BY <1>2, <1>4, TakenInOrder DEF IInv
<1>8. executed' \in Seq(Frames)
  BY <1>1, <1>3, <1>4
<1>9. TypeOK' /\ WindowKept'
  <2>1. spurious' \in BOOLEAN /\ unnoticed' \in BOOLEAN /\ synchronized' \in BOOLEAN
    BY <1>4 DEF IInv, TypeOK
  <2>2. nextSequence' \in 0 .. (SeqRange - 1)
    BY <1>4, <1>5
  <2>3. UNCHANGED <<session, sent, acked, faults>>
    BY <1>4
  <2>4. QED BY <1>6, <1>7, <1>8, <2>1, <2>2, <2>3 DEF IInv, TypeOK, WindowKept, Items
<1>10. ASSUME ~spurious', ~unnoticed' PROVE Tracked'
  <2>1. /\ Tracked
        /\ ~IsHostReset(f) \/ ~Ran(session)
        /\ IsHostReset(f) \/ executed = <<>> \/ Ran(session)
    BY <1>4, <1>10 DEF IInv
  <2>2. nextSequence = e % SeqRange
    BY <2>1 DEF Tracked, ExecutedInOrder
  <2>3. \A i \in 1 .. e : executed[i] = Frame(executed[1].session, i - 1)
                        /\ executed[i].session = executed[1].session
    BY <2>1 DEF Tracked, ExecutedInOrder, Frame
  <2>4. CASE ~IsHostReset(f)
    <3>1. (f.num % SeqRange) = (e % SeqRange)
      BY <1>4, <1>5, <2>2, <2>4 DEF ExpectedSeq
    <3>2. \A i \in 1 .. e : executed[i].session = session
      <4>1. CASE executed = <<>>
        BY <4>1
      <4>2. CASE Ran(session)
        <5>1. PICK i \in 1 .. e : executed[i].session = session
          BY <1>1, <4>2 DEF Ran
        <5>2. QED BY <2>3, <5>1
      <4>3. QED BY <2>1, <2>4, <4>1, <4>2
    <3>3. InStep
      BY <2>1, <3>2 DEF Tracked, Running
    <3>4. acked <= e /\ e <= sent /\ e <= f.num + Window
      BY <1>2, <1>3, <3>3 DEF InStep
    <3>5. f.num = e
      <4>1. f.num - e < SeqRange /\ e - f.num < SeqRange
        BY <1>1, <1>3, <3>4
      <4>2. f.num \in Int /\ e \in Int
        BY <1>1, <1>3
      <4> HIDE DEF e, f
      <4>3. QED BY <3>1, <4>1, <4>2, SameResidue
    <3>6. /\ executed' = Append(executed, f) /\ Len(executed') = e + 1
          /\ \A i \in 1 .. e : executed'[i] = executed[i]
          /\ executed'[e + 1] = f
      BY <1>1, <1>3, <1>4, <2>4
    <3>7. \A i \in 1 .. (e + 1) : executed'[i] = Frame(session, i - 1)
      <4>1. \A i \in 1 .. e : executed'[i] = Frame(session, i - 1)
        <5>1. \A i \in 1 .. e : 1 \in 1 .. e
          BY <1>1
        <5>2. QED BY <2>3, <3>2, <3>6, <5>1
      <4>2. executed'[e + 1] = Frame(session, (e + 1) - 1)
        BY <1>1, <1>3, <3>5, <3>6
      <4>3. QED BY <1>1, <4>1, <4>2
    <3>8. Running' /\ ExecutedInOrder'
      <4>1. nextSequence' = (e + 1) % SeqRange
        BY <1>4, <1>5, <3>5
      <4>2. \A i \in 1 .. (e + 1) : executed'[i].session = session
        <5>1. \A n : Frame(session, n).session = session
          BY DEF Frame
        <5>2. QED BY <3>7, <5>1
      <4>3. \A i \in 1 .. (e + 1) : 1 \in 1 .. (e + 1)
        BY <1>1
      <4>4. session' = session /\ session <= session
        BY <1>4 DEF IInv, TypeOK
      <4>5. QED BY <3>6, <3>7, <4>1, <4>2, <4>3, <4>4 DEF Running, ExecutedInOrder
    <3>9. InStep'
      <4>1. acked <= e + 1 /\ e + 1 <= sent /\ e + 1 < acked + SeqRange
        BY <1>1, <1>3, <3>4, <3>5
      <4>2. ASSUME NEW j \in 1 .. Len(toMcu'), toMcu'[j].kind = "frame"
            PROVE  e + 1 <= toMcu'[j].num + Window
        <5>1. j + 1 \in 1 .. Len(toMcu) /\ toMcu'[j] = toMcu[j + 1]
              /\ 1 \in 1 .. (j + 1)
          BY <1>2
        <5>2. f.num < toMcu'[j].num + Window
          BY <1>3, <4>2, <5>1 DEF IInv, ChannelOrdered
        <5>3. toMcu'[j].num \in Nat
          <6>1. toMcu'[j] \in Frames
            BY <1>7, <4>2 DEF Items, Bad
          <6>2. QED BY <6>1 DEF Frames, Frame
        <5>4. QED BY <1>1, <3>5, <5>2, <5>3
      <4>3. \A i \in 1 .. Len(toHost) : UpTo(i)' = UpTo(i) /\ (Ignored(i)' <=> Ignored(i))
        BY <1>4, <1>6 DEF UpTo, Ignored
      <4>4. \A i \in (Len(toHost) + 1) .. Len(toHost') : UpTo(i)' = e + 1
        <5>1. next = (e + 1) % SeqRange
          BY <1>5, <3>5
        <5>2. acked + ((((e + 1) % SeqRange) - acked) % SeqRange) = e + 1
          <6>1. acked \in Int /\ e + 1 \in Int
            BY <1>1
          <6> HIDE DEF e
          <6>2. QED BY <4>1, <6>1, Distance
        <5> HIDE DEF next, e
        <5>3. QED BY <1>4, <1>6, <5>1, <5>2 DEF UpTo
      <4>5. \A i \in (Len(toHost) + 1) .. Len(toHost') : ~Ignored(i)'
        BY <1>1, <1>4, <4>1, <4>4 DEF Ignored
      <4>6. ASSUME NEW j \in 1 .. Len(toHost')
            PROVE  /\ Ignored(j)' => acked = 0 /\ sent > 0
                   /\ ~Ignored(j)' => UpTo(j)' <= e + 1
                   /\ \A i \in 1 .. j :
                        Ignored(i)' \/ (~Ignored(j)' /\ UpTo(i)' <= UpTo(j)')
        <5>1. CASE j \in 1 .. Len(toHost)
          <6>1. \A i \in 1 .. j : i \in 1 .. Len(toHost)
            BY <1>6, <5>1
          <6>2. UpTo(j) \in Int
            BY <5>1, UpToType DEF IInv
          <6>3. QED BY <1>1, <3>3, <4>3, <5>1, <6>1, <6>2 DEF InStep
        <5>2. CASE j \in (Len(toHost) + 1) .. Len(toHost')
          <6>1. ~Ignored(j)' /\ UpTo(j)' = e + 1
            BY <4>4, <4>5, <5>2
          <6>2. ASSUME NEW i \in 1 .. j PROVE Ignored(i)' \/ UpTo(i)' <= e + 1
            <7>1. CASE i \in 1 .. Len(toHost)
              <8>1. Ignored(i) \/ UpTo(i) <= e
                BY <3>3, <7>1 DEF InStep
              <8>2. UpTo(i) \in Int
                BY <7>1, UpToType DEF IInv
              <8>3. QED BY <1>1, <4>3, <7>1, <8>1, <8>2
            <7>2. CASE i \in (Len(toHost) + 1) .. Len(toHost')
              BY <1>1, <4>4, <7>2
            <7>3. QED BY <1>6, <5>2, <7>1, <7>2
          <6>3. QED BY <1>1, <6>1, <6>2
        <5>3. QED BY <1>6, <5>1, <5>2
      <4>7. QED BY <1>4, <3>6, <4>1, <4>2, <4>6 DEF InStep
    <3>10. QED BY <3>8, <3>9 DEF Tracked
  <2>5. CASE IsHostReset(f)
    <3> DEFINE k == nextSequence
    <3>1. f.num % SeqRange = 0 /\ k # 0 /\ ~Ran(session)
      BY <1>4, <1>5, <2>1, <2>5 DEF IsHostReset
    <3>2. 0 \in 0 .. (SeqRange - 1) /\ 1 \in 0 .. (SeqRange - 1)
      BY <1>1
    <3>3. e # 0
      BY <2>2, <3>1, <3>2, ResidueOfSmall
    <3>4. ~Running
      BY <1>1, <3>1, <3>3 DEF Running, Ran
    <3>5. /\ acked > 0 => acked = 1 /\ k = 1
          /\ \A j \in 1 .. Len(toHost) : toHost[j].seq = k
      BY <2>1, <3>4 DEF Tracked, OutOfDate
    <3>6. f.num = 0
      <4>1. f.num - 0 < SeqRange /\ 0 - f.num < SeqRange
        BY <1>1, <1>3, <3>5
      <4>2. f.num % SeqRange = 0 % SeqRange
        BY <3>1, <3>2, ResidueOfSmall
      <4>3. f.num \in Int
        BY <1>3
      <4> HIDE DEF f
      <4>4. QED BY <4>1, <4>2, <4>3, SameResidue
    <3>7. executed' = <<f>> /\ Len(executed') = 1 /\ executed'[1] = Frame(session, 0)
      BY <1>3, <1>4, <2>5, <3>1, <3>6
    <3>8. next = 1
      BY <1>5, <3>2, <3>6, ResidueOfSmall
    <3>9. Running' /\ ExecutedInOrder'
      <4>1. nextSequence' = 1 % SeqRange
        BY <1>4, <3>2, <3>8, ResidueOfSmall
      <4>2. executed'[1].session = session
        BY <3>7 DEF Frame
      <4>3. session' = session /\ session <= session
        BY <1>4 DEF IInv, TypeOK
      <4>4. \A i \in 1 .. 1 : i = 1 /\ i - 1 = 0
        OBVIOUS
      <4>5. QED BY <3>7, <4>1, <4>2, <4>3, <4>4 DEF Running, ExecutedInOrder
    <3>10. InStep'
      <4>1. acked <= 1 /\ 1 <= sent /\ (acked = 0 => sent = 1) /\ k \in Nat
        BY <1>1, <1>3, <3>5
      <4>2. ASSUME NEW j \in 1 .. Len(toMcu'), toMcu'[j].kind = "frame"
            PROVE  1 <= toMcu'[j].num + Window
        <5>1. toMcu'[j] \in Frames
          BY <1>7, <4>2 DEF Items, Bad
        <5>2. toMcu'[j].num \in Nat
          BY <5>1 DEF Frames, Frame
        <5>3. QED BY <1>1, <5>2
      <4>3. \A i \in 1 .. Len(toHost) : UpTo(i)' = k
        <5>1. k % SeqRange = k
          BY <1>1, ResidueOfSmall
        <5>2. acked <= k /\ k < acked + SeqRange
          BY <1>1, <3>1, <4>1
        <5>3. acked + (((k % SeqRange) - acked) % SeqRange) = k
          <6>1. acked \in Int /\ k \in Int
            BY <1>1
          <6> HIDE DEF k
          <6>2. QED BY <5>2, <6>1, Distance
        <5>4. \A i \in 1 .. Len(toHost) : toHost'[i].seq = k
          BY <1>6, <3>5
        <5> HIDE DEF k
        <5>5. QED BY <1>4, <5>1, <5>3, <5>4 DEF UpTo
      <4>4. \A i \in (Len(toHost) + 1) .. Len(toHost') : UpTo(i)' = 1
        <5>1. 1 % SeqRange = 1
          BY <3>2, ResidueOfSmall
        <5>2. acked + (((1 % SeqRange) - acked) % SeqRange) = 1
          <6>1. acked \in Int /\ acked <= 1 /\ 1 < acked + SeqRange
            BY <1>1, <4>1
          <6>2. QED BY <6>1, Distance
        <5>3. \A i \in (Len(toHost) + 1) .. Len(toHost') : toHost'[i].seq = 1
          BY <1>6, <3>8
        <5>4. QED BY <1>4, <5>1, <5>2, <5>3 DEF UpTo
      <4>5. ASSUME NEW j \in 1 .. Len(toHost')
            PROVE  /\ Ignored(j)' => acked = 0 /\ sent > 0
                   /\ ~Ignored(j)' => UpTo(j)' <= 1
                   /\ \A i \in 1 .. j :
                        Ignored(i)' \/ (~Ignored(j)' /\ UpTo(i)' <= UpTo(j)')
        <5>1. \A i \in 1 .. Len(toHost') : Ignored(i)' <=> UpTo(i)' > sent
          BY <1>4 DEF Ignored
        <5>2. \A i \in 1 .. j : i \in 1 .. Len(toHost')
          BY <1>6
        <5>3. k > sent \/ k <= 1
          BY <1>1, <3>5, <4>1
        <5>4. k > sent => acked = 0
          BY <1>1, <3>5, <4>1
        <5>5. CASE j \in 1 .. Len(toHost)
          <6>1. \A i \in 1 .. j : i \in 1 .. Len(toHost)
            BY <1>6, <5>5
          <6>2. QED BY <1>1, <4>1, <4>3, <5>1, <5>2, <5>3, <5>4, <5>5, <6>1
        <5>6. CASE j \in (Len(toHost) + 1) .. Len(toHost')
          <6>1. ~Ignored(j)' /\ UpTo(j)' = 1
            BY <1>1, <4>1, <4>4, <5>1, <5>6
          <6>2. ASSUME NEW i \in 1 .. j PROVE Ignored(i)' \/ UpTo(i)' <= 1
            <7>1. CASE i \in 1 .. Len(toHost)
              BY <1>1, <4>3, <5>1, <5>2, <5>3, <7>1
            <7>2. CASE i \in (Len(toHost) + 1) .. Len(toHost')
              BY <4>4, <7>2
            <7>3. QED BY <1>6, <5>6, <7>1, <7>2
          <6>3. QED BY <6>1, <6>2
        <5>7. QED BY <1>6, <5>5, <5>6
      <4>6. QED BY <1>1, <1>4, <3>7, <4>1, <4>2, <4>5 DEF InStep
    <3>11. QED BY <3>9, <3>10 DEF Tracked
  <2>6. QED BY <2>4, <2>5
<1>11. QED BY <1>7, <1>9, <1>10 DEF IInv

LEMMA NextIInv == IInv /\ [Next]_vars => IInv'
<1> SUFFICES ASSUME IInv, [Next]_vars PROVE IInv'
  OBVIOUS
<1>1. CASE HostSend
  BY <1>1, HostSendStep
<1>2. CASE HostResend
  BY <1>2, HostResendStep
<1>3. CASE HostReceive
  BY <1>3, HostReceiveStep
<1>4. CASE DamageFrame
  BY <1>4, DamageFrameStep
<1>5. CASE LoseAnswer
  BY <1>5, LoseAnswerStep
<1>6. ASSUME NEW loses \in BOOLEAN, NEW answers \in BOOLEAN,
             AcceptFrame(loses, answers)
      PROVE  IInv'
  BY <1>6, AcceptFrameStep
<1>7. CASE RefuseFrame
  <2>1. synchronized' \in BOOLEAN
    BY <1>7 DEF RefuseFrame, mcuVars, IInv, TypeOK
  <2>2. QED BY <1>7, <2>1, NotRunStep DEF RefuseFrame, mcuVars
<1>8. CASE Resync
  BY <1>8, NotRunStep DEF Resync
<1>9. CASE DiscardGarbage
  BY <1>9, DiscardGarbageStep
<1>10. CASE Reset \/ HostRestart
  BY <1>10, NewSessionStep
<1>11. CASE UNCHANGED vars
  BY <1>11 DEF vars, hostVars, mcuVars, IInv, TypeOK, WindowKept, ChannelOrdered,
     Tracked, ExecutedInOrder, Running, InStep, OutOfDate, Ignored, UpTo
<1>12. QED
  BY <1>1, <1>2, <1>3, <1>4, <1>5, <1>6, <1>7, <1>8, <1>9, <1>10, <1>11
  DEF Next, Receive

-----------------------------------------------------------------------------
(* The theorems.                                                           *)

(* Whatever is damaged, lost, resent or answered twice, and whenever the   *)
(* host starts over: the sequence number expected is that of the frame     *)
(* behind those that ran, and every answer under way tells the host that.  *)
THEOREM Invariance == Spec => []IInv
<1>1. Init => IInv
  BY InitIInv
<1>2. IInv /\ [Next]_vars => IInv'
  BY NextIInv
<1>3. QED BY <1>1, <1>2, PTL DEF Spec

(* The expected sequence number stays in the range that the mask leaves    *)
(* it, the host never believes more received than it has sent, and only    *)
(* whole frames and well-formed answers are in the channels                *)
(* (transport.go:120-145).                                                 *)
THEOREM TypeCorrect == Spec => []TypeOK
<1>1. IInv => TypeOK
  BY DEF IInv
<1>2. QED BY <1>1, Invariance, PTL

(* The frames of a session run in order and each once, if the window is    *)
(* smaller than the range of sequence numbers: a frame that was sent again *)
(* or is left over is never taken for a later one with the same number     *)
(* (transport.go:122-141).                                                 *)
THEOREM FramesRunInOrderOnce == Spec => []InOrderOnce
<1>1. IInv => InOrderOnce
  <2> SUFFICES ASSUME IInv, ~spurious, ~unnoticed, NEW i \in DOMAIN executed
               PROVE  executed[i] = Frame(executed[1].session, i - 1)
    BY DEF InOrderOnce
  <2>1. i \in 1 .. Len(executed)
    BY DEF IInv, TypeOK
  <2>2. QED BY <2>1 DEF IInv, Tracked, ExecutedInOrder
<1>2. QED BY <1>1, Invariance, PTL

(* What the host believes received has run: no answer, old or new, given   *)
(* for a frame that ran or for one that was refused, is taken for more     *)
(* than the firmware has executed (transport.go:142-145).                  *)
THEOREM AcknowledgedWasExecuted == Spec => []AckedWereExecuted
<1>1. IInv => AckedWereExecuted
  <2> SUFFICES ASSUME IInv, ~spurious, ~unnoticed, Ran(session)
               PROVE  acked <= Len(executed)
    BY DEF AckedWereExecuted
  <2>1. PICK i \in 1 .. Len(executed) : executed[i].session = session
    BY DEF IInv, TypeOK, Ran
  <2>2. \A j \in 1 .. Len(executed) : executed[j].session = executed[1].session
    <3>1. \A s, n : Frame(s, n).session = s
      BY DEF Frame
    <3>2. \A j \in 1 .. Len(executed) : executed[j] = Frame(executed[1].session, j - 1)
      BY DEF IInv, Tracked, ExecutedInOrder
    <3>3. QED BY <3>1, <3>2
  <2>3. Running
    BY <2>1, <2>2 DEF Running
  <2>4. QED BY <2>3 DEF IInv, Tracked, InStep
<1>2. QED BY <1>1, Invariance, PTL

-----------------------------------------------------------------------------
(* The circular buffer                                                     *)

(* The i-th slot from r on, and the n bytes in the slots from r on.        *)
At(r, i) == IF r + i - 1 < Size THEN r + i - 1 ELSE r + i - 1 - Size
Walk(b, r, n) == [i \in 1 .. n |-> b[At(r, i)]]

(* Both cases of Data are the same walk around the buffer.                 *)
LEMMA DataIsWalk ==
  FifoTypeOK =>
    /\ Available \in 0 .. (Size - 1)
    /\ Data = Walk(buf, read, Available)
    /\ Data \in Seq(Bytes)
    /\ Len(Data) = Available
    /\ Data = <<>> <=> Empty
<1> SUFFICES ASSUME FifoTypeOK
             PROVE  /\ Available \in 0 .. (Size - 1)
                    /\ Data = Walk(buf, read, Available)
                    /\ Data \in Seq(Bytes)
                    /\ Len(Data) = Available
                    /\ Data = <<>> <=> Empty
  OBVIOUS
<1>1. Available \in 0 .. (Size - 1)
  BY FifoAssumption DEF FifoTypeOK, Available, Index
<1>2. Data = Walk(buf, read, Available)
  <2>1. CASE read <= write
    BY <2>1, FifoAssumption DEF FifoTypeOK, Data, Available, Index, At, Walk
  <2>2. CASE ~(read <= write)
    BY <2>2, FifoAssumption DEF FifoTypeOK, Data, Available, Index, At, Walk
  <2> QED BY <2>1, <2>2
<1>3. \A i \in 1 .. Available : At(read, i) \in Index
  BY <1>1, FifoAssumption DEF FifoTypeOK, Available, Index, At
<1>4. Data \in Seq(Bytes) /\ Len(Data) = Available
  BY <1>1, <1>2, <1>3 DEF FifoTypeOK, Walk
<1>5. Data = <<>> <=> Empty
  <2>1. Available = 0 <=> Empty
    BY FifoAssumption DEF FifoTypeOK, Available, Index, Empty
  <2>2. Data = <<>> <=> Len(Data) = 0
    BY <1>4
  <2> QED BY <1>4, <2>1, <2>2
<1> QED BY <1>1, <1>2, <1>4, <1>5

-----------------------------------------------------------------------------
LEMMA AdvanceIndex ==
  ASSUME NEW i \in Index
  PROVE  Advance(i) \in Index
BY FifoAssumption DEF Advance, Index

(* The indices stay inside the buffer whatever is written, read, popped or *)
(* reset (FifoBuffer, buffers.go:99-196).                                  *)
THEOREM FifoTypeCorrect == FifoSpec => []FifoTypeOK
<1>1. FifoInit => FifoTypeOK
  BY FifoAssumption DEF FifoInit, FifoTypeOK, Index
<1>2. FifoTypeOK /\ [FifoNext]_fifoVars => FifoTypeOK'
  <2> SUFFICES ASSUME FifoTypeOK, [FifoNext]_fifoVars
               PROVE  FifoTypeOK'
    OBVIOUS
  <2>1. ASSUME NEW b \in Bytes, WriteByte(b)
        PROVE  FifoTypeOK'
    BY <2>1, AdvanceIndex DEF FifoTypeOK, WriteByte
  <2>2. ASSUME NEW b \in Bytes, WriteFull(b)
        PROVE  FifoTypeOK'
    BY <2>2 DEF FifoTypeOK, WriteFull
  <2>3. CASE ReadByte
    BY <2>3, AdvanceIndex DEF FifoTypeOK, ReadByte
  <2>4. CASE PopByte
    BY <2>4, AdvanceIndex DEF FifoTypeOK, PopByte
  <2>5. CASE ResetFifo
    BY <2>5, FifoAssumption DEF FifoTypeOK, ResetFifo, Index
  <2>6. CASE UNCHANGED fifoVars
    BY <2>6 DEF FifoTypeOK, fifoVars
  <2> QED BY <2>1, <2>2, <2>3, <2>4, <2>5, <2>6 DEF FifoNext
<1> QED BY <1>1, <1>2, PTL DEF FifoSpec

(* Available, Free, the full test and Data always agree.                   *)
THEOREM CountsAlwaysAgree == FifoSpec => []CountsAgree
<1>1. FifoTypeOK => CountsAgree
  <2> SUFFICES ASSUME FifoTypeOK
               PROVE  CountsAgree
    OBVIOUS
  <2>1. Len(Data) = Available /\ Available \in 0 .. (Size - 1)
    BY DataIsWalk
  <2>2. Free \in 0 .. (Size - 1) /\ (Free = 0 <=> Full)
    BY FifoAssumption DEF FifoTypeOK, Free, Available, Full, Advance, Index
  <2> QED BY <2>1, <2>2 DEF CountsAgree
<1> QED BY <1>1, FifoTypeCorrect, PTL

-----------------------------------------------------------------------------
(* A stored byte is the youngest of the queue.                             *)
LEMMA WriteAppends ==
  ASSUME FifoTypeOK, FifoTypeOK', NEW b \in Bytes, WriteByte(b)
  PROVE  Len(Data) < Size - 1 /\ Data' = Append(Data, b)
<1> DEFINE n == Available
           m == Available'
           bufm == buf'
<1>1. /\ n \in 0 .. (Size - 2) /\ m = n + 1
      /\ write = At(read, n + 1) /\ read' = read
  BY FifoAssumption
  DEF FifoTypeOK, WriteByte, Available, Full, Advance, Index, At
<1>2. Data' = Walk(bufm, read, m)
  <2>1. FifoTypeOK' => (Data = Walk(buf, read, Available))'
    BY DataIsWalk, PTL
  <2> QED BY <1>1, <2>1 DEF Walk
<1>3. Data = Walk(buf, read, n) /\ Data \in Seq(Bytes) /\ Len(Data) = n
  BY DataIsWalk
<1>4. bufm = [buf EXCEPT ![write] = b]
  BY DEF WriteByte
<1> HIDE DEF n, m, bufm
<1>5. ASSUME NEW i \in 1 .. n
      PROVE  At(read, i) \in Index /\ At(read, i) # write
  BY <1>1, FifoAssumption DEF FifoTypeOK, Index, At
<1>6. Walk(bufm, read, m) = Append(Walk(buf, read, n), b)
  <2>1. Append(Walk(buf, read, n), b) =
          [i \in 1 .. (n + 1) |-> IF i <= n THEN buf[At(read, i)] ELSE b]
    BY <1>1, <1>3, FifoAssumption DEF Walk
  <2>2. ASSUME NEW i \in 1 .. (n + 1)
        PROVE  bufm[At(read, i)] = IF i <= n THEN buf[At(read, i)] ELSE b
    BY <1>1, <1>4, <1>5, FifoAssumption DEF FifoTypeOK
  <2> QED BY <1>1, <2>1, <2>2 DEF Walk
<1> QED BY <1>1, <1>2, <1>3, <1>6, FifoAssumption

(* A popped byte is the oldest of the queue.                               *)
LEMMA AdvanceDrops ==
  ASSUME FifoTypeOK, FifoTypeOK', ~Empty,
         read' = Advance(read), UNCHANGED <<buf, write>>
  PROVE  Data # <<>> /\ Head(Data) = buf[read] /\ Data' = Tail(Data)
<1> DEFINE n == Available
           m == Available'
           readm == read'
<1>1. n \in 1 .. (Size - 1) /\ m = n - 1 /\ readm = Advance(read)
  BY FifoAssumption DEF FifoTypeOK, Available, Empty, Advance, Index
<1>2. Data' = Walk(buf, readm, m)
  <2>1. FifoTypeOK' => (Data = Walk(buf, read, Available))'
    BY DataIsWalk, PTL
  <2> QED BY <2>1 DEF Walk
<1>3. /\ Data = Walk(buf, read, n) /\ Data \in Seq(Bytes)
      /\ Len(Data) = n /\ Data # <<>>
  BY DataIsWalk
<1> HIDE DEF n, m, readm
<1>4. ASSUME NEW i \in 1 .. m
      PROVE  At(readm, i) = At(read, i + 1)
  BY <1>1, FifoAssumption DEF FifoTypeOK, Advance, Index, At
<1>5. At(read, 1) = read
  BY FifoAssumption DEF FifoTypeOK, Index, At
<1>6. /\ Tail(Data) \in Seq(Bytes) /\ Len(Tail(Data)) = m
      /\ \A i \in 1 .. m : Tail(Data)[i] = Data[i + 1]
  <2>1. /\ Tail(Data) \in Seq(Bytes) /\ Len(Tail(Data)) = Len(Data) - 1
        /\ \A i \in 1 .. Len(Tail(Data)) : Tail(Data)[i] = Data[i + 1]
    BY <1>3, HeadTailProperties
  <2> QED BY <1>1, <1>3, <2>1
<1>7. ASSUME NEW i \in 1 .. m
      PROVE  Data[i + 1] = buf[At(readm, i)]
  BY <1>1, <1>3, <1>4, FifoAssumption DEF Walk
<1>8. Walk(buf, readm, m) = Tail(Data)
  <2>1. Tail(Data) = [i \in 1 .. m |-> Tail(Data)[i]]
    BY <1>6, LenProperties
  <2> QED BY <1>6, <1>7, <2>1 DEF Walk
<1>9. Head(Data) = buf[read]
  BY <1>1, <1>3, <1>5, FifoAssumption DEF Walk
<1> QED BY <1>2, <1>3, <1>8, <1>9

(* The circular buffer implements ByteQueue: bytes come out in the order   *)
(* they went in, none lost, repeated or overwritten, and one is refused    *)
(* only when Size - 1 are waiting.                                         *)
THEOREM FifoRefinement == FifoSpec => ImplementsByteQueue
<1>1. ASSUME FifoInit, FifoTypeOK
      PROVE  Queue!Init
  <2>1. Data = <<>>
    BY <1>1, DataIsWalk DEF FifoInit, Empty
  <2> QED BY <1>1, <2>1 DEF FifoInit, FifoTypeOK, Queue!Init
<1>2. ASSUME FifoTypeOK, FifoTypeOK', [FifoNext]_fifoVars
      PROVE  [Queue!Next]_(Queue!vars)
  <2>1. ASSUME NEW b \in Bytes, WriteByte(b)
        PROVE  Queue!Put(b)
    <3>1. Len(Data) < Size - 1 /\ Data' = Append(Data, b)
      BY <1>2, <2>1, WriteAppends
    <3> QED BY <2>1, <3>1 DEF WriteByte, Queue!Put
  <2>2. ASSUME NEW b \in Bytes, WriteFull(b)
        PROVE  Queue!Refuse(b)
    <3>1. Available = Size - 1
      BY <1>2, <2>2, FifoAssumption
      DEF FifoTypeOK, WriteFull, Available, Full, Advance, Index
    <3>2. Data' = Data
      BY <2>2 DEF WriteFull, Data, Available
    <3> QED BY <1>2, <2>2, <3>1, <3>2, DataIsWalk DEF WriteFull, Queue!Refuse
  <2>3. ASSUME ReadByte PROVE Queue!Take
    <3>1. Data # <<>> /\ Head(Data) = buf[read] /\ Data' = Tail(Data)
      BY <1>2, <2>3, AdvanceDrops DEF ReadByte
    <3> QED BY <2>3, <3>1 DEF ReadByte, Queue!Take
  <2>4. ASSUME PopByte PROVE Queue!Drop
    <3>1. Data # <<>> /\ Data' = Tail(Data)
      BY <1>2, <2>4, AdvanceDrops DEF PopByte
    <3> QED BY <2>4, <3>1 DEF PopByte, Queue!Drop
  <2>5. ASSUME ResetFifo PROVE Queue!Clear
    <3>1. Data' = <<>>
      <4>1. Empty' BY <2>5 DEF ResetFifo, Empty
      <4>2. FifoTypeOK' => (Data = <<>> <=> Empty)'
        BY DataIsWalk, PTL
      <4> QED BY <1>2, <4>1, <4>2
    <3> QED BY <2>5, <3>1 DEF ResetFifo, Queue!Clear
  <2>6. CASE UNCHANGED fifoVars
    <3>1. Data' = Data
      BY <2>6 DEF fifoVars, Data, Available
    <3> QED BY <2>6, <3>1 DEF fifoVars, Queue!vars
  <2> QED BY <1>2, <2>1, <2>2, <2>3, <2>4, <2>5, <2>6 DEF FifoNext, Queue!Next
<1> QED BY <1>1, <1>2, FifoTypeCorrect, PTL DEF FifoSpec, ImplementsByteQueue, Queue!Spec
=============================================================================
