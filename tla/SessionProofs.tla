---------------------------- MODULE SessionProofs --------------------------
(***************************************************************************)
(* Theorems about Session, for every size of chunks and buffers and every  *)
(* number of failures, panics and host sessions.                           *)
(***************************************************************************)
EXTENDS Session, SequenceTheorems, TLAPS

Items == [kind : {"ack", "chunk", "other", "fragment"}, arg : Nat, session : Nat]
Commands == {"identify", "finalize", "reset", "queries", "spoiled"}
Frames == [seq : 0 .. (SeqRange - 1), command : Commands, offset : Nat]

(* Nothing in items is of a session before.                                *)
Current(items) == \A i \in DOMAIN items : items[i].session \in {0, session}

LEMMA Parameters ==
  /\ LengthRange \in Nat /\ LengthRange > 0 /\ Count \in Nat /\ Count > 0
  /\ SeqRange \in Nat /\ SeqRange > 0 /\ Room \in Nat /\ Room > 0
  /\ MaxFailures \in Nat /\ MaxFaults \in Nat /\ MaxSessions \in Nat
  /\ MaxInFlight \in Nat
BY SessionAssumption

LEMMA NextSeqType ==
  ASSUME NEW n \in 0 .. (SeqRange - 1)
  PROVE  NextSeq(n) \in 0 .. (SeqRange - 1)
BY Parameters DEF NextSeq

LEMMA FragmentItem == Fragment \in Items /\ Fragment.session = 0
BY DEF Fragment, Items

-----------------------------------------------------------------------------
(* What goes through the output buffer                                     *)

(* What comes into the buffer is what was put out, up to where it is full. *)
LEMMA OutputsFit ==
  ASSUME NEW items \in Seq(Items), NEW buf \in Outputs(items)
  PROVE  /\ buf \in Seq(Items) /\ Len(buf) <= Room
         /\ items # <<>> => buf # <<>>
         /\ Current(items) => Current(buf)
<1>1. CASE Len(items) <= Room
  BY <1>1 DEF Outputs
<1>2. CASE ~(Len(items) <= Room)
  <2> DEFINE n == Room - 1
  <2>1. Room \in 1 .. Len(items) /\ Len(items) \in Nat
    BY <1>2, Parameters, LenProperties
  <2>2. /\ SubSeq(items, 1, Room) \in Seq(Items) /\ Len(SubSeq(items, 1, Room)) = Room
        /\ \A i \in 1 .. Room : SubSeq(items, 1, Room)[i] = items[i]
    BY <2>1, SubSeqProperties
  <2>3. /\ SubSeq(items, 1, n) \in Seq(Items) /\ Len(SubSeq(items, 1, n)) = n
        /\ \A i \in 1 .. n : SubSeq(items, 1, n)[i] = items[i]
    BY <2>1, SubSeqProperties
  <2> DEFINE cut == SubSeq(items, 1, n)
             last == cut \o <<Fragment>>
  <2>4. <<Fragment>> \in Seq(Items) /\ Len(<<Fragment>>) = 1
    BY FragmentItem
  <2>5. n \in Nat
    BY <2>1
  <2> HIDE DEF n, cut
  <2>6. cut \in Seq(Items) /\ Len(cut) = n /\ \A i \in 1 .. n : cut[i] = items[i]
    BY <2>3 DEF cut
  <2>7. /\ last \in Seq(Items) /\ Len(last) = n + 1
        /\ \A i \in 1 .. n : last[i] = items[i]
        /\ last[n + 1] = Fragment
    BY <2>4, <2>5, <2>6, ConcatProperties
  <2> HIDE DEF last
  <2>8. Outputs(items) = {SubSeq(items, 1, Room), last}
    BY <1>2 DEF Outputs, last, cut, n
  <2>9. DOMAIN items = 1 .. Len(items)
    BY LenProperties
  <2>10. CASE buf = SubSeq(items, 1, Room)
    <3>1. buf \in Seq(Items) /\ Len(buf) = Room /\ DOMAIN buf = 1 .. Room
      BY <2>2, <2>10, LenProperties
    <3>2. ASSUME Current(items) PROVE Current(buf)
      BY <2>1, <2>2, <2>9, <2>10, <3>1, <3>2 DEF Current
    <3>3. QED BY <2>1, <3>1, <3>2
  <2>11. CASE buf = last
    <3>1. buf \in Seq(Items) /\ Len(buf) = n + 1 /\ DOMAIN buf = 1 .. (n + 1)
      BY <2>7, <2>11, LenProperties
    <3>2. n + 1 = Room
      BY <2>1 DEF n
    <3>3. ASSUME Current(items), NEW i \in DOMAIN buf
          PROVE  buf[i].session \in {0, session}
      <4>1. CASE i = n + 1
        BY <2>7, <2>11, <4>1, FragmentItem
      <4>2. CASE i # n + 1
        <5>1. i \in 1 .. n /\ i \in DOMAIN items
          BY <2>1, <2>5, <2>9, <3>1, <3>2, <3>3, <4>2
        <5>2. QED BY <2>7, <2>11, <3>3, <5>1 DEF Current
      <4>3. QED BY <4>1, <4>2
    <3>4. QED BY <2>1, <3>1, <3>2, <3>3 DEF Current
  <2>12. QED BY <2>8, <2>10, <2>11
<1>3. QED BY <1>1, <1>2

(* Two sequences of items, one behind the other.                           *)
LEMMA Joined ==
  ASSUME NEW s \in Seq(Items), NEW t \in Seq(Items)
  PROVE  /\ s \o t \in Seq(Items)
         /\ Len(s \o t) = Len(s) + Len(t)
         /\ \A i \in 1 .. Len(s) + Len(t) :
              (s \o t)[i] = IF i <= Len(s) THEN s[i] ELSE t[i - Len(s)]
BY ConcatProperties

(* Whatever of the buffer a write gets through is the beginning of it, and *)
(* perhaps a fragment.                                                     *)
Behind(buf) ==
  \A i \in DOMAIN toHost' : i > Len(toHost) =>
    \/ toHost'[i] = Fragment
    \/ \E j \in DOMAIN buf : toHost'[i] = buf[j]

Channels ==
  /\ toHost \in Seq(Items) /\ Len(toHost) <= MaxInFlight
  /\ toMcu \in Seq(Frames) /\ Len(toMcu) <= 2

LEMMA ClearedType ==
  ASSUME NEW input \in Seq(Frames)
  PROVE  Cleared(input) \in Seq(Frames) /\ Len(Cleared(input)) = Len(input)
<1>1. CASE input = <<>>
  BY <1>1 DEF Cleared
<1>2. CASE input # <<>>
  <2> DEFINE f == [Head(input) EXCEPT !.command = "spoiled"]
  <2>1. Head(input) \in Frames /\ Tail(input) \in Seq(Frames) /\ Len(Tail(input)) = Len(input) - 1
        /\ Len(input) \in Nat
    BY <1>2, HeadTailProperties, LenProperties
  <2>2. f \in Frames
    BY <2>1 DEF Frames, Commands
  <2> HIDE DEF f
  <2>3. <<f>> \in Seq(Frames) /\ Len(<<f>>) = 1
    BY <2>2
  <2>4. <<f>> \o Tail(input) \in Seq(Frames) /\ Len(<<f>> \o Tail(input)) = 1 + Len(Tail(input))
    BY <2>1, <2>3, ConcatProperties
  <2>5. Cleared(input) = <<f>> \o Tail(input)
    BY <1>2 DEF Cleared, f
  <2>6. QED BY <2>1, <2>4, <2>5
<1>3. QED BY <1>1, <1>2

LEMMA WriteAppends ==
  ASSUME NEW buf \in Seq(Items), NEW k \in 0 .. Len(buf),
         NEW rest \in {<<>>, <<Fragment>>},
         toHost \in Seq(Items), k + Len(rest) <= Len(buf),
         Len(toHost) + Len(buf) <= MaxInFlight,
         toHost' = toHost \o SubSeq(buf, 1, k) \o rest
  PROVE  /\ toHost' \in Seq(Items) /\ Len(toHost') <= MaxInFlight
         /\ Behind(buf)
<1> DEFINE part == SubSeq(buf, 1, k)
           n == Len(toHost)
           most == toHost \o part
<1>1. Len(buf) \in Nat /\ n \in Nat /\ k \in Nat
  BY LenProperties
<1>2. part \in Seq(Items) /\ Len(part) = k /\ \A i \in 1 .. k : part[i] = buf[i]
  BY <1>1, SubSeqProperties
<1> HIDE DEF part
<1>3. rest \in Seq(Items) /\ Len(rest) \in {0, 1} /\ (Len(rest) = 1 => rest[1] = Fragment)
  <2>1. CASE rest = <<>>
    BY <2>1
  <2>2. CASE rest = <<Fragment>>
    BY <2>2, FragmentItem
  <2>3. QED BY <2>1, <2>2
<1>4. /\ most \in Seq(Items) /\ Len(most) = n + k
      /\ \A i \in 1 .. (n + k) : i > n => most[i] = part[i - n]
  <2>1. /\ toHost \o part \in Seq(Items)
        /\ Len(toHost \o part) = Len(toHost) + Len(part)
        /\ \A i \in 1 .. Len(toHost) + Len(part) :
             (toHost \o part)[i] = IF i <= Len(toHost) THEN toHost[i]
                                   ELSE part[i - Len(toHost)]
    BY <1>2, Joined
  <2> HIDE DEF most, n
  <2>2. QED BY <1>1, <1>2, <2>1 DEF most, n
<1> HIDE DEF most, n
<1>5. toHost' = most \o rest
  BY DEF most, part
<1>6. /\ toHost' \in Seq(Items) /\ Len(toHost') = n + k + Len(rest)
      /\ DOMAIN toHost' = 1 .. (n + k + Len(rest))
      /\ \A i \in 1 .. (n + k + Len(rest)) :
           toHost'[i] = IF i <= n + k THEN most[i] ELSE rest[i - (n + k)]
  <2>1. /\ most \o rest \in Seq(Items) /\ Len(most \o rest) = Len(most) + Len(rest)
        /\ \A i \in 1 .. Len(most) + Len(rest) :
             (most \o rest)[i] = IF i <= Len(most) THEN most[i] ELSE rest[i - Len(most)]
    <3>1. most \in Seq(Items) /\ rest \in Seq(Items)
      BY <1>3, <1>4
    <3>2. QED BY <3>1, Joined
  <2>2. QED BY <1>4, <1>5, <2>1, LenProperties
<1>7. ASSUME NEW i \in DOMAIN toHost', i > n
      PROVE  toHost'[i] = Fragment \/ \E j \in DOMAIN buf : toHost'[i] = buf[j]
  <2>1. CASE i <= n + k
    <3>1. i \in 1 .. (n + k) /\ i - n \in 1 .. k /\ i \in 1 .. (n + k + Len(rest))
      BY <1>1, <1>3, <1>6, <1>7, <2>1
    <3>2. toHost'[i] = buf[i - n]
      BY <1>2, <1>4, <1>6, <1>7, <2>1, <3>1
    <3>3. i - n \in DOMAIN buf
      BY <1>1, <3>1, LenProperties
    <3>4. QED BY <3>2, <3>3
  <2>2. CASE ~(i <= n + k)
    <3>1. i - (n + k) = 1 /\ Len(rest) = 1 /\ i \in 1 .. (n + k + Len(rest))
      BY <1>1, <1>3, <1>6, <1>7, <2>2
    <3>2. QED BY <1>3, <1>6, <2>2, <3>1
  <2>3. QED BY <2>1, <2>2
<1>8. Len(toHost') <= MaxInFlight
  BY <1>1, <1>3, <1>6, Parameters DEF n
<1>9. QED BY <1>6, <1>7, <1>8 DEF Behind, n

LEMMA Writes ==
  ASSUME NEW buf \in Seq(Items), Len(buf) <= Room,
         NEW failures \in 0 .. MaxFailures, NEW down \in BOOLEAN,
         NEW input \in Seq(Frames), Len(input) <= 2,
         toHost \in Seq(Items), WriteUSB(buf, failures, input, down)
  PROVE  /\ Channels' /\ Behind(buf)
         /\ outputBuffer' \in {<<>>, buf}
         /\ consecutiveWriteFailures' \in 0 .. MaxFailures
         /\ usbWasDisconnected' \in BOOLEAN
<1>1. Len(toHost) + Len(buf) <= MaxInFlight
  BY DEF WriteUSB
<1>2. Len(buf) \in Nat
  BY LenProperties
<1>3. CASE /\ toHost' = toHost \o buf /\ outputBuffer' = <<>>
           /\ consecutiveWriteFailures' = 0 /\ usbWasDisconnected' = down
           /\ toMcu' = input
  <2>1. toHost' = toHost \o SubSeq(buf, 1, Len(buf)) \o <<>>
    <3>1. SubSeq(buf, 1, Len(buf)) = buf
      BY SubSeqFull
    <3>2. toHost \o buf \in Seq(Items)
      BY ConcatProperties
    <3>3. toHost \o buf \o <<>> = toHost \o buf
      BY <3>2, ConcatEmptySeq
    <3>4. QED BY <1>3, <3>1, <3>3
  <2>2. toHost' \in Seq(Items) /\ Len(toHost') <= MaxInFlight /\ Behind(buf)
    <3>1. Len(buf) \in 0 .. Len(buf) /\ Len(buf) + Len(<<>>) <= Len(buf)
      BY <1>2
    <3>2. QED BY <1>1, <2>1, <3>1, WriteAppends
  <2>3. QED BY <1>3, <2>2, Parameters DEF Channels
<1>4. CASE
        /\ \E k \in 0 .. Len(buf) - 1, rest \in {<<>>, <<Fragment>>} :
             toHost' = toHost \o SubSeq(buf, 1, k) \o rest
        /\ IF failures + 1 > MaxFailures
           THEN /\ usbWasDisconnected' = TRUE
                /\ consecutiveWriteFailures' = 0
                /\ outputBuffer' = <<>>
                /\ toMcu' \in {input, Cleared(input)}
           ELSE /\ usbWasDisconnected' = down
                /\ consecutiveWriteFailures' = failures + 1
                /\ outputBuffer' = buf
                /\ toMcu' = input
  <2>1. toHost' \in Seq(Items) /\ Len(toHost') <= MaxInFlight /\ Behind(buf)
    <3>1. PICK k \in 0 .. Len(buf) - 1, rest \in {<<>>, <<Fragment>>} :
            toHost' = toHost \o SubSeq(buf, 1, k) \o rest
      BY <1>4
    <3>2. k \in 0 .. Len(buf) /\ k + Len(rest) <= Len(buf)
      <4>1. CASE rest = <<>>
        BY <1>2, <4>1
      <4>2. CASE rest = <<Fragment>>
        BY <1>2, <4>2
      <4>3. QED BY <3>1, <4>1, <4>2
    <3>3. QED BY <1>1, <3>1, <3>2, WriteAppends
  <2>2. toMcu' \in Seq(Frames) /\ Len(toMcu') <= 2
    <3>1. toMcu' \in {input, Cleared(input)}
      BY <1>4
    <3>2. QED BY <3>1, ClearedType
  <2>3. /\ outputBuffer' \in {<<>>, buf}
        /\ consecutiveWriteFailures' \in 0 .. MaxFailures
    BY <1>4, Parameters
  <2>4. usbWasDisconnected' \in BOOLEAN
    BY <1>4
  <2>5. QED BY <2>1, <2>2, <2>3, <2>4 DEF Channels
<1>5. QED BY <1>3, <1>4, Zenon DEF WriteUSB

-----------------------------------------------------------------------------
(* The inductive invariant                                                 *)

LoopState ==
  /\ loop \in {"boot", "read", "write", "check", "timers"}
  /\ nextSequence \in 0 .. (SeqRange - 1)
  /\ outputBuffer \in Seq(Items) /\ Len(outputBuffer) <= Room
  /\ consecutiveWriteFailures \in 0 .. MaxFailures
  /\ usbWasDisconnected \in BOOLEAN

HostState ==
  /\ session \in Nat
  /\ number \in 0 .. (SeqRange - 1)
  /\ waiting \in Frames \union {Nothing, Gone}
  /\ done \in BOOLEAN /\ garbled \in BOOLEAN
  /\ noticed \in BOOLEAN /\ outOfStep \in BOOLEAN

(* A reset is pending only until the loop has written and looked, and its  *)
(* ACK is owed only while it is in the buffer that is written next.        *)
Pending ==
  /\ resetPending \in BOOLEAN
  /\ resetAck \in {"none", "owed", "sent", "lost"}
  /\ resetAck # "none" <=> resetPending
  /\ resetPending => loop \in {"write", "check"}
  /\ resetAck = "owed" => loop = "write" /\ outputBuffer # <<>>

(* A firmware that noticed the session has nothing of the one before.      *)
Fresh ==
  /\ configCRC \in 0 .. session
  /\ noticed => configCRC \in {0, session} /\ Current(outputBuffer)

(* A name is registered once.                                              *)
Registered ==
  /\ \E b \in Boots :
       /\ registry \in Seq(Range(b)) /\ unregistered \in Seq(Range(b))
       /\ Len(registry) + Len(unregistered) <= Len(b)
  /\ \A i, j \in DOMAIN registry : registry[i].name = registry[j].name => i = j

(* Nobody is answered before the dictionary is built.                      *)
Built ==
  \/ /\ loop = "boot"
     /\ cachedDict = <<>> /\ toHost = <<>> /\ dict = <<>> /\ done = FALSE
  \/ /\ loop # "boot"
     /\ \E d \in [DOMAIN registry -> {Entry(registry, i) : i \in DOMAIN registry}] :
          BuildJSON(d, registry) /\ cachedDict = Compress(d)

(* The host has the beginning of the dictionary, or all of it.             *)
Prefix ==
  /\ dict \in Seq(Range(cachedDict)) /\ Len(dict) <= Len(cachedDict)
  /\ dict = SubSeq(cachedDict, 1, Len(dict))
  /\ done => dict = cachedDict

Fetched == Registered /\ Built /\ Prefix

IInv == LoopState /\ HostState /\ Channels /\ Pending /\ Fresh /\ Fetched

(* What a step says to the host.                                           *)
Said ==
  noticed' => \A i \in DOMAIN toHost' :
                i > Len(toHost) => toHost'[i].session \in {0, session'}

LEMMA SameFetched ==
  ASSUME Fetched, UNCHANGED bootVars, UNCHANGED <<dict, done>>,
         \/ loop # "boot" /\ loop' # "boot"
         \/ UNCHANGED <<loop, toHost>>
  PROVE  Fetched'
<1>1. Registered'
  BY DEF Fetched, Registered, bootVars
<1>2. Built'
  BY DEF Fetched, Built, bootVars
<1>3. Prefix'
  BY DEF Fetched, Prefix, bootVars
<1>4. QED BY <1>1, <1>2, <1>3 DEF Fetched

LEMMA EmptyPrefix ==
  ASSUME NEW s, s \in Seq(Range(s))
  PROVE  /\ <<>> \in Seq(Range(s)) /\ Len(<<>>) <= Len(s)
         /\ <<>> = SubSeq(s, 1, Len(<<>>))
<1>1. Len(s) \in Nat
  BY LenProperties
<1>2. SubSeq(s, 1, 0) = <<>>
  BY SubSeqEmpty
<1>3. QED BY <1>1, <1>2

(* What is stored in one block, and what the host makes of it.             *)
LEMMA Stored ==
  ASSUME NEW S, NEW d \in Seq(S)
  PROVE  /\ Compress(d) \in Seq(Range(Compress(d)))
         /\ Len(d) < LengthRange => Inflate(Compress(d)) = d
<1> DEFINE head == [length |-> Len(d) % LengthRange]
           end == [adler |-> 0]
           All == S \union {head, end}
           data == <<head>> \o d
           c == Compress(d)
<1>1. Len(d) \in Nat /\ \A i \in 1 .. Len(d) : d[i] \in S
  BY LenProperties
<1>2. /\ d \in Seq(All) /\ <<head>> \in Seq(All) /\ <<end>> \in Seq(All)
      /\ Len(<<head>>) = 1 /\ Len(<<end>>) = 1 /\ <<head>>[1] = head
  <2>1. d \in Seq(All)
    <3>1. d \in [1 .. Len(d) -> All]
      BY <1>1, LenProperties
    <3>2. QED BY <1>1, <3>1
  <2>2. QED BY <2>1
<1>3. c = data \o <<end>>
  BY DEF Compress
<1> HIDE DEF head, end, All, c
<1>4. /\ data \in Seq(All) /\ Len(data) = 1 + Len(d)
      /\ data[1] = head
      /\ \A i \in 2 .. 1 + Len(d) : data[i] = d[i - 1]
  <2>1. /\ <<head>> \o d \in Seq(All) /\ Len(<<head>> \o d) = Len(<<head>>) + Len(d)
        /\ \A i \in 1 .. Len(<<head>>) + Len(d) :
             (<<head>> \o d)[i] = IF i <= Len(<<head>>) THEN <<head>>[i]
                                  ELSE d[i - Len(<<head>>)]
    BY <1>2, ConcatProperties
  <2>2. QED BY <1>1, <1>2, <2>1
<1> HIDE DEF data
<1>5. /\ c \in Seq(All) /\ Len(c) = 2 + Len(d)
      /\ \A i \in 1 .. 1 + Len(d) : c[i] = data[i]
  <2>1. /\ data \o <<end>> \in Seq(All) /\ Len(data \o <<end>>) = Len(data) + Len(<<end>>)
        /\ \A i \in 1 .. Len(data) + Len(<<end>>) :
             (data \o <<end>>)[i] = IF i <= Len(data) THEN data[i]
                                    ELSE <<end>>[i - Len(data)]
    BY <1>2, <1>4, ConcatProperties
  <2>2. QED BY <1>1, <1>2, <1>3, <1>4, <2>1
<1>6. c \in Seq(Range(c))
  <2>1. c \in [1 .. Len(c) -> Range(c)] /\ Len(c) \in Nat
    <3>1. c \in [1 .. Len(c) -> All] /\ Len(c) \in Nat
      BY <1>5, LenProperties
    <3>2. QED BY <3>1 DEF Range
  <2>2. QED BY <2>1
<1>7. ASSUME Len(d) < LengthRange PROVE Inflate(c) = d
  <2>1. Len(d) % LengthRange = Len(d)
    BY <1>1, <1>7, Parameters
  <2>2. c[1].length = Len(d)
    BY <1>1, <1>4, <1>5, <2>1 DEF head
  <2>3. Inflate(c) = SubSeq(c, 2, 1 + Len(d))
    BY <2>2 DEF Inflate
  <2>4. \A i \in 2 .. 1 + Len(d) : c[i] = d[i - 1] /\ c[i] \in All
    BY <1>1, <1>4, <1>5
  <2>5. /\ SubSeq(c, 2, 1 + Len(d)) \in Seq(All)
        /\ Len(SubSeq(c, 2, 1 + Len(d))) = Len(d)
        /\ \A i \in 1 .. Len(d) : SubSeq(c, 2, 1 + Len(d))[i] = d[i]
    <3>1. 2 \in Int /\ 1 + Len(d) \in Int
      BY <1>1
    <3>2. /\ SubSeq(c, 2, 1 + Len(d)) \in Seq(All)
          /\ Len(SubSeq(c, 2, 1 + Len(d))) = IF 2 <= 1 + Len(d) THEN 1 + Len(d) - 2 + 1 ELSE 0
          /\ \A i \in 1 .. (1 + Len(d) - 2 + 1) :
               SubSeq(c, 2, 1 + Len(d))[i] = c[2 + i - 1]
      BY <2>4, <3>1, SubSeqProperties
    <3>3. QED BY <1>1, <2>4, <3>2
  <2>6. /\ SubSeq(c, 2, 1 + Len(d)) \in [1 .. Len(d) -> All]
        /\ d \in [1 .. Len(d) -> S]
    BY <2>5, LenProperties
  <2>7. SubSeq(c, 2, 1 + Len(d)) = d
    BY <2>5, <2>6
  <2>8. QED BY <2>3, <2>7
<1>8. QED BY <1>6, <1>7 DEF c

LEMMA BuiltType ==
  ASSUME NEW r, NEW T, r \in Seq(T),
         NEW d \in [DOMAIN r -> {Entry(r, i) : i \in DOMAIN r}]
  PROVE  d \in Seq({Entry(r, i) : i \in DOMAIN r}) /\ Len(d) = Len(r)
<1>1. DOMAIN r = 1 .. Len(r) /\ Len(r) \in Nat
  BY LenProperties
<1>2. QED BY <1>1

LEMMA DictionaryType ==
  ASSUME Fetched PROVE cachedDict \in Seq(Range(cachedDict))
<1>1. CASE loop = "boot"
  BY <1>1 DEF Fetched, Built
<1>2. CASE loop # "boot"
  <2>1. PICK d \in [DOMAIN registry -> {Entry(registry, i) : i \in DOMAIN registry}] :
          cachedDict = Compress(d)
    BY <1>2 DEF Fetched, Built
  <2>2. d \in Seq({Entry(registry, i) : i \in DOMAIN registry})
    BY BuiltType DEF Fetched, Registered
  <2>3. QED BY <2>1, <2>2, Stored
<1>3. QED BY <1>1, <1>2

LEMMA InitIInv == Init => IInv
<1> SUFFICES ASSUME Init PROVE IInv
  OBVIOUS
<1> USE DEF Init
<1>1. LoopState
  <2>1. /\ nextSequence \in 0 .. (SeqRange - 1)
        /\ consecutiveWriteFailures \in 0 .. MaxFailures
        /\ outputBuffer \in Seq(Items) /\ Len(outputBuffer) <= Room
    BY Parameters
  <2>2. usbWasDisconnected \in BOOLEAN /\ loop = "boot"
    OBVIOUS
  <2>3. QED BY <2>1, <2>2 DEF LoopState
<1>2. HostState
  <2>1. session \in Nat /\ number \in 0 .. (SeqRange - 1)
    BY Parameters
  <2>2. /\ done \in BOOLEAN /\ garbled \in BOOLEAN
        /\ noticed \in BOOLEAN /\ outOfStep \in BOOLEAN
    OBVIOUS
  <2>3. QED BY <2>1, <2>2 DEF HostState
<1>3. Channels
  BY Parameters DEF Channels
<1>4. Pending
  BY DEF Pending
<1>5. Fresh
  BY DEF Fresh, Current
<1>6. Fetched
  <2>1. PICK b \in Boots : unregistered = b
    OBVIOUS
  <2>2. b \in Seq(Range(b)) /\ Len(b) \in Nat
    BY SessionAssumption, LenProperties
  <2>3. registry \in Seq(Range(b)) /\ Len(registry) = 0
    OBVIOUS
  <2>4. Registered
    BY <2>1, <2>2, <2>3 DEF Registered
  <2>5. Built
    BY DEF Built
  <2>6. cachedDict \in Seq(Range(cachedDict))
    OBVIOUS
  <2>7. Prefix
    BY <2>6, EmptyPrefix DEF Prefix
  <2>8. QED BY <2>4, <2>5, <2>7 DEF Fetched
<1>7. QED BY <1>1, <1>2, <1>3, <1>4, <1>5, <1>6 DEF IInv

-----------------------------------------------------------------------------
(* The host                                                                *)

(* The host's steps leave the firmware alone.                              *)
LEMMA FirmwareAlone ==
  ASSUME LoopState, UNCHANGED fwVars
  PROVE  LoopState'
BY DEF LoopState, fwVars

LEMMA PendingAlone ==
  ASSUME Pending, UNCHANGED fwVars, UNCHANGED resetAck
  PROVE  Pending'
BY DEF Pending, fwVars

LEMMA FreshAlone ==
  ASSUME Fresh, UNCHANGED <<configCRC, outputBuffer, session, noticed>>
  PROVE  Fresh'
BY DEF Fresh, Current

LEMMA SaysNothing == UNCHANGED toHost /\ toHost \in Seq(Items) => Said
<1> SUFFICES ASSUME toHost' = toHost, toHost \in Seq(Items), NEW i \in DOMAIN toHost',
                    i > Len(toHost)
             PROVE  FALSE
  BY DEF Said
<1>1. Len(toHost) \in Nat /\ DOMAIN toHost = 1 .. Len(toHost)
  BY LenProperties
<1>2. QED BY <1>1

LEMMA HostSendStep == IInv /\ HostSend => IInv' /\ Said
<1> SUFFICES ASSUME IInv, HostSend PROVE IInv' /\ Said
  OBVIOUS
<1> USE DEF HostSend, IInv
<1>1. Len(dict) \in Nat
  BY LenProperties DEF Fetched, Prefix
<1>2. PICK c \in HostCommands :
        waiting' = [seq |-> number, command |-> c, offset |-> Len(dict)]
  OBVIOUS
<1>3. c \in Commands
  BY DEF HostCommands, Commands
<1>4. waiting' \in Frames
  BY <1>1, <1>2, <1>3 DEF HostState, Frames
<1>5. toMcu' \in Seq(Frames) /\ Len(toMcu') <= 2
  BY <1>4
<1>6. HostState'
  BY <1>4 DEF HostState, histVars
<1>7. Channels'
  BY <1>5 DEF Channels
<1>8. Fetched'
  BY SameFetched DEF fwVars
<1>9. Fresh'
  BY FreshAlone DEF fwVars, histVars
<1>10. Pending' /\ LoopState'
  BY FirmwareAlone, PendingAlone DEF histVars
<1>11. Said
  BY SaysNothing DEF Channels
<1>12. QED BY <1>6, <1>7, <1>8, <1>9, <1>10, <1>11

LEMMA HostResendStep == IInv /\ HostResend => IInv' /\ Said
<1> SUFFICES ASSUME IInv, HostResend PROVE IInv' /\ Said
  OBVIOUS
<1> USE DEF HostResend, IInv
<1>1. waiting \in Frames
  BY DEF HostState
<1>2. toMcu' \in Seq(Frames) /\ Len(toMcu') <= 2
  <2>1. toMcu \in Seq(Frames) /\ Len(toMcu) \in Nat /\ Len(toMcu) < 2
    BY LenProperties DEF Channels
  <2>2. toMcu' = Append(toMcu, waiting)
    OBVIOUS
  <2>3. QED BY <1>1, <2>1, <2>2, AppendProperties
<1>3. HostState'
  BY DEF HostState, hostVars, histVars
<1>4. Channels'
  BY <1>2 DEF Channels
<1>5. Fetched'
  BY SameFetched DEF fwVars, hostVars
<1>6. Fresh'
  BY FreshAlone DEF fwVars, histVars, hostVars
<1>7. Pending' /\ LoopState'
  BY FirmwareAlone, PendingAlone DEF histVars
<1>8. Said
  BY SaysNothing DEF Channels
<1>9. QED BY <1>3, <1>4, <1>5, <1>6, <1>7, <1>8

LEMMA SpoilFrameStep == IInv /\ SpoilFrame => IInv' /\ Said
<1> SUFFICES ASSUME IInv, SpoilFrame PROVE IInv' /\ Said
  OBVIOUS
<1> USE DEF SpoilFrame, IInv
<1>1. toMcu' = Cleared(toMcu)
  BY DEF Cleared
<1>2. Channels'
  BY <1>1, ClearedType DEF Channels
<1>3. HostState'
  BY DEF HostState, hostVars
<1>4. Fetched'
  BY SameFetched DEF fwVars, hostVars
<1>5. Fresh'
  BY FreshAlone DEF fwVars, hostVars
<1>6. Pending' /\ LoopState'
  BY FirmwareAlone, PendingAlone
<1>7. Said
  BY SaysNothing DEF Channels
<1>8. QED BY <1>2, <1>3, <1>4, <1>5, <1>6, <1>7

LEMMA HostRestartStep == IInv /\ HostRestart => IInv' /\ Said
<1> SUFFICES ASSUME IInv, HostRestart PROVE IInv' /\ Said
  OBVIOUS
<1> USE DEF HostRestart, IInv
<1>1. HostState'
  <2>1. session' \in Nat /\ number' \in 0 .. (SeqRange - 1)
    BY Parameters DEF HostState
  <2>2. /\ done' \in BOOLEAN /\ garbled' \in BOOLEAN
        /\ noticed' \in BOOLEAN /\ outOfStep' \in BOOLEAN
    OBVIOUS
  <2>3. QED BY <2>1, <2>2 DEF HostState
<1>2. Channels'
  BY Parameters DEF Channels
<1>3. Fetched'
  <2>1. /\ UNCHANGED bootVars /\ UNCHANGED loop
        /\ dict' = <<>> /\ done' = FALSE /\ toHost' = <<>>
    BY DEF fwVars
  <2>2. Registered' /\ Built'
    BY <2>1 DEF Fetched, Registered, Built, bootVars
  <2>3. Prefix'
    BY <2>1, DictionaryType, EmptyPrefix DEF Prefix, bootVars
  <2>4. QED BY <2>2, <2>3 DEF Fetched
<1>4. Fresh'
  BY DEF Fresh, HostState, fwVars
<1>5. Pending' /\ LoopState'
  BY FirmwareAlone, PendingAlone
<1>6. Said
  BY DEF Said
<1>7. QED BY <1>1, <1>2, <1>3, <1>4, <1>5, <1>6

(* A chunk at the end of what the host has continues it, and a short one   *)
(* completes it.                                                           *)
LEMMA ChunkContinues ==
  ASSUME Fetched
  PROVE  LET chunk == GetChunk(Len(dict))
             more  == dict \o chunk
         IN  /\ more \in Seq(Range(cachedDict)) /\ Len(more) <= Len(cachedDict)
             /\ more = SubSeq(cachedDict, 1, Len(more))
             /\ Len(chunk) < Count => more = cachedDict
<1> DEFINE chunk == GetChunk(Len(dict))
           more  == dict \o chunk
           S     == Range(cachedDict)
           n     == Len(dict)
           all   == Len(cachedDict)
           end   == IF n + Count > all THEN all ELSE n + Count
<1>1. cachedDict \in Seq(S) /\ all \in Nat
  BY DictionaryType, LenProperties
<1>2. dict \in Seq(S) /\ n \in Nat /\ n <= all /\ dict = SubSeq(cachedDict, 1, n)
  BY LenProperties DEF Fetched, Prefix
<1>3. CASE n >= all
  <2>1. chunk = <<>>
    BY <1>3 DEF GetChunk
  <2>2. more = dict
    BY <1>2, <2>1, ConcatEmptySeq
  <2>3. dict = cachedDict
    <3>1. n = all
      BY <1>1, <1>2, <1>3
    <3>2. QED BY <1>1, <1>2, <3>1, SubSeqFull
  <2>4. QED BY <1>2, <2>2, <2>3
<1>4. CASE ~(n >= all)
  <2>1. chunk = SubSeq(cachedDict, n + 1, end)
    BY <1>4 DEF GetChunk
  <2>2. end \in (n + 1) .. all
    BY <1>1, <1>2, <1>4, Parameters
  <2>3. \A i \in (n + 1) .. end : cachedDict[i] \in S
    <3>1. \A i \in 1 .. all : cachedDict[i] \in S
      BY <1>1
    <3>2. QED BY <1>2, <2>2, <3>1
  <2>4. /\ chunk \in Seq(S) /\ Len(chunk) = end - n
        /\ \A i \in 1 .. end - n : chunk[i] = cachedDict[n + i]
    <3>1. end \in Int /\ n + 1 \in Int
      BY <1>2, <2>2
    <3> HIDE DEF end, S, n
    <3>2. /\ SubSeq(cachedDict, n + 1, end) \in Seq(S)
          /\ Len(SubSeq(cachedDict, n + 1, end)) =
               IF n + 1 <= end THEN end - (n + 1) + 1 ELSE 0
          /\ \A i \in 1 .. end - (n + 1) + 1 :
               SubSeq(cachedDict, n + 1, end)[i] = cachedDict[n + 1 + i - 1]
      BY <2>3, <3>1, SubSeqProperties
    <3> HIDE DEF chunk
    <3>3. QED BY <1>1, <1>2, <2>1, <2>2, <3>2
  <2> HIDE DEF chunk, end, all, S, n
  <2>5. /\ more \in Seq(S) /\ Len(more) = n + Len(chunk)
        /\ \A i \in 1 .. n + Len(chunk) :
             more[i] = IF i <= n THEN dict[i] ELSE chunk[i - n]
    BY <1>2, <2>4, ConcatProperties DEF n
  <2> HIDE DEF more
  <2>6. Len(more) = end /\ more \in [1 .. end -> S]
    BY <1>2, <2>2, <2>4, <2>5, LenProperties
  <2>7. /\ SubSeq(cachedDict, 1, end) \in Seq(S)
        /\ Len(SubSeq(cachedDict, 1, end)) = end
        /\ \A i \in 1 .. end : SubSeq(cachedDict, 1, end)[i] = cachedDict[i]
    <3>1. \A i \in 1 .. end : cachedDict[i] \in S
      BY <1>1, <1>2, <2>2 DEF all
    <3>2. 1 <= end /\ end \in Int
      BY <1>2, <2>2
    <3>3. QED BY <3>1, <3>2, SubSeqProperties
  <2>8. ASSUME NEW i \in 1 .. end
        PROVE  more[i] = cachedDict[i]
    <3>1. CASE i <= n
      <4>1. \A j \in 1 .. n : cachedDict[j] \in S
        BY <1>1, <1>2 DEF all
      <4>2. SubSeq(cachedDict, 1, n)[i] = cachedDict[i]
        BY <1>2, <2>8, <3>1, <4>1, SubSeqProperties
      <4>3. QED BY <1>2, <2>2, <2>4, <2>5, <2>8, <3>1, <4>2
    <3>2. CASE ~(i <= n)
      <4>1. i - n \in 1 .. end - n /\ i \in 1 .. n + Len(chunk)
        BY <1>2, <2>2, <2>4, <2>8, <3>2
      <4>2. more[i] = chunk[i - n]
        BY <2>5, <3>2, <4>1
      <4>3. chunk[i - n] = cachedDict[n + (i - n)]
        BY <2>4, <4>1
      <4>4. n + (i - n) = i
        BY <1>2, <2>2, <2>8
      <4>5. QED BY <4>2, <4>3, <4>4
    <3>3. QED BY <3>1, <3>2
  <2>9. more = SubSeq(cachedDict, 1, end)
    <3>1. SubSeq(cachedDict, 1, end) \in [1 .. end -> S]
      BY <2>7, LenProperties
    <3>2. QED BY <2>6, <2>7, <2>8, <3>1
  <2>10. ASSUME Len(chunk) < Count PROVE more = cachedDict
    <3>1. end = all
      BY <1>1, <1>2, <2>4, <2>10, Parameters DEF end
    <3>2. QED BY <1>1, <2>9, <3>1, SubSeqFull DEF all
  <2>11. QED BY <1>1, <2>2, <2>5, <2>6, <2>9, <2>10 DEF all, S, chunk, more, n
<1>5. QED BY <1>3, <1>4

LEMMA HostReceiveStep == IInv /\ HostReceive => IInv' /\ Said
<1> SUFFICES ASSUME IInv, HostReceive PROVE IInv' /\ Said
  OBVIOUS
<1> DEFINE item  == Head(toHost)
           heard == ~garbled /\ item.kind # "fragment"
           acked == heard /\ item.kind = "ack" /\ item.arg = NextSeq(number)
                    /\ waiting \notin {Nothing, Gone}
           chunk == IF heard /\ item.kind = "chunk" /\ ~done /\ item.arg = Len(dict)
                    THEN GetChunk(item.arg) ELSE <<>>
<1>1. /\ toHost # <<>> /\ toHost' = Tail(toHost)
      /\ garbled' = (item.kind = "fragment")
      /\ number' = IF acked THEN NextSeq(number) ELSE number
      /\ waiting' = IF acked THEN Nothing ELSE waiting
      /\ outOfStep' = (outOfStep \/ (acked /\ item.session # session))
      /\ dict' = dict \o chunk
      /\ done' = (done \/ (heard /\ item.kind = "chunk"
                           /\ item.arg = Len(dict) /\ Len(chunk) < Count))
      /\ UNCHANGED <<fwVars, toMcu, session, faults, resetAck, noticed>>
  BY DEF HostReceive
<1>2. LoopState /\ HostState /\ Channels /\ Pending /\ Fresh /\ Fetched
  BY DEF IInv
<1>3. /\ toHost' \in Seq(Items) /\ Len(toHost') = Len(toHost) - 1
      /\ Len(toHost) \in Nat
  BY <1>1, <1>2, HeadTailProperties, LenProperties DEF Channels
<1>4. Channels'
  BY <1>1, <1>2, <1>3, Parameters DEF Channels
<1>5. Said
  <2>1. DOMAIN toHost' = 1 .. (Len(toHost) - 1)
    BY <1>3, LenProperties
  <2>2. \A i \in DOMAIN toHost' : ~(i > Len(toHost))
    BY <1>3, <2>1
  <2>3. QED BY <2>2 DEF Said
<1>6. HostState'
  <2>1. number' \in 0 .. (SeqRange - 1)
    <3>1. number' \in {number, NextSeq(number)}
      BY <1>1, Zenon
    <3>2. QED BY <1>2, <3>1, NextSeqType DEF HostState
  <2>2. waiting' \in Frames \union {Nothing, Gone}
    <3>1. waiting' \in {waiting, Nothing}
      BY <1>1, Zenon
    <3>2. QED BY <1>2, <3>1 DEF HostState
  <2>3. done' \in BOOLEAN /\ garbled' \in BOOLEAN /\ outOfStep' \in BOOLEAN
    BY <1>1, Zenon
  <2>4. QED BY <1>1, <1>2, <2>1, <2>2, <2>3 DEF HostState
<1>7. Fresh'
  BY <1>1, <1>2, FreshAlone DEF fwVars
<1>8. Pending' /\ LoopState'
  BY <1>1, <1>2, FirmwareAlone, PendingAlone
<1>9. Fetched'
  <2>1. CASE chunk = <<>> /\ ~(heard /\ item.kind = "chunk" /\ ~done /\ item.arg = Len(dict))
    <3>1. dict' = dict
      BY <1>1, <1>2, <2>1, ConcatEmptySeq DEF Fetched, Prefix
    <3>2. done' = done
      BY <1>1, <1>2, <2>1, Zenon DEF HostState
    <3>3. loop # "boot" /\ UNCHANGED loop /\ UNCHANGED bootVars
      BY <1>1, <1>2 DEF Fetched, Built, fwVars
    <3>4. QED BY <1>2, <3>1, <3>2, <3>3, SameFetched
  <2>2. CASE heard /\ item.kind = "chunk" /\ ~done /\ item.arg = Len(dict)
    <3>1. chunk = GetChunk(Len(dict))
      BY <2>2, Zenon
    <3>2. done' => Len(chunk) < Count
      BY <1>1, <2>2, Zenon
    <3>3. dict' = dict \o GetChunk(Len(dict))
      BY <1>1, <3>1
    <3> HIDE DEF chunk
    <3>4. /\ dict' \in Seq(Range(cachedDict)) /\ Len(dict') <= Len(cachedDict)
          /\ dict' = SubSeq(cachedDict, 1, Len(dict'))
          /\ done' => dict' = cachedDict
      BY <1>2, <3>1, <3>2, <3>3, ChunkContinues
    <3>5. UNCHANGED bootVars /\ UNCHANGED loop
      BY <1>1 DEF fwVars
    <3>6. Prefix'
      BY <3>4, <3>5 DEF Prefix, bootVars
    <3>7. loop # "boot"
      BY <1>1, <1>2 DEF Fetched, Built
    <3>8. Registered' /\ Built'
      BY <1>2, <3>5, <3>7 DEF Fetched, Registered, Built, bootVars
    <3>9. QED BY <3>6, <3>8 DEF Fetched
  <2>3. QED BY <2>1, <2>2, Zenon
<1>10. QED BY <1>4, <1>5, <1>6, <1>7, <1>8, <1>9 DEF IInv

-----------------------------------------------------------------------------
(* The main loop                                                           *)

(* The steps of the loop that receive and write: what is put into the      *)
(* buffer is current if the session has been noticed, and so is what is    *)
(* said.                                                                   *)
LEMMA SaysCurrent ==
  ASSUME NEW buf \in Seq(Items), Behind(buf), session' = session,
         noticed' => Current(buf),
         outputBuffer' \in {<<>>, buf}
  PROVE  Said /\ (noticed' => Current(outputBuffer)')
<1>1. Said
  <2> SUFFICES ASSUME noticed', NEW i \in DOMAIN toHost', i > Len(toHost)
               PROVE  toHost'[i].session \in {0, session'}
    BY DEF Said
  <2>1. CASE toHost'[i] = Fragment
    BY <2>1, FragmentItem
  <2>2. CASE \E j \in DOMAIN buf : toHost'[i] = buf[j]
    BY <2>2 DEF Current
  <2>3. QED BY <2>1, <2>2 DEF Behind
<1>2. ASSUME noticed' PROVE Current(outputBuffer)'
  <2>1. \A i \in DOMAIN outputBuffer' : outputBuffer'[i].session \in {0, session}
    <3>1. CASE outputBuffer' = <<>>
      BY <3>1
    <3>2. CASE outputBuffer' = buf
      BY <1>2, <3>2 DEF Current
    <3>3. QED BY <3>1, <3>2
  <2>2. QED BY <2>1 DEF Current
<1>3. QED BY <1>1, <1>2

LEMMA JoinedCurrent ==
  ASSUME NEW s \in Seq(Items), NEW t \in Seq(Items), Current(s), Current(t)
  PROVE  Current(s \o t)
<1>1. /\ s \o t \in Seq(Items) /\ Len(s \o t) = Len(s) + Len(t)
      /\ \A i \in 1 .. Len(s) + Len(t) :
           (s \o t)[i] = IF i <= Len(s) THEN s[i] ELSE t[i - Len(s)]
  BY ConcatProperties
<1>2. /\ Len(s) \in Nat /\ Len(t) \in Nat
      /\ DOMAIN s = 1 .. Len(s) /\ DOMAIN t = 1 .. Len(t)
      /\ DOMAIN (s \o t) = 1 .. Len(s) + Len(t)
  BY <1>1, LenProperties
<1>3. ASSUME NEW i \in DOMAIN (s \o t)
      PROVE  (s \o t)[i].session \in {0, session}
  <2>1. CASE i <= Len(s)
    <3>1. i \in DOMAIN s /\ (s \o t)[i] = s[i]
      BY <1>1, <1>2, <1>3, <2>1
    <3>2. QED BY <3>1 DEF Current
  <2>2. CASE ~(i <= Len(s))
    <3>1. i - Len(s) \in DOMAIN t /\ (s \o t)[i] = t[i - Len(s)]
      BY <1>1, <1>2, <1>3, <2>2
    <3>2. QED BY <3>1 DEF Current
  <2>3. QED BY <2>1, <2>2
<1>4. QED BY <1>3 DEF Current

LEMMA ItemType ==
  ASSUME HostState, NEW kind \in {"ack", "chunk", "other"}, NEW arg \in Nat
  PROVE  /\ Item(kind, arg) \in Items /\ Item(kind, arg).session = session
         /\ <<Item(kind, arg)>> \in Seq(Items) /\ Current(<<Item(kind, arg)>>)
<1>1. Item(kind, arg) \in Items /\ Item(kind, arg).session = session
  BY DEF Item, Items, HostState
<1>2. QED BY <1>1 DEF Current

LEMMA ResponsesType ==
  ASSUME HostState, NEW f \in Frames
  PROVE  Responses(f) \in Seq(Items) /\ Current(Responses(f))
<1>1. f.offset \in Nat
  BY DEF Frames
<1>2. CASE f.command = "identify"
  BY <1>1, <1>2, ItemType DEF Responses
<1>3. CASE f.command = "queries"
  <2>1. Responses(f) = [i \in 1 .. Room |-> Item("other", 0)]
    BY <1>3 DEF Responses
  <2>2. Item("other", 0) \in Items /\ Item("other", 0).session = session
    BY ItemType
  <2>3. QED BY <2>1, <2>2, Parameters DEF Current
<1>4. CASE f.command \notin {"identify", "queries"}
  BY <1>4 DEF Responses, Current
<1>5. QED BY <1>2, <1>3, <1>4

(* What a reading step starts from.                                        *)
LEMMA ReadingFrom ==
  ASSUME LoopState, noticed => Current(outputBuffer)
  PROVE  /\ Expected \in 0 .. (SeqRange - 1)
         /\ Failures \in 0 .. MaxFailures
         /\ Kept \in Seq(Items)
         /\ usbWasDisconnected \/ noticed => Current(Kept)
<1>1. Expected \in 0 .. (SeqRange - 1) /\ Failures \in 0 .. MaxFailures
  BY Parameters DEF LoopState, Expected, Failures
<1>2. Kept \in Seq(Items)
  BY DEF LoopState, Kept
<1>3. usbWasDisconnected \/ noticed => Current(Kept)
  BY DEF Kept, Current
<1>4. QED BY <1>1, <1>2, <1>3

LEMMA InputType ==
  ASSUME Channels, toMcu # <<>>
  PROVE  /\ Head(toMcu) \in Frames
         /\ Tail(toMcu) \in Seq(Frames) /\ Len(Tail(toMcu)) <= 2
<1>1. /\ Head(toMcu) \in Frames /\ Tail(toMcu) \in Seq(Frames)
      /\ Len(Tail(toMcu)) = Len(toMcu) - 1 /\ Len(toMcu) \in Nat
  BY HeadTailProperties, LenProperties DEF Channels
<1>2. QED BY <1>1 DEF Channels

LEMMA Appended ==
  ASSUME NEW S, NEW s \in Seq(S), NEW e \in S, NEW t, t = Append(s, e)
  PROVE  /\ t \in Seq(S) /\ Len(t) = Len(s) + 1
         /\ \A i \in 1 .. Len(s) : t[i] = s[i]
         /\ t[Len(s) + 1] = e
BY AppendProperties

LEMMA RegisterNextStep == IInv /\ RegisterNext => IInv' /\ Said
<1> SUFFICES ASSUME IInv, RegisterNext PROVE IInv' /\ Said
  OBVIOUS
<1> USE DEF RegisterNext, IInv
<1>1. LoopState'
  BY DEF LoopState
<1>2. HostState'
  BY DEF HostState, hostVars, histVars
<1>3. Channels'
  BY DEF Channels
<1>4. Pending'
  BY DEF Pending, histVars
<1>5. Fresh'
  BY FreshAlone DEF hostVars, histVars
<1>6. Registered'
  <2>1. PICK b \in Boots :
          /\ registry \in Seq(Range(b)) /\ unregistered \in Seq(Range(b))
          /\ Len(registry) + Len(unregistered) <= Len(b)
    BY DEF Fetched, Registered
  <2> DEFINE c == Head(unregistered)
  <2>2. /\ c \in Range(b) /\ unregistered' \in Seq(Range(b))
        /\ Len(unregistered') = Len(unregistered) - 1
        /\ Len(unregistered) \in Nat /\ Len(registry) \in Nat /\ Len(b) \in Int
    <3>1. Len(b) \in Nat
      BY SessionAssumption, LenProperties
    <3>2. QED BY <2>1, <3>1, HeadTailProperties, LenProperties
  <2>3. registry' = Register(registry, c)
    OBVIOUS
  <2>4. DOMAIN registry = 1 .. Len(registry)
    BY <2>1, LenProperties
  <2>5. \A i, j \in DOMAIN registry : registry[i].name = registry[j].name => i = j
    BY DEF Fetched, Registered
  <2> HIDE DEF c
  <2>6. CASE \E i \in DOMAIN registry : registry[i].name = c.name
    <3>1. registry' = registry
      BY <2>3, <2>6 DEF Register
    <3>2. Len(registry') + Len(unregistered') <= Len(b)
      BY <2>1, <2>2, <3>1
    <3>3. QED BY <2>1, <2>2, <2>5, <3>1, <3>2 DEF Registered
  <2>7. CASE \A i \in DOMAIN registry : registry[i].name # c.name
    <3>1. registry' = Append(registry, c)
      BY <2>3, <2>7 DEF Register
    <3>2. /\ registry' \in Seq(Range(b)) /\ Len(registry') = Len(registry) + 1
          /\ \A i \in 1 .. Len(registry) : registry'[i] = registry[i]
          /\ registry'[Len(registry) + 1] = c
      <4>1. registry \in Seq(Range(b)) /\ c \in Range(b)
        BY <2>1, <2>2
      <4>2. QED BY <3>1, <4>1, Appended
    <3>3. DOMAIN registry' = 1 .. Len(registry) + 1
      BY <3>2, LenProperties
    <3>4. ASSUME NEW i \in DOMAIN registry', NEW j \in DOMAIN registry',
                 registry'[i].name = registry'[j].name
          PROVE  i = j
      <4>1. \A k \in DOMAIN registry' :
              \/ k \in DOMAIN registry /\ registry'[k] = registry[k]
              \/ k = Len(registry) + 1 /\ registry'[k] = c
        BY <2>2, <2>4, <3>2, <3>3
      <4>2. QED BY <2>5, <2>7, <3>4, <4>1
    <3>5. Len(registry') + Len(unregistered') <= Len(b)
      BY <2>1, <2>2, <3>2
    <3>6. QED BY <2>2, <3>2, <3>4, <3>5 DEF Registered
  <2>8. QED BY <2>6, <2>7
<1>7. Fetched'
  BY <1>6 DEF Fetched, Built, Prefix, hostVars
<1>8. Said
  BY SaysNothing DEF Channels
<1>9. QED BY <1>1, <1>2, <1>3, <1>4, <1>5, <1>7, <1>8

LEMMA BuildDictionaryStep == IInv /\ BuildDictionary => IInv' /\ Said
<1> SUFFICES ASSUME IInv, BuildDictionary PROVE IInv' /\ Said
  OBVIOUS
<1> USE DEF BuildDictionary, IInv
<1>1. LoopState'
  BY DEF LoopState
<1>2. HostState'
  BY DEF HostState, hostVars, histVars
<1>3. Channels'
  BY DEF Channels
<1>4. Pending'
  BY DEF Pending, histVars
<1>5. Fresh'
  BY FreshAlone DEF hostVars, histVars
<1>6. Registered'
  BY DEF Fetched, Registered
<1>7. PICK d \in [DOMAIN registry -> {Entry(registry, i) : i \in DOMAIN registry}] :
        BuildJSON(d, registry) /\ cachedDict' = Compress(d)
  OBVIOUS
<1>8. Built'
  <2>1. registry' = registry /\ loop' # "boot"
    OBVIOUS
  <2>2. QED BY <1>7, <2>1 DEF Built
<1>9. Prefix'
  <2>1. dict' = <<>> /\ done' = FALSE
    BY DEF Fetched, Built, hostVars
  <2>2. d \in Seq({Entry(registry, i) : i \in DOMAIN registry})
    BY BuiltType DEF Fetched, Registered
  <2>3. cachedDict' \in Seq(Range(cachedDict'))
    BY <1>7, <2>2, Stored
  <2>4. QED BY <2>1, <2>3, EmptyPrefix DEF Prefix
<1>10. Said
  BY SaysNothing DEF Channels
<1>11. QED BY <1>1, <1>2, <1>3, <1>4, <1>5, <1>6, <1>8, <1>9, <1>10 DEF Fetched

LEMMA ReadNothingStep == IInv /\ ReadNothing => IInv' /\ Said
<1> SUFFICES ASSUME IInv, ReadNothing PROVE IInv' /\ Said
  OBVIOUS
<1> USE DEF ReadNothing, IInv
<1>1. LoopState'
  BY DEF LoopState
<1>2. HostState'
  BY DEF HostState, hostVars, histVars
<1>3. Channels'
  BY DEF Channels
<1>4. Pending'
  BY DEF Pending, histVars
<1>5. Fresh'
  BY FreshAlone DEF hostVars, histVars
<1>6. Fetched'
  BY SameFetched DEF hostVars
<1>7. Said
  BY SaysNothing DEF Channels
<1>8. QED BY <1>1, <1>2, <1>3, <1>4, <1>5, <1>6, <1>7

LEMMA AcceptFrameStep == IInv /\ AcceptFrame => IInv' /\ Said
<1> SUFFICES ASSUME IInv, AcceptFrame PROVE IInv' /\ Said
  OBVIOUS
<1> DEFINE f == Head(toMcu)
           fresh == usbWasDisconnected \/ IsHostReset(f)
           before == IF IsHostReset(f) THEN <<>> ELSE Kept
           inputs == {Tail(toMcu)} \union
                       IF IsHostReset(f) THEN {Cleared(Tail(toMcu))} ELSE {}
           next == NextSeq(f.seq)
           items == before \o Responses(f) \o <<Item("ack", next)>>
<1>1. /\ loop = "read" /\ toMcu # <<>> /\ loop' = "write"
      /\ nextSequence' = next
      /\ configCRC' = IF f.command = "finalize" THEN session
                      ELSE IF fresh THEN 0 ELSE configCRC
      /\ resetPending' = (resetPending \/ f.command = "reset")
      /\ noticed' = (noticed \/ fresh)
      /\ outOfStep' = (outOfStep \/ (usbWasDisconnected /\ Answered))
      /\ UNCHANGED <<bootVars, hostVars>>
  BY DEF AcceptFrame
<1>2. PICK buf \in Outputs(items), input \in inputs :
        /\ WriteUSB(buf, Failures, input, FALSE)
        /\ resetAck' = IF f.command # "reset" THEN resetAck
                       ELSE IF Last(buf).kind # "ack" \/ usbWasDisconnected'
                       THEN "lost"
                       ELSE IF outputBuffer' = <<>> THEN "sent" ELSE "owed"
  BY DEF AcceptFrame
<1>3. LoopState /\ HostState /\ Channels /\ Pending /\ Fresh /\ Fetched
  BY DEF IInv
<1>4. /\ f \in Frames /\ input \in Seq(Frames) /\ Len(input) <= 2
  <2>1. f \in Frames /\ Tail(toMcu) \in Seq(Frames) /\ Len(Tail(toMcu)) <= 2
    BY <1>1, <1>3, InputType
  <2>2. input = Tail(toMcu) \/ input = Cleared(Tail(toMcu))
    BY <1>2
  <2>3. QED BY <2>1, <2>2, ClearedType
<1>5. /\ Failures \in 0 .. MaxFailures /\ Kept \in Seq(Items)
      /\ usbWasDisconnected \/ noticed => Current(Kept)
  BY <1>3, ReadingFrom DEF Fresh
<1>6. f.seq \in 0 .. (SeqRange - 1)
  BY <1>4 DEF Frames
<1>7. next \in 0 .. (SeqRange - 1) /\ next \in Nat
  <2>1. next \in 0 .. (SeqRange - 1)
    BY <1>6, NextSeqType
  <2> HIDE DEF next
  <2>2. QED BY <2>1
<1>8. before \in Seq(Items) /\ (noticed' => Current(before))
  <2>1. CASE IsHostReset(f)
    BY <2>1 DEF Current
  <2>2. CASE ~IsHostReset(f)
    <3>1. before = Kept
      BY <2>2
    <3>2. noticed' => usbWasDisconnected \/ noticed
      BY <1>1, <2>2, Zenon
    <3>3. QED BY <1>5, <3>1, <3>2, Zenon
  <2>3. QED BY <2>1, <2>2
<1> HIDE DEF f, before, next, fresh
<1>9. Responses(f) \in Seq(Items) /\ Current(Responses(f))
  BY <1>3, <1>4, ResponsesType
<1>10. <<Item("ack", next)>> \in Seq(Items) /\ Current(<<Item("ack", next)>>)
  BY <1>3, <1>7, ItemType
<1>11. /\ items \in Seq(Items) /\ items # <<>>
       /\ noticed' => Current(items)
  <2> DEFINE most == before \o Responses(f)
  <2>1. most \in Seq(Items) /\ (noticed' => Current(most))
    BY <1>8, <1>9, ConcatProperties, JoinedCurrent
  <2> HIDE DEF most
  <2>2. most \o <<Item("ack", next)>> \in Seq(Items)
    BY <1>10, <2>1, ConcatProperties
  <2>3. Len(most \o <<Item("ack", next)>>) = Len(most) + 1
    BY <1>10, <2>1, ConcatProperties
  <2>4. most \o <<Item("ack", next)>> # <<>>
    BY <2>1, <2>3, LenProperties
  <2>5. noticed' => Current(most \o <<Item("ack", next)>>)
    BY <1>10, <2>1, JoinedCurrent
  <2>6. QED BY <2>2, <2>4, <2>5 DEF most
<1> HIDE DEF items
<1>12. /\ buf \in Seq(Items) /\ Len(buf) <= Room /\ buf # <<>>
       /\ noticed' => Current(buf)
  BY <1>2, <1>11, OutputsFit
<1>13. /\ Channels' /\ Behind(buf)
       /\ outputBuffer' \in {<<>>, buf}
       /\ consecutiveWriteFailures' \in 0 .. MaxFailures
       /\ usbWasDisconnected' \in BOOLEAN
  <2>1. toHost \in Seq(Items)
    BY <1>3 DEF Channels
  <2>2. QED BY <1>2, <1>4, <1>5, <1>12, <2>1, Writes
<1>14. session' = session
  BY <1>1 DEF hostVars
<1>15. Said /\ (noticed' => Current(outputBuffer)')
  BY <1>12, <1>13, <1>14, SaysCurrent
<1>16. LoopState'
  <2>1. outputBuffer' \in Seq(Items) /\ Len(outputBuffer') <= Room
    <3>1. CASE outputBuffer' = <<>>
      BY <3>1, Parameters
    <3>2. CASE outputBuffer' = buf
      BY <1>12, <3>2
    <3>3. QED BY <1>13, <3>1, <3>2
  <2>2. QED BY <1>1, <1>7, <1>13, <2>1 DEF LoopState
<1>17. HostState'
  <2>1. noticed' \in BOOLEAN /\ outOfStep' \in BOOLEAN
    BY <1>1, Zenon
  <2>2. QED BY <1>1, <1>3, <2>1 DEF HostState, hostVars
<1>18. Pending'
  <2>1. resetPending = FALSE /\ resetAck = "none"
    BY <1>1, <1>3 DEF Pending
  <2>2. CASE f.command = "reset"
    <3>1. resetAck' \in {"lost", "sent", "owed"} /\ (resetAck' = "owed" => outputBuffer' # <<>>)
      BY <1>2, <2>2
    <3>2. resetPending' = TRUE
      BY <1>1, <2>2, Zenon
    <3>3. QED BY <1>1, <3>1, <3>2 DEF Pending
  <2>3. CASE f.command # "reset"
    <3>1. resetAck' = "none"
      BY <1>2, <2>1, <2>3
    <3>2. resetPending' = FALSE
      <4>1. ~resetPending' /\ resetPending' \in BOOLEAN
        BY <1>1, <2>1, <2>3, Zenon
      <4>2. QED BY <4>1
    <3>3. QED BY <3>1, <3>2 DEF Pending
  <2>4. QED BY <2>2, <2>3
<1>19. Fresh'
  <2>1. configCRC' \in {session, 0, configCRC}
    BY <1>1, Zenon
  <2>2. configCRC' \in 0 .. session'
    BY <1>3, <1>14, <2>1 DEF Fresh, HostState
  <2>3. ASSUME noticed' PROVE configCRC' \in {0, session}
    <3>1. CASE f.command = "finalize" \/ fresh
      BY <1>1, <3>1, Zenon
    <3>2. CASE ~(f.command = "finalize" \/ fresh)
      <4>1. configCRC' = configCRC /\ noticed
        BY <1>1, <2>3, <3>2, Zenon
      <4>2. QED BY <1>3, <4>1 DEF Fresh
    <3>3. QED BY <3>1, <3>2
  <2>4. QED BY <1>14, <1>15, <2>2, <2>3 DEF Fresh
<1>20. Fetched'
  BY <1>1, <1>3, SameFetched DEF hostVars
<1>21. QED BY <1>13, <1>15, <1>16, <1>17, <1>18, <1>19, <1>20 DEF IInv

LEMMA RefuseFrameStep == IInv /\ RefuseFrame => IInv' /\ Said
<1> SUFFICES ASSUME IInv, RefuseFrame PROVE IInv' /\ Said
  OBVIOUS
<1> DEFINE items == Kept \o <<Item("ack", Expected)>>
<1>1. /\ loop = "read" /\ toMcu # <<>> /\ loop' = "write"
      /\ nextSequence' = Expected
      /\ configCRC' = IF usbWasDisconnected THEN 0 ELSE configCRC
      /\ noticed' = (noticed \/ usbWasDisconnected)
      /\ outOfStep' = (outOfStep \/ (usbWasDisconnected /\ Answered))
      /\ UNCHANGED <<bootVars, resetPending, hostVars, resetAck>>
  BY DEF RefuseFrame
<1>2. PICK buf \in Outputs(items) : WriteUSB(buf, Failures, Tail(toMcu), FALSE)
  BY DEF RefuseFrame
<1>3. LoopState /\ HostState /\ Channels /\ Pending /\ Fresh /\ Fetched
  BY DEF IInv
<1>4. Tail(toMcu) \in Seq(Frames) /\ Len(Tail(toMcu)) <= 2
  BY <1>1, <1>3, InputType
<1>5. /\ Expected \in 0 .. (SeqRange - 1)
      /\ Failures \in 0 .. MaxFailures /\ Kept \in Seq(Items)
      /\ usbWasDisconnected \/ noticed => Current(Kept)
  BY <1>3, ReadingFrom DEF Fresh
<1>6. noticed' => Current(Kept)
  BY <1>1, <1>5, Zenon
<1>7. <<Item("ack", Expected)>> \in Seq(Items) /\ Current(<<Item("ack", Expected)>>)
  <2>1. Expected \in Nat
    BY <1>5
  <2>2. QED BY <1>3, <2>1, ItemType
<1>8. /\ items \in Seq(Items)
      /\ noticed' => Current(items)
  BY <1>5, <1>6, <1>7, ConcatProperties, JoinedCurrent
<1> HIDE DEF items
<1>9. /\ buf \in Seq(Items) /\ Len(buf) <= Room
      /\ noticed' => Current(buf)
  BY <1>2, <1>8, OutputsFit
<1>10. /\ Channels' /\ Behind(buf)
       /\ outputBuffer' \in {<<>>, buf}
       /\ consecutiveWriteFailures' \in 0 .. MaxFailures
       /\ usbWasDisconnected' \in BOOLEAN
  <2>1. toHost \in Seq(Items)
    BY <1>3 DEF Channels
  <2>2. QED BY <1>2, <1>4, <1>5, <1>9, <2>1, Writes
<1>11. session' = session
  BY <1>1 DEF hostVars
<1>12. Said /\ (noticed' => Current(outputBuffer)')
  BY <1>9, <1>10, <1>11, SaysCurrent
<1>13. LoopState'
  <2>1. outputBuffer' \in Seq(Items) /\ Len(outputBuffer') <= Room
    <3>1. CASE outputBuffer' = <<>>
      BY <3>1, Parameters
    <3>2. CASE outputBuffer' = buf
      BY <1>9, <3>2
    <3>3. QED BY <1>10, <3>1, <3>2
  <2>2. QED BY <1>1, <1>5, <1>10, <2>1 DEF LoopState
<1>14. HostState'
  <2>1. noticed' \in BOOLEAN /\ outOfStep' \in BOOLEAN
    BY <1>1, Zenon
  <2>2. QED BY <1>1, <1>3, <2>1 DEF HostState, hostVars
<1>15. Pending'
  BY <1>1, <1>3 DEF Pending
<1>16. Fresh'
  <2>1. configCRC' \in 0 .. session'
    BY <1>1, <1>3, <1>11 DEF Fresh, HostState
  <2>2. ASSUME noticed' PROVE configCRC' \in {0, session}
    <3>1. CASE usbWasDisconnected
      BY <1>1, <3>1
    <3>2. CASE ~usbWasDisconnected
      <4>1. configCRC' = configCRC /\ noticed
        BY <1>1, <2>2, <3>2, Zenon
      <4>2. QED BY <1>3, <4>1 DEF Fresh
    <3>3. QED BY <3>1, <3>2
  <2>3. QED BY <1>11, <1>12, <2>1, <2>2 DEF Fresh
<1>17. Fetched'
  BY <1>1, <1>3, SameFetched DEF hostVars
<1>18. QED BY <1>10, <1>12, <1>13, <1>14, <1>15, <1>16, <1>17 DEF IInv

LEMMA WriteOutStep == IInv /\ WriteOut => IInv' /\ Said
<1> SUFFICES ASSUME IInv, WriteOut PROVE IInv' /\ Said
  OBVIOUS
<1>1. LoopState /\ HostState /\ Channels /\ Pending /\ Fresh /\ Fetched
  BY DEF IInv
<1>2. /\ loop = "write" /\ loop' = "check"
      /\ UNCHANGED <<bootVars, nextSequence, configCRC, resetPending,
                     hostVars, noticed, outOfStep>>
  BY DEF WriteOut
<1>3. HostState' /\ Fetched' /\ session' = session
  BY <1>1, <1>2, SameFetched DEF HostState, hostVars
<1>4. CASE outputBuffer = <<>>
  <2>1. UNCHANGED <<outputBuffer, consecutiveWriteFailures,
                    usbWasDisconnected, toMcu, toHost, faults, resetAck>>
    BY <1>4 DEF WriteOut
  <2>2. LoopState' /\ Channels'
    BY <1>1, <1>2, <2>1 DEF LoopState, Channels
  <2>3. Pending'
    BY <1>1, <1>2, <1>4, <2>1 DEF Pending
  <2>4. Fresh' /\ Said
    BY <1>1, <1>2, <1>3, <2>1, FreshAlone, SaysNothing DEF Channels
  <2>5. QED BY <1>3, <2>2, <2>3, <2>4 DEF IInv
<1>5. CASE outputBuffer # <<>>
  <2>1. /\ WriteUSB(outputBuffer, consecutiveWriteFailures, toMcu,
                    usbWasDisconnected)
        /\ resetAck' = IF resetAck # "owed" THEN resetAck
                       ELSE IF outputBuffer' = <<>> /\ ~usbWasDisconnected'
                       THEN "sent" ELSE "lost"
    BY <1>5 DEF WriteOut
  <2>2. /\ outputBuffer \in Seq(Items) /\ Len(outputBuffer) <= Room
        /\ consecutiveWriteFailures \in 0 .. MaxFailures
        /\ usbWasDisconnected \in BOOLEAN
        /\ toMcu \in Seq(Frames) /\ Len(toMcu) <= 2 /\ toHost \in Seq(Items)
    BY <1>1 DEF LoopState, Channels
  <2>3. /\ Channels' /\ Behind(outputBuffer)
        /\ outputBuffer' \in {<<>>, outputBuffer}
        /\ consecutiveWriteFailures' \in 0 .. MaxFailures
        /\ usbWasDisconnected' \in BOOLEAN
    BY <2>1, <2>2, Writes
  <2>4. LoopState'
    <3>1. outputBuffer' \in Seq(Items) /\ Len(outputBuffer') <= Room
      <4>1. CASE outputBuffer' = <<>>
        BY <4>1, Parameters
      <4>2. CASE outputBuffer' = outputBuffer
        BY <2>2, <4>2
      <4>3. QED BY <2>3, <4>1, <4>2
    <3>2. QED BY <1>1, <1>2, <2>3, <3>1 DEF LoopState
  <2>5. Pending'
    <3>1. resetAck' \in {"none", "sent", "lost"} /\ (resetAck' = "none" <=> resetAck = "none")
      BY <1>1, <2>1 DEF Pending
    <3>2. QED BY <1>1, <1>2, <3>1 DEF Pending
  <2>6. noticed' => Current(outputBuffer)
    BY <1>1, <1>2 DEF Fresh
  <2>7. Said /\ (noticed' => Current(outputBuffer)')
    BY <1>3, <2>2, <2>3, <2>6, SaysCurrent
  <2>8. Fresh'
    BY <1>1, <1>2, <1>3, <2>7 DEF Fresh
  <2>9. QED BY <1>3, <2>3, <2>4, <2>5, <2>7, <2>8 DEF IInv
<1>6. QED BY <1>4, <1>5

LEMMA CheckPendingResetStep == IInv /\ CheckPendingReset => IInv' /\ Said
<1> SUFFICES ASSUME IInv, CheckPendingReset PROVE IInv' /\ Said
  OBVIOUS
<1>1. LoopState /\ HostState /\ Channels /\ Pending /\ Fresh /\ Fetched
  BY DEF IInv
<1>2. /\ loop = "check"
      /\ UNCHANGED <<bootVars, toHost, session, number, dict, done,
                     garbled, faults, outOfStep>>
  BY DEF CheckPendingReset
<1>3. Fetched' /\ Said
  <2>1. loop' # "boot"
    BY DEF CheckPendingReset
  <2>2. QED BY <1>1, <1>2, <2>1, SameFetched, SaysNothing DEF Channels
<1>4. CASE resetPending
  <2>1. /\ nextSequence' = 0 /\ outputBuffer' = <<>>
        /\ consecutiveWriteFailures' = 0 /\ usbWasDisconnected' = FALSE
        /\ configCRC' = 0 /\ resetPending' = FALSE /\ loop' = "read"
        /\ toMcu' = <<>> /\ resetAck' = "none" /\ noticed' = TRUE
        /\ waiting' = Gone
    BY <1>4 DEF CheckPendingReset
  <2>2. LoopState'
    <3>1. /\ nextSequence' \in 0 .. (SeqRange - 1)
          /\ consecutiveWriteFailures' \in 0 .. MaxFailures
          /\ outputBuffer' \in Seq(Items) /\ Len(outputBuffer') <= Room
      BY <2>1, Parameters
    <3>2. usbWasDisconnected' \in BOOLEAN /\ loop' = "read"
      BY <2>1
    <3>3. QED BY <3>1, <3>2 DEF LoopState
  <2>3. HostState' /\ Channels'
    BY <1>1, <1>2, <2>1 DEF HostState, Channels
  <2>4. Pending'
    BY <2>1 DEF Pending
  <2>5. Fresh'
    <3>1. configCRC' \in 0 .. session' /\ configCRC' = 0
      BY <1>1, <1>2, <2>1 DEF HostState
    <3>2. Current(outputBuffer)'
      BY <2>1 DEF Current
    <3>3. QED BY <3>1, <3>2 DEF Fresh
  <2>6. QED BY <1>3, <2>2, <2>3, <2>4, <2>5 DEF IInv
<1>5. CASE ~resetPending
  <2>1. /\ loop' = "timers"
        /\ UNCHANGED <<nextSequence, outputBuffer, consecutiveWriteFailures,
                       usbWasDisconnected, configCRC, resetPending, toMcu,
                       resetAck, noticed, waiting>>
    BY <1>5 DEF CheckPendingReset
  <2>2. LoopState' /\ HostState' /\ Channels'
    BY <1>1, <1>2, <2>1 DEF LoopState, HostState, Channels
  <2>3. Pending'
    BY <1>1, <1>2, <1>5, <2>1 DEF Pending
  <2>4. Fresh'
    BY <1>1, <1>2, <2>1, FreshAlone
  <2>5. QED BY <1>3, <2>2, <2>3, <2>4 DEF IInv
<1>6. QED BY <1>4, <1>5

LEMMA TimersStep == IInv /\ Timers => IInv' /\ Said
<1> SUFFICES ASSUME IInv, Timers PROVE IInv' /\ Said
  OBVIOUS
<1>1. LoopState /\ HostState /\ Channels /\ Pending /\ Fresh /\ Fetched
  BY DEF IInv
<1>2. /\ loop = "timers" /\ loop' = "read"
      /\ UNCHANGED <<bootVars, nextSequence, consecutiveWriteFailures,
                     usbWasDisconnected, configCRC, resetPending, toHost, hostVars,
                     resetAck, noticed, outOfStep>>
  BY DEF Timers
<1>3. HostState' /\ Fetched' /\ Said /\ session' = session
  BY <1>1, <1>2, SameFetched, SaysNothing DEF HostState, hostVars, Channels
<1>4. outputBuffer' \in {outputBuffer, <<>>, <<Item("other", 0)>>}
  BY DEF Timers
<1>5. toMcu' \in {toMcu, Cleared(toMcu)}
  BY DEF Timers
<1>6. Channels'
  BY <1>1, <1>2, <1>5, ClearedType DEF Channels
<1>7. /\ outputBuffer' \in Seq(Items) /\ Len(outputBuffer') <= Room
      /\ noticed => Current(outputBuffer)'
  <2>1. CASE outputBuffer' = outputBuffer
    BY <1>1, <1>3, <2>1 DEF LoopState, Fresh, Current
  <2>2. CASE outputBuffer' = <<>>
    BY <2>2, Parameters DEF Current
  <2>3. CASE outputBuffer' = <<Item("other", 0)>>
    <3>1. /\ Item("other", 0) \in Items /\ Item("other", 0).session = session
          /\ <<Item("other", 0)>> \in Seq(Items)
      BY <1>1, ItemType
    <3>2. Len(outputBuffer') = 1 /\ \A i \in DOMAIN outputBuffer' : outputBuffer'[i].session = session
      BY <2>3, <3>1
    <3>3. QED BY <1>3, <2>3, <3>1, <3>2, Parameters DEF Current
  <2>4. QED BY <1>4, <2>1, <2>2, <2>3
<1>8. LoopState'
  BY <1>1, <1>2, <1>7 DEF LoopState
<1>9. Pending'
  BY <1>1, <1>2 DEF Pending
<1>10. Fresh'
  BY <1>1, <1>2, <1>3, <1>7 DEF Fresh
<1>11. QED BY <1>3, <1>6, <1>8, <1>9, <1>10 DEF IInv

LEMMA NextIInv == IInv /\ [Next]_vars => IInv' /\ Said
<1> SUFFICES ASSUME IInv, [Next]_vars PROVE IInv' /\ Said
  OBVIOUS
<1>1. CASE HostSend
  BY <1>1, HostSendStep
<1>2. CASE HostResend
  BY <1>2, HostResendStep
<1>3. CASE HostReceive
  BY <1>3, HostReceiveStep
<1>4. CASE HostRestart
  BY <1>4, HostRestartStep
<1>5. CASE SpoilFrame
  BY <1>5, SpoilFrameStep
<1>6. CASE MainLoop
  BY <1>6, RegisterNextStep, BuildDictionaryStep, ReadNothingStep, AcceptFrameStep, RefuseFrameStep, WriteOutStep,
     CheckPendingResetStep, TimersStep DEF MainLoop
<1>7. CASE UNCHANGED vars
  <2>1. UNCHANGED <<fwVars, toMcu, toHost, hostVars, histVars>>
    BY <1>7 DEF vars
  <2>2. LoopState' /\ Pending'
    BY <2>1, FirmwareAlone, PendingAlone DEF IInv, histVars
  <2>3. HostState' /\ Channels'
    BY <2>1 DEF IInv, HostState, Channels, hostVars, histVars
  <2>4. Fresh' /\ Fetched'
    BY <2>1, FreshAlone, SameFetched DEF IInv, fwVars, hostVars, histVars
  <2>5. Said
    BY <2>1, SaysNothing DEF IInv, Channels
  <2>6. QED BY <2>2, <2>3, <2>4, <2>5 DEF IInv
<1>8. QED BY <1>1, <1>2, <1>3, <1>4, <1>5, <1>6, <1>7 DEF Next

-----------------------------------------------------------------------------
(* A reset waits only for the write of this pass, its ACK is owed only     *)
(* while it is in the buffer, a firmware that noticed the session holds    *)
(* nothing of the one before, and the host has the beginning of the        *)
(* dictionary (main.go:142-218, commands.go:338-356).                      *)
THEOREM Invariance == Spec => []IInv
<1>1. Init => IInv
  BY InitIInv
<1>2. IInv /\ [Next]_vars => IInv'
  BY NextIInv
<1>3. QED BY <1>1, <1>2, PTL DEF Spec

(* Buffers and channels stay in their limits, and a reset is pending only  *)
(* between its command and the check of the same pass (main.go:142-218).   *)
THEOREM TypeCorrect == Spec => []TypeOK
<1>1. ASSUME IInv PROVE TypeOK
  <2>1. LoopState /\ HostState /\ Channels /\ Pending /\ Fresh
    BY <1>1 DEF IInv
  <2>2. {usbWasDisconnected, done, garbled, noticed, outOfStep} \subseteq BOOLEAN
    BY <2>1, Zenon DEF LoopState, HostState
  <2>3. {nextSequence, number} \subseteq 0 .. SeqRange - 1
    BY <2>1 DEF LoopState, HostState
  <2>4. QED BY <2>1, <2>2, <2>3 DEF TypeOK, LoopState, Channels, Pending, Fresh
<1>2. QED BY <1>1, Invariance, PTL

(* For every size of dictionary and chunks that a stored block can say,    *)
(* the host has the beginning of the dictionary, and all of it once it     *)
(* thinks so, through any failures and restarts (dictionary.go:437-470).   *)
THEOREM DictionaryAlwaysWhole ==
  ASSUME \A b \in Boots : Len(b) < LengthRange
  PROVE  Spec => []DictionaryIsWhole
<1>1. ASSUME IInv PROVE DictionaryIsWhole
  <2>1. Registered /\ Built /\ Prefix
    BY <1>1 DEF IInv, Fetched
  <2>2. IsPrefix(dict, cachedDict)
    <3>1. Len(dict) \in Nat /\ SubSeq(dict, 1, Len(dict)) = dict
      BY <2>1, LenProperties, SubSeqFull DEF Prefix
    <3>2. QED BY <2>1, <3>1 DEF Prefix, IsPrefix
  <2>3. ASSUME done PROVE KnowsAll(cachedDict, registry)
    <3>1. PICK d \in [DOMAIN registry -> {Entry(registry, i) : i \in DOMAIN registry}] :
            BuildJSON(d, registry) /\ cachedDict = Compress(d)
      BY <2>1, <2>3 DEF Built
    <3>2. PICK b \in Boots :
            /\ registry \in Seq(Range(b)) /\ unregistered \in Seq(Range(b))
            /\ Len(registry) + Len(unregistered) <= Len(b)
      BY <2>1 DEF Registered
    <3>3. d \in Seq({Entry(registry, i) : i \in DOMAIN registry}) /\ Len(d) = Len(registry)
      BY <3>2, BuiltType
    <3>4. Len(d) < LengthRange
      <4>1. /\ Len(registry) \in Nat /\ Len(unregistered) \in Nat
            /\ Len(b) \in Nat /\ Len(b) < LengthRange
        BY <3>2, SessionAssumption, LenProperties
      <4>2. QED BY <3>2, <3>3, <4>1, Parameters
    <3>5. Inflate(cachedDict) = d
      BY <3>1, <3>3, <3>4, Stored
    <3>6. Range(Inflate(cachedDict)) = {Entry(registry, i) : i \in DOMAIN registry}
      BY <3>1, <3>5 DEF BuildJSON
    <3>7. \A i \in DOMAIN registry : Entry(registry, i).name = registry[i].name
      BY DEF Entry
    <3>8. \A i, j \in DOMAIN registry : registry[i].name = registry[j].name => i = j
      BY <2>1 DEF Registered
    <3>9. QED BY <3>6, <3>7, <3>8 DEF KnowsAll
  <2>4. QED BY <2>1, <2>2, <2>3 DEF Prefix, DictionaryIsWhole
<1>2. QED BY <1>1, Invariance, PTL

(* Once the firmware has noticed that the host started over, nothing it    *)
(* says and nothing it has of a configuration is of the session before     *)
(* (main.go:159-168).                                                      *)
THEOREM NoticedIsAlwaysFresh == Spec => NoticedIsFresh
<1> DEFINE A == noticed' => /\ configCRC' \in {0, session'}
                            /\ \A i \in DOMAIN toHost' :
                                 i > Len(toHost) => toHost'[i].session \in {0, session'}
<1>1. ASSUME IInv, IInv', [Next]_vars PROVE [A]_vars
  <2>1. Fresh'
    BY <1>1 DEF IInv
  <2>2. noticed' => configCRC' \in {0, session'}
    BY <2>1 DEF Fresh
  <2>3. Said
    BY <1>1, NextIInv
  <2>4. QED BY <2>2, <2>3 DEF Said
<1>2. QED BY <1>1, Invariance, PTL DEF Spec, NoticedIsFresh

(* A reset comes only after its ACK has left the buffer or been lost with  *)
(* it, however many writes fail (main.go:204-206).                         *)
THEOREM AckAlwaysBeforeReset == Spec => AckBeforeReset
<1> DEFINE A == resetPending /\ ~resetPending' => resetAck \in {"sent", "lost"}
<1>1. ASSUME IInv, [Next]_vars PROVE [A]_vars
  <2> SUFFICES ASSUME resetPending, ~resetPending' PROVE resetAck \in {"sent", "lost"}
    BY DEF A
  <2>1. Pending
    BY <1>1 DEF IInv
  <2>2. CASE loop = "check"
    BY <2>1, <2>2 DEF Pending
  <2>3. CASE loop # "check"
    <3>1. resetPending' = resetPending
      BY <1>1, <2>1, <2>3 DEF Pending, Next, MainLoop, vars, fwVars,
         HostSend, HostResend, HostReceive, HostRestart, SpoilFrame,
         RegisterNext, BuildDictionary,
         ReadNothing, AcceptFrame, RefuseFrame, WriteOut, CheckPendingReset, Timers
    <3>2. QED BY <3>1
  <2>4. QED BY <2>2, <2>3
<1>2. QED BY <1>1, Invariance, PTL DEF Spec, AckBeforeReset
=============================================================================
