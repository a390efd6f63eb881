------------------------------- MODULE Session -----------------------------
(***************************************************************************)
(* The main loops of targets/rp2040/main.go and targets/rp2350/main.go     *)
(* with the USB port, the output buffer, the command registry, the data    *)
(* dictionary and the commands that concern the session; and the host that *)
(* fetches the dictionary in chunks, configures and restarts the firmware. *)
(* The boot registers a name a step and builds the dictionary; a pass of   *)
(* the loop reads and receives, writes, checks for a pending reset and     *)
(* runs the timers, a step each.                                           *)
(*                                                                         *)
(* Frames arrive whole or spoiled, one command in each (Transport has the  *)
(* bytes' faults); the buffer counts frames, not bytes.  A write to USB    *)
(* can stop anywhere: what is left of a frame there is a "fragment", which *)
(* takes the frame behind it along in the host's parser.                   *)
(*                                                                         *)
(* The host is external: it sends one frame at a time, again until it is   *)
(* acknowledged, and takes a chunk only at the offset it is at.            *)
(***************************************************************************)
EXTENDS Integers, SequencesExt

CONSTANTS
  Boots,          \* what the targets register at boot, in order
  LengthRange,    \* a stored block says its length modulo this, 2^16
  Count,          \* entries of the dictionary the host asks for at once
  SeqRange,       \* 16 in the code
  Room,           \* frames the output buffer holds
  MaxFailures,    \* failed writes in a row before the link counts as down, 10
  MaxFaults,      \* bound: failed writes, panics, spoiled frames
  MaxInFlight,    \* bound: frames on the way to the host
  MaxSessions     \* bound: host sessions

ASSUME SessionAssumption ==
  /\ \A b \in Boots : b \in Seq(Range(b))
  /\ {LengthRange, Count, SeqRange, Room} \subseteq Nat \ {0}
  /\ {MaxFailures, MaxFaults, MaxSessions} \subseteq Nat
  /\ MaxInFlight \in Nat /\ Room <= MaxInFlight

VARIABLES
  unregistered,   \* what the boot has yet to register
  registry,       \* globalRegistry: the command with ID i at i + 1
  cachedDict,     \* d.cachedDict
  loop,           \* "boot", or the step of the main loop that comes next
  nextSequence,   \* Transport.nextSequence, 0 for 0x10
  outputBuffer,
  consecutiveWriteFailures, usbWasDisconnected,
  configCRC,      \* 0, or the session that finalized its configuration
  resetPending,
  toMcu, toHost,  \* the frames under way
  session,        \* the host's session
  number,         \* of its next frame
  waiting,        \* the frame it waits to be acknowledged
  dict, done,     \* what it has of the dictionary, and that this is all
  garbled,        \* its parser is inside the rest of a frame
  faults,
  resetAck,       \* history: the ACK of the reset command's frame
  noticed,        \* history: the state was reset since the session began
  outOfStep       \* history: the numbering was reset under the session, or
                  \* the host took an ACK meant for the session before

bootVars == <<unregistered, registry, cachedDict>>
fwVars == <<bootVars, loop, nextSequence, outputBuffer,
            consecutiveWriteFailures, usbWasDisconnected, configCRC,
            resetPending>>
hostVars == <<session, number, waiting, dict, done, garbled>>
histVars == <<faults, resetAck, noticed, outOfStep>>
vars == <<fwVars, toMcu, toHost, hostVars, histVars>>

-----------------------------------------------------------------------------
(* Registration and the dictionary                                         *)

(* CommandRegistry.Register: a name registered again keeps its ID.         *)
Register(r, c) ==
  IF \E i \in DOMAIN r : r[i].name = c.name THEN r ELSE Append(r, c)

Entry(r, i) == [name |-> r[i].name, id |-> i - 1, handled |-> r[i].handled]

(* Commands before responses, each by ID                                   *)
Precedes(e, f) == IF e.handled = f.handled THEN e.id < f.id ELSE e.handled

(* GetCommandsAndResponses, buildJSON: d is the sorted dictionary of r.    *)
BuildJSON(d, r) ==
  /\ Range(d) = {Entry(r, i) : i \in DOMAIN r}
  /\ \A i, j \in DOMAIN d : i < j => Precedes(d[i], d[j])

(* tinycompress.Writer: one stored block with its length, and a checksum   *)
Compress(data) ==
  <<[length |-> Len(data) % LengthRange]>> \o data \o <<[adler |-> 0]>>

(* Mutant: the end is one short.                                           *)
GetChunkShort(offset) ==
  IF offset >= Len(cachedDict) THEN <<>>
  ELSE SubSeq(cachedDict, offset + 1,
              IF offset + Count > Len(cachedDict) THEN Len(cachedDict) - 1
                                                  ELSE offset + Count)

(* Dictionary.GetChunk of Count entries                                    *)
GetChunk(offset) ==
  IF offset >= Len(cachedDict) THEN <<>>
  ELSE SubSeq(cachedDict, offset + 1,
              IF offset + Count > Len(cachedDict) THEN Len(cachedDict)
                                                  ELSE offset + Count)

(* What the host makes of it.                                              *)
Inflate(d) == SubSeq(d, 2, 1 + d[1].length)

-----------------------------------------------------------------------------
Item(kind, arg) == [kind |-> kind, arg |-> arg, session |-> session]
Fragment == [kind |-> "fragment", arg |-> 0, session |-> 0]
Nothing == [seq |-> 0, command |-> "none", offset |-> 0]
Gone == [seq |-> 0, command |-> "gone", offset |-> 0]
NextSeq(n) == (n + 1) % SeqRange

Init ==
  /\ unregistered \in Boots /\ registry = <<>> /\ cachedDict = <<>>
  /\ nextSequence = 0 /\ outputBuffer = <<>>
  /\ consecutiveWriteFailures = 0 /\ usbWasDisconnected = FALSE
  /\ configCRC = 0 /\ resetPending = FALSE /\ loop = "boot"
  /\ toMcu = <<>> /\ toHost = <<>>
  /\ session = 1 /\ number = 0 /\ waiting = Nothing /\ dict = <<>>
  /\ done = FALSE /\ garbled = FALSE
  /\ faults = 0 /\ resetAck = "none" /\ noticed = TRUE /\ outOfStep = FALSE

-----------------------------------------------------------------------------
(* The host                                                                *)

(* The dictionary first; then it configures, restarts the firmware, or     *)
(* asks so much in one frame that the answers overfill the buffer.         *)
HostCommands == IF done THEN {"finalize", "reset", "queries"} ELSE {"identify"}

HostSend ==
  /\ waiting = Nothing /\ toMcu = <<>>
  /\ \E c \in HostCommands :
       waiting' = [seq |-> number, command |-> c, offset |-> Len(dict)]
  /\ toMcu' = <<waiting'>>
  /\ UNCHANGED <<fwVars, toHost, session, number, dict, done, garbled,
                 histVars>>

HostResend ==
  /\ waiting \notin {Nothing, Gone} /\ Len(toMcu) < 2
  /\ toMcu' = Append(toMcu, waiting)
  /\ UNCHANGED <<fwVars, toHost, hostVars, histVars>>

HostReceive ==
  /\ toHost # <<>> /\ toHost' = Tail(toHost)
  /\ LET item  == Head(toHost)
         heard == ~garbled /\ item.kind # "fragment"
         acked == heard /\ item.kind = "ack" /\ item.arg = NextSeq(number)
                  /\ waiting \notin {Nothing, Gone}
         chunk == IF heard /\ item.kind = "chunk" /\ ~done /\ item.arg = Len(dict)
                  THEN GetChunk(item.arg) ELSE <<>>
     IN  /\ garbled' = (item.kind = "fragment")
         /\ number' = IF acked THEN NextSeq(number) ELSE number
         /\ waiting' = IF acked THEN Nothing ELSE waiting
         /\ outOfStep' = (outOfStep \/ (acked /\ item.session # session))
         /\ dict' = dict \o chunk
         /\ done' = (done \/ (heard /\ item.kind = "chunk"
                              /\ item.arg = Len(dict) /\ Len(chunk) < Count))
  /\ UNCHANGED <<fwVars, toMcu, session, faults, resetAck, noticed>>

(* The host starts over on a fresh port.                                   *)
HostRestart ==
  /\ session < MaxSessions
  /\ session' = session + 1 /\ number' = 0 /\ waiting' = Nothing
  /\ dict' = <<>> /\ done' = FALSE /\ garbled' = FALSE
  /\ toMcu' = <<>> /\ toHost' = <<>>
  /\ noticed' = FALSE /\ outOfStep' = FALSE
  /\ UNCHANGED <<fwVars, faults, resetAck>>

(* A frame is damaged, or begins behind the rest of another in the input   *)
(* buffer.                                                                 *)
SpoilFrame ==
  /\ toMcu # <<>> /\ faults < MaxFaults /\ faults' = faults + 1
  /\ toMcu' = <<[Head(toMcu) EXCEPT !.command = "spoiled"]>> \o Tail(toMcu)
  /\ UNCHANGED <<fwVars, toHost, hostVars, resetAck, noticed, outOfStep>>

-----------------------------------------------------------------------------
(* The main loop                                                           *)

(* ScratchOutput.Output: what does not fit is dropped, in the middle of a  *)
(* frame or between two.                                                   *)
Outputs(items) ==
  IF Len(items) <= Room THEN {items}
  ELSE {SubSeq(items, 1, Room), SubSeq(items, 1, Room - 1) \o <<Fragment>>}

(* inputBuffer.Reset, with a part of the next frame in it                  *)
Cleared(input) ==
  IF input = <<>> THEN <<>>
  ELSE <<[Head(input) EXCEPT !.command = "spoiled"]>> \o Tail(input)

(* writeUSB of buf, after failures failed ones, with the frames of input   *)
(* to be read; down is usbWasDisconnected until then.                      *)
WriteUSB(buf, failures, input, down) ==
  /\ Len(toHost) + Len(buf) <= MaxInFlight
  /\ \/ /\ toHost' = toHost \o buf /\ outputBuffer' = <<>>
        /\ consecutiveWriteFailures' = 0 /\ usbWasDisconnected' = down
        /\ toMcu' = input
        /\ UNCHANGED faults
     \/ /\ faults < MaxFaults /\ faults' = faults + 1
        /\ \E k \in 0 .. Len(buf) - 1, rest \in {<<>>, <<Fragment>>} :
             toHost' = toHost \o SubSeq(buf, 1, k) \o rest
        /\ IF failures + 1 > MaxFailures
           THEN /\ usbWasDisconnected' = TRUE
                /\ consecutiveWriteFailures' = 0
                /\ outputBuffer' = <<>>
                /\ toMcu' \in {input, Cleared(input)}
           ELSE /\ usbWasDisconnected' = down
                /\ consecutiveWriteFailures' = failures + 1
                /\ outputBuffer' = buf
                /\ toMcu' = input

(* Init*Commands                                                           *)
RegisterNext ==
  /\ loop = "boot" /\ unregistered # <<>>
  /\ registry' = Register(registry, Head(unregistered))
  /\ unregistered' = Tail(unregistered)
  /\ UNCHANGED <<cachedDict, loop, nextSequence, outputBuffer,
                 consecutiveWriteFailures, usbWasDisconnected, configCRC,
                 resetPending, toMcu, toHost, hostVars, histVars>>

(* BuildDictionary, once everything is registered                          *)
BuildDictionary ==
  /\ loop = "boot" /\ unregistered = <<>> /\ loop' = "read"
  /\ \E d \in [DOMAIN registry -> {Entry(registry, i) : i \in DOMAIN registry}] :
       BuildJSON(d, registry) /\ cachedDict' = Compress(d)
  /\ UNCHANGED <<unregistered, registry, nextSequence, outputBuffer,
                 consecutiveWriteFailures, usbWasDisconnected, configCRC,
                 resetPending, toMcu, toHost, hostVars, histVars>>

(* Nothing to read: the loop goes on.                                      *)
ReadNothing ==
  /\ loop = "read" /\ toMcu = <<>>
  /\ loop' = "write"
  /\ UNCHANGED <<bootVars, nextSequence, outputBuffer,
                 consecutiveWriteFailures, usbWasDisconnected, configCRC,
                 resetPending, toMcu, toHost, hostVars, histVars>>

(* The first byte after the link was down resets the buffers, the          *)
(* transport and the firmware state.                                       *)
Expected == IF usbWasDisconnected THEN 0 ELSE nextSequence
(* Mutant: the output buffer is not reset.                                 *)
KeptAll == outputBuffer

Kept == IF usbWasDisconnected THEN <<>> ELSE outputBuffer
Failures == IF usbWasDisconnected THEN 0 ELSE consecutiveWriteFailures

(* The host has moved on, or is about to.                                  *)
Answered ==
  \/ number # 0
  \/ \E i \in DOMAIN toHost : toHost[i].kind = "ack" /\ toHost[i].arg = NextSeq(number)

(* Mutant: a host that starts over is not looked for.                      *)
IsHostResetNever(f) == FALSE

IsHostReset(f) == f.command # "spoiled" /\ f.seq = 0 /\ Expected # 0

Responses(f) ==
  CASE f.command = "identify" -> <<Item("chunk", f.offset)>>
    [] f.command = "queries"  -> [i \in 1 .. Room |-> Item("other", 0)]
    [] OTHER                  -> <<>>

(* Transport.Receive of an expected frame: the reset callback if it begins *)
(* a session anew, which clears the input too, the handler's responses,    *)
(* then the ACK, and all of it is flushed.                                 *)
AcceptFrame ==
  /\ loop = "read" /\ toMcu # <<>> /\ loop' = "write"
  /\ LET f == Head(toMcu)
         fresh == usbWasDisconnected \/ IsHostReset(f)
         before == IF IsHostReset(f) THEN <<>> ELSE Kept
         inputs == {Tail(toMcu)} \union
                     IF IsHostReset(f) THEN {Cleared(Tail(toMcu))} ELSE {}
         next == NextSeq(f.seq)
     IN  /\ f.command # "spoiled" /\ (f.seq = Expected \/ IsHostReset(f))
         /\ nextSequence' = next
         /\ configCRC' = IF f.command = "finalize" THEN session
                         ELSE IF fresh THEN 0 ELSE configCRC
         /\ resetPending' = (resetPending \/ f.command = "reset")
         /\ noticed' = (noticed \/ fresh)
         /\ outOfStep' = (outOfStep \/ (usbWasDisconnected /\ Answered))
         /\ \E buf \in Outputs(before \o Responses(f) \o <<Item("ack", next)>>),
              input \in inputs :
              /\ WriteUSB(buf, Failures, input, FALSE)
              /\ resetAck' = IF f.command # "reset" THEN resetAck
                             ELSE IF Last(buf).kind # "ack" \/ usbWasDisconnected'
                             THEN "lost"
                             ELSE IF outputBuffer' = <<>> THEN "sent" ELSE "owed"
  /\ UNCHANGED <<bootVars, hostVars>>

(* A spoiled frame, and one not expected, are answered with the number     *)
(* that is.                                                                *)
RefuseFrame ==
  /\ loop = "read" /\ toMcu # <<>> /\ loop' = "write"
  /\ LET f == Head(toMcu)
     IN  f.command = "spoiled" \/ (f.seq # Expected /\ ~IsHostReset(f))
  /\ nextSequence' = Expected
  /\ configCRC' = IF usbWasDisconnected THEN 0 ELSE configCRC
  /\ noticed' = (noticed \/ usbWasDisconnected)
  /\ outOfStep' = (outOfStep \/ (usbWasDisconnected /\ Answered))
  /\ \E buf \in Outputs(Kept \o <<Item("ack", Expected)>>) :
       WriteUSB(buf, Failures, Tail(toMcu), FALSE)
  /\ UNCHANGED <<bootVars, resetPending, hostVars, resetAck>>

WriteOut ==
  /\ loop = "write" /\ loop' = "check"
  /\ IF outputBuffer = <<>>
     THEN UNCHANGED <<outputBuffer, consecutiveWriteFailures,
                      usbWasDisconnected, toMcu, toHost, faults, resetAck>>
     ELSE /\ WriteUSB(outputBuffer, consecutiveWriteFailures, toMcu,
                      usbWasDisconnected)
          /\ resetAck' = IF resetAck # "owed" THEN resetAck
                         ELSE IF outputBuffer' = <<>> /\ ~usbWasDisconnected'
                         THEN "sent" ELSE "lost"
  /\ UNCHANGED <<bootVars, nextSequence, configCRC, resetPending,
                 hostVars, noticed, outOfStep>>

(* Mutant: the pending reset is looked for before the writing.             *)
CheckPendingResetEarly ==
  /\ loop \in {"write", "check"}
  /\ IF resetPending
     THEN /\ nextSequence' = 0 /\ outputBuffer' = <<>>
          /\ consecutiveWriteFailures' = 0 /\ usbWasDisconnected' = FALSE
          /\ configCRC' = 0 /\ resetPending' = FALSE /\ loop' = "read"
          /\ toMcu' = <<>> /\ resetAck' = "none" /\ noticed' = TRUE
          /\ waiting' = Gone
     ELSE /\ loop = "check" /\ loop' = "timers"
          /\ UNCHANGED <<nextSequence, outputBuffer, consecutiveWriteFailures,
                         usbWasDisconnected, configCRC, resetPending, toMcu,
                         resetAck, noticed, waiting>>
  /\ UNCHANGED <<bootVars, toHost, session, number, dict, done,
                 garbled, faults, outOfStep>>

(* Mutant: no reset handler is set.                                        *)
CheckPendingResetUnset ==
  /\ loop = "check" /\ loop' = "timers"
  /\ UNCHANGED <<bootVars, nextSequence, outputBuffer,
                 consecutiveWriteFailures, usbWasDisconnected, configCRC,
                 resetPending, toMcu, toHost, hostVars, histVars>>

(* CheckPendingReset: the firmware begins anew, with the same registry and *)
(* dictionary, and the host's port is gone.                                *)
CheckPendingReset ==
  /\ loop = "check"
  /\ IF resetPending
     THEN /\ nextSequence' = 0 /\ outputBuffer' = <<>>
          /\ consecutiveWriteFailures' = 0 /\ usbWasDisconnected' = FALSE
          /\ configCRC' = 0 /\ resetPending' = FALSE /\ loop' = "read"
          /\ toMcu' = <<>> /\ resetAck' = "none" /\ noticed' = TRUE
          /\ waiting' = Gone
     ELSE /\ loop' = "timers"
          /\ UNCHANGED <<nextSequence, outputBuffer, consecutiveWriteFailures,
                         usbWasDisconnected, configCRC, resetPending, toMcu,
                         resetAck, noticed, waiting>>
  /\ UNCHANGED <<bootVars, toHost, session, number, dict, done,
                 garbled, faults, outOfStep>>

(* ProcessTimers, AnalogInTask: what they report waits for the next pass.  *)
(* A panic in one of them clears both buffers.                             *)
Timers ==
  /\ loop = "timers" /\ loop' = "read"
  /\ \/ UNCHANGED <<outputBuffer, toMcu, faults>>
     \/ /\ outputBuffer = <<>> /\ outputBuffer' = <<Item("other", 0)>>
        /\ UNCHANGED <<toMcu, faults>>
     \/ /\ faults < MaxFaults /\ faults' = faults + 1
        /\ outputBuffer' = <<>>
        /\ toMcu' \in {toMcu, Cleared(toMcu)}
  /\ UNCHANGED <<bootVars, nextSequence, consecutiveWriteFailures,
                 usbWasDisconnected, configCRC, resetPending, toHost, hostVars,
                 resetAck, noticed, outOfStep>>

MainLoop ==
  RegisterNext \/ BuildDictionary
  \/ ReadNothing \/ AcceptFrame \/ RefuseFrame \/ WriteOut \/ CheckPendingReset
  \/ Timers

Next ==
  HostSend \/ HostResend \/ HostReceive \/ HostRestart \/ SpoilFrame \/ MainLoop

Spec == Init /\ [][Next]_vars

(* The main loop goes round; the host reads, asks on and resends.          *)
FairSpec ==
  /\ Spec
  /\ WF_vars(MainLoop) /\ WF_vars(HostReceive)
  /\ WF_vars(HostSend) /\ WF_vars(HostResend)

-----------------------------------------------------------------------------
(***************************************************************************)
(* Properties                                                              *)
(***************************************************************************)

TypeOK ==
  /\ loop \in {"boot", "read", "write", "check", "timers"}
  /\ {nextSequence, number} \subseteq 0 .. SeqRange - 1
  /\ Len(outputBuffer) <= Room /\ Len(toHost) <= MaxInFlight /\ Len(toMcu) <= 2
  /\ consecutiveWriteFailures \in 0 .. MaxFailures
  /\ {usbWasDisconnected, done, garbled, noticed, outOfStep} \subseteq BOOLEAN
  /\ configCRC \in 0 .. session
  /\ resetAck # "none" <=> resetPending
  /\ resetPending => loop \in {"write", "check"}

(* The dictionary d has every name of r once, by the ID that the firmware  *)
(* dispatches it under.                                                    *)
KnowsAll(d, r) ==
  \A i \in DOMAIN r :
    {e \in Range(Inflate(d)) : e.name = r[i].name} = {Entry(r, i)}

(* However writes fail, answers are repeated or lost and links go down,    *)
(* what the host has is the beginning of the dictionary, and when a short  *)
(* chunk tells it that this is all, it knows every registered name by the  *)
(* ID that the firmware dispatches it under (command.go:47-73,             *)
(* dictionary.go:437-470).                                                 *)
DictionaryIsWhole ==
  /\ IsPrefix(dict, cachedDict)
  /\ done => dict = cachedDict /\ KnowsAll(dict, registry)

(* main.go:204-206, "This ensures the ACK has been transmitted before      *)
(* reset": it has, unless the output buffer was full before it, or the     *)
(* flush and the main loop's own write have both failed.                   *)
AckBeforeReset ==
  [][resetPending /\ ~resetPending' => resetAck \in {"sent", "lost"}]_vars

(* Once the firmware has noticed that the host started over, it says       *)
(* nothing of the session before, and its configuration is gone, whatever  *)
(* a dead link had left in the buffers (main.go:159-168).                  *)
NoticedIsFresh ==
  [][noticed' => /\ configCRC' \in {0, session'}
                 /\ \A i \in DOMAIN toHost' :
                      i > Len(toHost) => toHost'[i].session \in {0, session'}]_vars

(* The host gets its dictionary in the end, through failed writes, panics  *)
(* and restarts, unless the two went out of step, or a reset that the host *)
(* before had asked for came in between (main.go:142-218, 324-364).        *)
FetchCompletes ==
  session = MaxSessions ~> (done \/ outOfStep \/ waiting = Gone)
=============================================================================
