----------------------------- MODULE Transport -----------------------------
(***************************************************************************)
(* protocol/transport.go: the sequenced, acknowledged link between the     *)
(* host and the firmware.  Transport.Receive is modelled one frame at a    *)
(* time over a first-in first-out channel of whole frames; a frame damaged *)
(* on the way is "bad", with or without its trailing sync byte.  The host  *)
(* is external: it numbers its frames from 0x10 on, keeps a window of them *)
(* unacknowledged, takes every sequence number it is sent as "everything   *)
(* before this one arrived", and resends all unacknowledged frames, maybe  *)
(* while the originals are still under way (transport.go:142-145).        *)
(* It opens a session with one frame, the identify request, and waits for  *)
(* its acknowledgement before it sends more.                               *)
(*                                                                         *)
(* Sequence numbers 0x10-0x1F are 0 .. SeqRange-1 here.                    *)
(***************************************************************************)
EXTENDS Integers, Sequences

CONSTANTS
  SeqRange,      \* 16 in the code
  Window,        \* unacknowledged frames the host allows itself
  MaxFrames,     \* bound: frames per host session
  MaxInFlight,   \* bound: frames in each channel
  MaxFaults,     \* bound: frames damaged or lost
  MaxSessions    \* bound: host sessions

ASSUME TransportAssumption ==
  /\ SeqRange \in Nat \ {0} /\ Window \in Nat \ {0}
  /\ Window < SeqRange
  /\ MaxFrames \in Nat /\ MaxInFlight \in Nat /\ MaxFaults \in Nat
  /\ MaxSessions \in Nat \ {0}

VARIABLES
  session,        \* the host's session
  sent, acked,    \* frames of it the host has sent, and believes received
  toMcu, toHost,  \* the channels
  faults,
  synchronized,   \* Transport.isSynchronized
  nextSequence,   \* Transport.nextSequence
  executed,       \* history: frames handed to parseFrame since the host
                  \* last started over, in order
  spurious,       \* history: the reset callback ran, yet the host had not
                  \* started over
  unnoticed       \* history: a new session's frame ran without the callback

hostVars == <<session, sent, acked>>
mcuVars == <<synchronized, nextSequence, executed, spurious, unnoticed>>
vars == <<hostVars, toMcu, toHost, faults, mcuVars>>

Frame(s, n) == [kind |-> "frame", session |-> s, num |-> n]
Bad(sync) == [kind |-> "bad", sync |-> sync]
Seqno(f) == f.num % SeqRange

Frames == {Frame(s, n) : s \in 1 .. MaxSessions, n \in 0 .. (MaxFrames - 1)}
Answers == [kind : {"ack", "response"}, seq : 0 .. (SeqRange - 1)]

TypeOK ==
  /\ session \in 1 .. MaxSessions
  /\ sent \in 0 .. MaxFrames /\ acked \in 0 .. sent
  /\ toMcu \in Seq(Frames \union {Bad(b) : b \in BOOLEAN})
  /\ toHost \in Seq(Answers)
  /\ faults \in 0 .. MaxFaults
  /\ synchronized \in BOOLEAN
  /\ nextSequence \in 0 .. (SeqRange - 1)
  /\ executed \in Seq(Frames)
  /\ spurious \in BOOLEAN /\ unnoticed \in BOOLEAN

Init ==
  /\ session = 1 /\ sent = 0 /\ acked = 0
  /\ toMcu = <<>> /\ toHost = <<>> /\ faults = 0
  /\ synchronized = TRUE /\ nextSequence = 0
  /\ executed = <<>> /\ spurious = FALSE
  /\ unnoticed = FALSE

-----------------------------------------------------------------------------
(* The host.                                                               *)

HostSend ==
  /\ sent < MaxFrames /\ sent - acked < Window
  /\ sent > 0 => acked > 0
  /\ Len(toMcu) < MaxInFlight
  /\ toMcu' = Append(toMcu, Frame(session, sent))
  /\ sent' = sent + 1
  /\ UNCHANGED <<session, acked, toHost, faults, mcuVars>>

HostResend ==
  /\ acked < sent
  /\ Len(toMcu) + sent - acked <= MaxInFlight
  /\ toMcu' = toMcu \o [i \in 1 .. (sent - acked) |->
                          Frame(session, acked + i - 1)]
  /\ UNCHANGED <<hostVars, toHost, faults, mcuVars>>

(* An answer for a frame the host never sent is ignored.                   *)
HostReceive ==
  /\ toHost # <<>>
  /\ toHost' = Tail(toHost)
  /\ LET upTo == acked + ((Head(toHost).seq - acked) % SeqRange)
     IN  acked' = IF upTo <= sent THEN upTo ELSE acked
  /\ UNCHANGED <<session, sent, toMcu, faults, mcuVars>>

-----------------------------------------------------------------------------
(* The cable.                                                              *)

DamageFrame ==
  /\ faults < MaxFaults
  /\ \E i \in 1 .. Len(toMcu), sync \in BOOLEAN :
       /\ toMcu[i].kind = "frame"
       /\ toMcu' = [toMcu EXCEPT ![i] = Bad(sync)]
  /\ faults' = faults + 1
  /\ UNCHANGED <<hostVars, toHost, mcuVars>>

LoseAnswer ==
  /\ faults < MaxFaults
  /\ toHost # <<>>
  /\ toHost' = Tail(toHost)
  /\ faults' = faults + 1
  /\ UNCHANGED <<hostVars, toMcu, mcuVars>>

-----------------------------------------------------------------------------
(* The firmware: Transport.Receive.                                        *)

TakeItem == toMcu # <<>> /\ toMcu' = Tail(toMcu)
Item == Head(toMcu)
HasSync(item) == item # Bad(FALSE)

(* encodeAckNak: the next sequence number expected, behind whatever the    *)
(* output buffer holds, and all of it flushed to USB.                      *)
EncodeAckNak(buffered, seq) ==
  /\ Len(toHost) + Len(buffered) < MaxInFlight
  /\ toHost' = toHost \o buffered \o <<[kind |-> "ack", seq |-> seq]>>

(* Frame 0x10 while another number is expected is taken for a host that    *)
(* has started over.                                                       *)
IsHostReset(f) == Seqno(f) = 0 /\ nextSequence # 0
ExpectedSeq(f) == IF IsHostReset(f) THEN 0 ELSE nextSequence

(* Frames of session s have been run.                                      *)
Ran(s) == \E i \in DOMAIN executed : executed[i].session = s

(* Mutant: the mask with MessageSeqMask is forgotten.                      *)
NextSeqNoMask(seq) == seq + 1

NextSeq(seq) == (seq + 1) % SeqRange

(* Mutant: any well-formed frame is accepted.                              *)
MatchesAny(f) == TRUE

Matches(f) == Seqno(f) = ExpectedSeq(f)

(* Process frame if sequence matches: the reset callback, parseFrame (its  *)
(* handlers may answer; an error ends the frame, a panic or a malformed    *)
(* command ends it and loses synchronization), then the acknowledgement.   *)
AcceptFrame(loses, answers) ==
  /\ TakeItem /\ synchronized
  /\ Item.kind = "frame" /\ Matches(Item)
  /\ LET next == NextSeq(Seqno(Item))
     IN  /\ nextSequence' = next
         /\ EncodeAckNak(IF answers THEN <<[kind |-> "response", seq |-> next]>>
                                    ELSE <<>>, next)
  /\ executed' = IF IsHostReset(Item) /\ ~Ran(Item.session)
                 THEN <<Item>> ELSE Append(executed, Item)
  /\ spurious' = (spurious \/ (IsHostReset(Item) /\ Ran(Item.session)))
  /\ unnoticed' = (unnoticed \/ (~IsHostReset(Item) /\ executed # <<>>
                                 /\ ~Ran(Item.session)))
  /\ synchronized' = ~loses
  /\ UNCHANGED <<hostVars, faults>>

(* Mutant: a refused frame still moves the expected sequence number on.    *)
RefuseFrameAdvances ==
  /\ TakeItem /\ synchronized
  /\ Item.kind = "frame" /\ ~Matches(Item)
  /\ nextSequence' = NextSeq(nextSequence)
  /\ EncodeAckNak(<<>>, nextSequence')
  /\ UNCHANGED <<hostVars, faults, synchronized, executed, spurious, unnoticed>>

(* Another frame than the one expected is not run, but acknowledged with   *)
(* the number expected.                                                    *)
RefuseFrame ==
  /\ TakeItem /\ synchronized
  /\ Item.kind = "frame" /\ ~Matches(Item)
  /\ EncodeAckNak(<<>>, nextSequence)
  /\ UNCHANGED <<hostVars, faults, mcuVars>>

(* Mutant: the search for a sync byte leaves the flag as it was.           *)
ResyncKeepsLooking ==
  /\ TakeItem
  /\ Item.kind = "bad" \/ ~synchronized
  /\ HasSync(Item)
  /\ EncodeAckNak(<<>>, nextSequence)
  /\ synchronized' = FALSE
  /\ UNCHANGED <<hostVars, faults, nextSequence, executed, spurious, unnoticed>>

(* A bad frame, or any frame while unsynchronized: everything up to the    *)
(* next sync byte is skipped, and what is expected is said again.          *)
Resync ==
  /\ TakeItem
  /\ Item.kind = "bad" \/ ~synchronized
  /\ HasSync(Item)
  /\ EncodeAckNak(<<>>, nextSequence)
  /\ synchronized' = TRUE
  /\ UNCHANGED <<hostVars, faults, nextSequence, executed, spurious, unnoticed>>

(* No sync byte in what is left: all of it is discarded.                   *)
DiscardGarbage ==
  /\ TakeItem
  /\ ~HasSync(Item)
  /\ synchronized' = FALSE
  /\ UNCHANGED <<hostVars, toHost, faults, nextSequence, executed, spurious,
                 unnoticed>>

(* The host starts over on a fresh port: nothing of the old session is     *)
(* still under way.                                                        *)
NewSession ==
  /\ session < MaxSessions
  /\ session' = session + 1 /\ sent' = 0 /\ acked' = 0
  /\ toMcu' = <<>> /\ toHost' = <<>>
  /\ UNCHANGED faults

(* The main loop noticed that the USB link was down (writes had failed) and *)
(* resets the transport before the new session's first byte.               *)
Reset ==
  /\ NewSession
  /\ synchronized' = TRUE /\ nextSequence' = 0
  /\ executed' = <<>>
  /\ UNCHANGED <<spurious, unnoticed>>

(* The host starts over and the firmware has not noticed.                  *)
HostRestart == NewSession /\ UNCHANGED mcuVars

-----------------------------------------------------------------------------
Receive ==
  \/ \E loses, answers \in BOOLEAN : AcceptFrame(loses, answers)
  \/ RefuseFrame \/ Resync \/ DiscardGarbage

Next ==
  \/ HostSend \/ HostResend \/ HostReceive
  \/ DamageFrame \/ LoseAnswer
  \/ Receive \/ Reset \/ HostRestart

Spec == Init /\ [][Next]_vars

(* The main loop keeps calling Receive; the host reads what it is sent and *)
(* its retransmission timer keeps firing.                                  *)
FairSpec ==
  /\ Spec
  /\ WF_vars(Receive) /\ WF_vars(HostReceive)
  /\ SF_vars(HostResend)

-----------------------------------------------------------------------------
(***************************************************************************)
(* Properties                                                              *)
(***************************************************************************)

(* As long as no frame 0x10 is mistaken for a host reset, and none of a    *)
(* restarted host is mistaken for the old one's, what has run since the    *)
(* host started is its frames in order, each once, whatever was damaged,   *)
(* lost, resent or duplicated on the way (transport.go:122-141).           *)
InOrderOnce ==
  ~spurious /\ ~unnoticed =>
    \A i \in DOMAIN executed :
      executed[i] = Frame(executed[1].session, i - 1)

(* Once the firmware runs the host's session, what the host believes       *)
(* received has run: an acknowledgement never covers a frame that was      *)
(* refused or skipped (transport.go:142-145).                              *)
AckedWereExecuted ==
  ~spurious /\ ~unnoticed /\ Ran(session) => acked <= Len(executed)

(* Every frame the host sends is acknowledged in the end, through damage,  *)
(* lost synchronization and lost answers (transport.go:51-71).             *)
EventuallyAcked ==
  \A n \in 1 .. MaxFrames :
    (sent >= n /\ session = MaxSessions) ~> (acked >= n \/ spurious \/ unnoticed)
=============================================================================
