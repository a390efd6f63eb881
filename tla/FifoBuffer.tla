----------------------------- MODULE FifoBuffer ----------------------------
(***************************************************************************)
(* protocol/buffers.go: FifoBuffer, the circular buffer between the USB    *)
(* reader and the transport.  Write, Read and Pop are loops over bytes; an *)
(* iteration of a loop is a step here, so a call is any number of steps.   *)
(***************************************************************************)
EXTENDS Integers, Sequences

CONSTANTS
  Bytes,
  Size       \* f.size (256 in the main loops)

ASSUME FifoAssumption == Size \in Nat \ {0, 1} /\ Bytes # {}

VARIABLES
  buf,        \* f.buf
  read,       \* f.read
  write,      \* f.write
  in,         \* the last byte given to Write
  accepted,   \* Write stored it
  out         \* the last byte Read gave

fifoVars == <<buf, read, write, in, accepted, out>>

Index == 0 .. (Size - 1)

FifoTypeOK ==
  /\ buf \in [Index -> Bytes]
  /\ read \in Index /\ write \in Index
  /\ accepted \in BOOLEAN
  /\ in \in Bytes /\ out \in Bytes

(* A made slice holds zeroes; any byte stands for the zero here.           *)
FifoInit ==
  /\ \E zero \in Bytes : /\ buf = [i \in Index |-> zero]
                       /\ in = zero /\ out = zero
  /\ read = 0 /\ write = 0
  /\ accepted = TRUE

-----------------------------------------------------------------------------
(* Mutant: the index runs into the slot past the end.                      *)
AdvanceTooFar(i) == IF i < Size THEN i + 1 ELSE 0

(* (i + 1) % f.size, for i an index                                        *)
Advance(i) == IF i + 1 = Size THEN 0 ELSE i + 1

(* Mutant: a full buffer is not noticed.                                   *)
FullNever == FALSE

Full == Advance(write) = read
Empty == read = write

Available == IF write >= read THEN write - read ELSE Size - read + write
Free == Size - Available - 1

(* Mutant: the index is moved before the byte is stored.                   *)
WriteByteLate(b) ==
  /\ ~Full
  /\ buf' = [buf EXCEPT ![Advance(write)] = b]
  /\ write' = Advance(write)
  /\ in' = b /\ accepted' = TRUE
  /\ UNCHANGED <<read, out>>

WriteByte(b) ==
  /\ ~Full
  /\ buf' = [buf EXCEPT ![write] = b]
  /\ write' = Advance(write)
  /\ in' = b /\ accepted' = TRUE
  /\ UNCHANGED <<read, out>>

(* "Buffer full": the main loop counts an error and the byte is gone.      *)
WriteFull(b) ==
  /\ Full
  /\ in' = b /\ accepted' = FALSE
  /\ UNCHANGED <<buf, read, write, out>>

ReadByte ==
  /\ ~Empty
  /\ out' = buf[read]
  /\ read' = Advance(read)
  /\ UNCHANGED <<buf, write, in, accepted>>

PopByte ==
  /\ ~Empty
  /\ read' = Advance(read)
  /\ UNCHANGED <<buf, write, in, accepted, out>>

ResetFifo ==
  /\ read' = 0 /\ write' = 0
  /\ UNCHANGED <<buf, in, accepted, out>>

FifoNext ==
  \/ \E b \in Bytes : WriteByte(b) \/ WriteFull(b)
  \/ ReadByte \/ PopByte \/ ResetFifo

FifoSpec == FifoInit /\ [][FifoNext]_fifoVars

-----------------------------------------------------------------------------
(* Data: what the transport parses, one slice, or two copied together.     *)
Data ==
  IF read <= write
  THEN [i \in 1 .. (write - read) |-> buf[read + i - 1]]
  ELSE LET firstLen == Size - read
       IN  [i \in 1 .. Available |->
              IF i <= firstLen THEN buf[read + i - 1] ELSE buf[i - firstLen - 1]]

(* Available, Free and Data agree at every position of the two indices:    *)
(* what is announced is what is there.                                     *)
CountsAgree ==
  /\ Len(Data) = Available
  /\ Free \in 0 .. (Size - 1)
  /\ Free = 0 <=> Full

(* The buffer keeps the promises of a bounded queue whose contents are     *)
(* Data: no byte is lost, repeated or reordered across the wrap, and a     *)
(* byte is refused only when Size - 1 are waiting.                         *)
Queue == INSTANCE ByteQueue WITH contents <- Data, Capacity <- Size - 1

ImplementsByteQueue == Queue!Spec
=============================================================================
