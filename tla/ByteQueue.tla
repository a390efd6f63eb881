----------------------------- MODULE ByteQueue -----------------------------
(***************************************************************************)
(* What a bounded first-in first-out buffer of bytes promises: it keeps    *)
(* what was put in, in order, up to its capacity; it refuses a byte only   *)
(* when it is full, and says so; it gives back the oldest byte.            *)
(***************************************************************************)
EXTENDS Integers, Sequences

CONSTANTS
  Bytes,
  Capacity

VARIABLES
  contents,   \* the bytes, oldest first
  in,         \* the byte last offered
  accepted,   \* whether it was stored
  out         \* the byte the last read returned

vars == <<contents, in, accepted, out>>

Init == contents = <<>> /\ in \in Bytes /\ accepted = TRUE /\ out \in Bytes

Put(b) ==
  /\ Len(contents) < Capacity
  /\ contents' = Append(contents, b)
  /\ in' = b
  /\ accepted' = TRUE
  /\ UNCHANGED out

Refuse(b) ==
  /\ Len(contents) = Capacity
  /\ in' = b
  /\ accepted' = FALSE
  /\ UNCHANGED <<contents, out>>

Drop ==
  /\ contents # <<>>
  /\ contents' = Tail(contents)
  /\ UNCHANGED <<in, accepted, out>>

Take ==
  /\ contents # <<>>
  /\ out' = Head(contents)
  /\ contents' = Tail(contents)
  /\ UNCHANGED <<in, accepted>>

Clear == contents' = <<>> /\ UNCHANGED <<in, accepted, out>>

Next ==
  \/ \E b \in Bytes : Put(b) \/ Refuse(b)
  \/ Drop \/ Take \/ Clear

Spec == Init /\ [][Next]_vars
=============================================================================
