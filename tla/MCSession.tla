----------------------------- MODULE MCSession -----------------------------
(***************************************************************************)
(* Instances of Session for TLC: boots that register three and four names, *)
(* one of them twice, so that the dictionary is and is not a multiple of   *)
(* the chunks.                                                             *)
(***************************************************************************)
EXTENDS Session

Bootstrap == <<
  [name |-> "identify_response", handled |-> FALSE],
  [name |-> "identify", handled |-> TRUE]>>

Trsync == [name |-> "trsync_start", handled |-> TRUE]

BootSequences == {
  Bootstrap \o <<Trsync, Trsync>>,
  Bootstrap \o <<[name |-> "clock", handled |-> FALSE], Trsync, Trsync>>}

=============================================================================
