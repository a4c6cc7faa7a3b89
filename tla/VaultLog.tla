------------------------------ MODULE VaultLog ------------------------------
(***************************************************************************)
(* What a vault promises its clients about their ops, and nothing more: an *)
(* op is logged, a logged or committed op may be acked, an op may be       *)
(* committed, and only committed ops leave the log.  Neither acks nor      *)
(* commits are ever taken back, by a crash or by an I/O failure.           *)
(***************************************************************************)
CONSTANT OpIds

VARIABLES acked, logged, committed

vars == <<acked, logged, committed>>

Init == acked = {} /\ logged = {} /\ committed = {}

Log ==
  /\ UNCHANGED <<acked, committed>>
  /\ \E id \in OpIds : logged' = logged \cup {id}

Ack ==
  /\ UNCHANGED <<logged, committed>>
  /\ \E ids \in SUBSET (logged \cup committed) : acked' = acked \cup ids

Commit ==
  /\ UNCHANGED <<acked, logged>>
  /\ \E ids \in SUBSET OpIds : committed' = committed \cup ids

Trim ==
  /\ UNCHANGED <<acked, committed>>
  /\ \E ids \in SUBSET committed : logged' = logged \ ids

Next == Log \/ Ack \/ Commit \/ Trim

Spec == Init /\ [][Next]_vars

Promise == acked \subseteq logged \cup committed
=============================================================================
