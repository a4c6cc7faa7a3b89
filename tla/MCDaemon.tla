------------------------------ MODULE MCDaemon ------------------------------
(***************************************************************************)
(* A vault directory, from two sides: what one daemon does with two files, *)
(* of which two deletes are many, and what several daemons and commands do *)
(* to the files of the daemon.  The initial state says which of them a     *)
(* behaviour is about.                                                     *)
(***************************************************************************)
EXTENDS VaultDaemon, LocalProcesses

VARIABLE part

MCInit ==
  /\ Init /\ LocalInit
  /\ part \in {"daemon", "processes"}
  /\ IF part = "daemon" THEN listed ELSE \A p \in Paths : disk[p] = Absent
MCNext ==
  /\ \/ part = "daemon" /\ Next /\ UNCHANGED localVars
     \/ part = "processes" /\ LocalNext /\ UNCHANGED vars
  /\ UNCHANGED part
MCSpec == MCInit /\ [][MCNext]_<<vars, localVars, part>> /\ Fairness
=============================================================================
