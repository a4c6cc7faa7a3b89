--------------------------- MODULE LocalProcesses ---------------------------
(***************************************************************************)
(* The processes that one user runs on one vault directory: the daemon,    *)
(* the one-shot commands (sync, pull), the commands that only queue an op  *)
(* (trash restore --push, confirm), and those that tidy up (list --prune,  *)
(* remove, init --reset).                                                  *)
(*                                                                         *)
(* They share the files of .leyline/backend and the registry of vaults.    *)
(* Only daemons take the lock on the pid file, and they open the tiers     *)
(* before they take it; each process works on the copy of staged.jsonl and *)
(* base.json that it read when it opened them.  A rewrite replaces a file, *)
(* and whoever had the old one open keeps writing to that.                 *)
(*                                                                         *)
(* VaultDaemon and SyncSession have what one process does with an op; here *)
(* an op is its seq and which op it is.                                    *)
(***************************************************************************)
EXTENDS Integers, FiniteSets, SequencesExt

CONSTANTS
  MaxPid,    \* bound: processes at a time
  MaxOps,    \* bound: ops under one client id
  MaxLoad,   \* bound: processes and ops together
  MaxKills,  \* bound: processes that crash or are killed
  Races      \* the known races and defects that are let loose

ASSUME BoundsAssumption == MaxPid \in Nat
ASSUME RacesAssumption ==
  Races \subseteq {"release", "stale", "beside", "prune", "save", "verify"}

VARIABLES
  procs,       \* the processes, by pid
  pidFile,     \* the inode at the path of the pid file, or None
  locks,       \* every inode: who holds its flock, which pid is written in it
  sock,        \* who made the socket file: a pid, perhaps of a dead process
  listed,      \* the vault is in the registry
  t1,          \* staged.jsonl
  savedSeq,    \* NextSeq in base.json
  highest,     \* the server: highest seq accepted from this client id
  given,       \* history: the seq of each op
  accepted,    \* history: the ops the server took
  kills        \* bound

shared == <<pidFile, locks, sock, listed>>
logs == <<t1, savedSeq>>
remote == <<highest, given, accepted>>
localVars == <<procs, shared, logs, remote, kills>>

None == 0
Pids == 1 .. MaxPid
Inodes == 1 .. MaxPid + 1   \* one more than can be open
Free == [holder |-> None, text |-> None]

\* kind, at: the program and how far it is; t1, next: its copies of the log
\* and of NextSeq, and whether its handle is on the file at the path; lock:
\* its pid file; roots: what it read of the registry or has open of it;
\* target: whom it stops; last: the seq up to which its push was acked.
NoProcess == [kind |-> "none", at |-> "gone", t1 |-> << >>, next |-> 1, linked |-> FALSE,
         unsaved |-> FALSE, lock |-> None, roots |-> FALSE, target |-> None,
         stop |-> FALSE, last |-> 0]

Is(p, kind, at) == procs[p].kind = kind /\ procs[p].at = at
Daemons(where) == {p \in Pids : procs[p].kind = "daemon" /\ procs[p].at \in where}

\* Those who may still write to the tiers.
Commands == {p \in Pids : procs[p].at \in {"once", "pull", "queue"}}
Working == Commands \cup Daemons({"locked", "registering", "registered", "live"})

LocalInit ==
  /\ procs = [p \in Pids |-> NoProcess]
  /\ pidFile = None /\ locks = [i \in Inodes |-> Free]
  /\ sock = None /\ listed \in BOOLEAN
  /\ t1 = << >> /\ savedSeq = 1
  /\ highest = 0 /\ given = << >> /\ accepted = {}
  /\ kills = 0

Load == Cardinality({p \in Pids : procs[p] # NoProcess}) + Len(given)

\* A pid that nobody has, and that no stale pid file names.
Start(process) ==
  LET named == IF pidFile = None THEN None ELSE locks[pidFile].text
      free == {p \in Pids : procs[p] = NoProcess /\ p # named} IN
  /\ free # {} /\ Load < MaxLoad
  /\ procs' = [procs EXCEPT ![CHOOSE p \in free : TRUE] = process]

\* NewDaemon, runOneShotSession, RunTrashRestore: OpenStaged and ReadBase.
Opened(kind, at) ==
  [NoProcess EXCEPT !.kind = kind, !.at = at, !.t1 = t1, !.next = savedSeq, !.linked = TRUE]

End(p) == procs' = [procs EXCEPT ![p] = NoProcess]
To(p, at) == procs' = [procs EXCEPT ![p].at = at]
-----------------------------------------------------------------------------
(***************************************************************************)
(* The daemon from its start to the listening socket.                      *)
(***************************************************************************)
StartDaemon ==
  /\ Start(Opened("daemon", "opened"))
  /\ UNCHANGED <<shared, logs, remote, kills>>

LockOpen(p) ==
  /\ Is(p, "daemon", "opened")
  /\ "release" \in Races \/ Daemons({"unlocked"}) = {}
  /\ LET used == {pidFile} \cup {procs[q].lock : q \in Pids}
         i == IF pidFile # None THEN pidFile ELSE CHOOSE j \in Inodes \ used : TRUE IN
     /\ pidFile' = i
     /\ locks' = IF pidFile # None THEN locks ELSE [locks EXCEPT ![i] = Free]
     /\ procs' = [procs EXCEPT ![p].at = "lockfile", ![p].lock = i]
  /\ UNCHANGED <<sock, listed, logs, remote, kills>>

\* Faulty: that the lock is held elsewhere is not an error.
TakenNever(i) == FALSE
Taken(i) == locks[i].holder # None

Fresh(p) == procs[p].t1 = t1 /\ procs[p].next = savedSeq

Flock(p) ==
  /\ Is(p, "daemon", "lockfile")
  /\ \/ /\ Taken(procs[p].lock)   \* "daemon already running"
        /\ End(p) /\ UNCHANGED locks
     \/ /\ ~Taken(procs[p].lock)
        /\ "beside" \in Races \/ Commands = {}
        /\ "stale" \in Races \/ Fresh(p)
        /\ locks' = [locks EXCEPT ![procs[p].lock] = [holder |-> p, text |-> p]]
        /\ To(p, "locked")
  /\ UNCHANGED <<pidFile, sock, listed, logs, remote, kills>>

\* Register opens the file and then waits for its lock.
RegisterOpen(p) ==
  /\ Is(p, "daemon", "locked")
  /\ procs' = [procs EXCEPT ![p].at = "registering", ![p].roots = TRUE]
  /\ UNCHANGED <<shared, logs, remote, kills>>

RegisterAppend(p) ==
  /\ Is(p, "daemon", "registering")
  /\ listed' = (listed \/ procs[p].roots)
  /\ To(p, "registered")
  /\ UNCHANGED <<pidFile, locks, sock, logs, remote, kills>>

\* The socket file of a dead daemon is in the way and is removed.
Listen(p) ==
  /\ Is(p, "daemon", "registered")
  /\ sock' = p
  /\ To(p, "live")
  /\ UNCHANGED <<pidFile, locks, listed, logs, remote, kills>>
-----------------------------------------------------------------------------
(***************************************************************************)
(* The end of the daemon, in the order of its defers.                      *)
(***************************************************************************)
Shutdown(p) ==
  /\ Is(p, "daemon", "live") /\ ~procs[p].unsaved /\ procs[p].last = 0
  /\ To(p, "closing")
  /\ UNCHANGED <<shared, logs, remote, kills>>

CloseSocket(p) ==
  /\ Is(p, "daemon", "closing")
  /\ sock' = None
  /\ To(p, "closed")
  /\ UNCHANGED <<pidFile, locks, listed, logs, remote, kills>>

\* Release unlocks the file and then removes whatever is at its path.
Unlock(p) ==
  /\ Is(p, "daemon", "closed")
  /\ "release" \in Races \/ Daemons({"lockfile"}) = {}
  /\ locks' = [locks EXCEPT ![procs[p].lock].holder = None]
  /\ To(p, "unlocked")
  /\ UNCHANGED <<pidFile, sock, listed, logs, remote, kills>>

RemovePidFile(p) ==
  /\ Is(p, "daemon", "unlocked")
  /\ pidFile' = None
  /\ End(p)
  /\ UNCHANGED <<locks, sock, listed, logs, remote, kills>>

\* The kernel gives the lock back; the files stay.
Killed(p) ==
  /\ procs[p].unsaved => "save" \in Races
  /\ locks' = [i \in Inodes |->
                 IF locks[i].holder = p THEN [locks[i] EXCEPT !.holder = None] ELSE locks[i]]
  /\ End(p)
  /\ UNCHANGED <<pidFile, sock, listed, logs, remote>>

Kill(p) ==
  /\ procs[p] # NoProcess /\ kills < MaxKills
  /\ kills' = kills + 1
  /\ Killed(p)
-----------------------------------------------------------------------------
(***************************************************************************)
(* The commands that work on the tiers.  None of them takes the lock.  A   *)
(* sync that finds a socket file asks its daemon and touches nothing; a    *)
(* pull asks, too, is answered that daemons cannot pull, and goes on.      *)
(***************************************************************************)
MayOpen == "beside" \in Races \/ Working = {}

\* VerifyBaseSnapshot may find base/ damaged beyond repair: ResetBase then
\* removes base.json, with NextSeq, and keeps the client id and the staged ops.
BaseLost == "verify" \in Races \/ given = << >>

OpenSession(kind, at) ==
  /\ MayOpen
  /\ \/ Start(Opened(kind, at)) /\ UNCHANGED savedSeq
     \/ BaseLost /\ savedSeq' = 1 /\ Start([Opened(kind, at) EXCEPT !.next = 1])
  /\ UNCHANGED <<shared, t1, remote, kills>>

RunSync == sock = None /\ OpenSession("sync", "once")
RunPull == OpenSession("pull", "pull")

RunTrashRestore ==
  /\ MayOpen
  /\ Start(Opened("restore", "queue"))
  /\ UNCHANGED <<shared, logs, remote, kills>>

InSession(p) == procs[p].at = "once" \/ Is(p, "daemon", "live")

\* EnqueueOps: StagedLog.Append ...
AppendStaged(p) ==
  /\ InSession(p) \/ procs[p].at = "queue"
  /\ procs[p].kind # "daemon" => procs[p].last = 0   \* only watchers do not wait
  /\ ~procs[p].unsaved /\ Len(given) < MaxOps /\ Load < MaxLoad
  /\ LET op == [seq |-> procs[p].next, id |-> Len(given) + 1] IN
     /\ given' = Append(given, op.seq)
     /\ t1' = IF procs[p].linked THEN Append(t1, op) ELSE t1
     /\ procs' = [procs EXCEPT ![p].t1 = Append(@, op), ![p].next = @ + 1,
                               ![p].unsaved = TRUE]
  /\ UNCHANGED <<shared, savedSeq, highest, accepted, kills>>

\* ... and then WriteBase.
SaveSeq(p) ==
  /\ procs[p].unsaved
  /\ savedSeq' = procs[p].next
  /\ procs' = [procs EXCEPT ![p].unsaved = FALSE]
  /\ UNCHANGED <<shared, t1, remote, kills>>

\* A pull ends with the base that it has caught up to, seq and all.
SaveBase(p) ==
  /\ procs[p].at = "pull"
  /\ savedSeq' = procs[p].next
  /\ End(p)
  /\ UNCHANGED <<shared, t1, remote, kills>>

\* The ops of a log behind a seq.
After(ops, seq) ==
  LET kept[n \in 0 .. Len(ops)] ==
        IF n = 0 THEN << >>
        ELSE IF ops[n].seq > seq THEN Append(kept[n - 1], ops[n]) ELSE kept[n - 1]
  IN kept[Len(ops)]

\* The batch reaches the server, which drops a head of known seqs; the ack
\* may not come back.
PushStaged(p) ==
  LET ops == procs[p].t1
      new == After(ops, highest)
      ascending == \A i, j \in DOMAIN new : i < j => new[i].seq < new[j].seq
      head == SubSeq(ops, 1, Len(ops) - Len(new)) IN
  /\ InSession(p) /\ ~procs[p].unsaved /\ procs[p].last = 0
  /\ ops # << >> /\ ascending /\ \A i \in DOMAIN head : head[i].seq <= highest
  /\ highest' = IF new = << >> THEN highest ELSE Last(new).seq
  /\ accepted' = accepted \cup {new[i].id : i \in DOMAIN new}
  /\ \E last \in {0, Last(ops).seq} : procs' = [procs EXCEPT ![p].last = last]
  /\ UNCHANGED <<shared, logs, given, kills>>

\* Faulty: the log is emptied, with what was appended while the ack was awaited.
TrimmedAll(ops, last) == << >>
Trimmed(ops, last) == After(ops, last)

\* RewriteRetaining writes the process's copy to a new file.
Trim(p) ==
  LET keep == Trimmed(procs[p].t1, procs[p].last) IN
  /\ procs[p].last # 0
  /\ t1' = keep
  /\ savedSeq' = procs[p].next
  /\ procs' = [q \in Pids |->
       IF q = p THEN [procs[p] EXCEPT !.t1 = keep, !.last = 0, !.linked = TRUE, !.unsaved = FALSE]
                ELSE [procs[q] EXCEPT !.linked = FALSE]]
  /\ UNCHANGED <<shared, remote, kills>>

\* resetBaseAndReopen, when the daemon connects again.
DropBase(p) ==
  /\ Is(p, "daemon", "live") /\ ~procs[p].unsaved /\ procs[p].last = 0
  /\ BaseLost
  /\ savedSeq' = 1
  /\ procs' = [procs EXCEPT ![p].next = 1]
  /\ UNCHANGED <<shared, t1, remote, kills>>

Exit(p) ==
  /\ procs[p].at \in {"once", "queue"} /\ ~procs[p].unsaved /\ procs[p].last = 0
  /\ End(p)
  /\ UNCHANGED <<shared, logs, remote, kills>>
-----------------------------------------------------------------------------
(***************************************************************************)
(* The registry, the pid file and init --reset, from outside.              *)
(***************************************************************************)
RunListPrune ==
  /\ Start([NoProcess EXCEPT !.kind = "prune", !.at = "rewrite", !.roots = listed])
  /\ UNCHANGED <<shared, logs, remote, kills>>

RunRemove ==
  /\ listed
  /\ Start([NoProcess EXCEPT !.kind = "remove", !.at = "stop", !.roots = FALSE])
  /\ UNCHANGED <<shared, logs, remote, kills>>

\* stopVault asks whom the pid file names, if there is such a process.
StopVault(p) ==
  /\ Is(p, "remove", "stop")
  /\ LET t == IF pidFile = None THEN None ELSE locks[pidFile].text IN
     procs' = [q \in Pids |->
       CASE q = p -> [procs[p] EXCEPT !.at = "rewrite",
                        !.target = IF t \in Pids /\ procs[t] # NoProcess THEN t ELSE None]
         [] q # p /\ q = t /\ procs[q] # NoProcess -> [procs[q] EXCEPT !.stop = TRUE]
         [] OTHER -> procs[q]]
  /\ UNCHANGED <<shared, logs, remote, kills>>

\* It did not end in time: SIGKILL.
StopByForce(p) ==
  /\ p \in Pids /\ procs[p].stop
  /\ Killed(p)
  /\ UNCHANGED kills

Rewrite(p) ==
  /\ procs[p].at = "rewrite"
  /\ procs[p].target # None => procs[procs[p].target] = NoProcess
  /\ "prune" \in Races \/
       /\ Daemons({"registering"}) = {}
       /\ procs[p].roots \/ Daemons({"registered", "live"}) = {}
  /\ listed' = procs[p].roots
  /\ procs' = [q \in Pids |-> IF q = p THEN NoProcess ELSE
                 IF Is(q, "daemon", "registering") THEN [procs[q] EXCEPT !.roots = FALSE]
                                                   ELSE procs[q]]
  /\ UNCHANGED <<pidFile, locks, sock, logs, remote, kills>>

\* RunInit with --reset, on a vault that nothing works on: a new client id.
RunInitReset ==
  /\ \A p \in Pids : procs[p] = NoProcess
  /\ pidFile' = None /\ sock' = None /\ listed' = TRUE
  /\ locks' = [i \in Inodes |-> Free]
  /\ t1' = << >> /\ savedSeq' = 1
  /\ highest' = 0 /\ given' = << >> /\ accepted' = {}
  /\ UNCHANGED <<procs, kills>>
-----------------------------------------------------------------------------
DaemonStep(p) ==
  \/ LockOpen(p) \/ Flock(p) \/ RegisterOpen(p) \/ RegisterAppend(p) \/ Listen(p)
  \/ Shutdown(p) \/ CloseSocket(p) \/ Unlock(p) \/ RemovePidFile(p)
TierStep(p) ==
  \/ AppendStaged(p) \/ SaveSeq(p) \/ SaveBase(p) \/ PushStaged(p) \/ Trim(p)
  \/ DropBase(p) \/ Exit(p)

LocalNext ==
  \/ StartDaemon \/ RunSync \/ RunPull \/ RunTrashRestore
  \/ RunListPrune \/ RunRemove \/ RunInitReset
  \/ \E p \in Pids : DaemonStep(p) \/ TierStep(p) \/ Kill(p)
                       \/ StopVault(p) \/ StopByForce(p) \/ Rewrite(p)

LocalSpec == LocalInit /\ [][LocalNext]_localVars
-----------------------------------------------------------------------------
(***************************************************************************)
(* Correctness                                                             *)
(***************************************************************************)

\* A daemon that serves is the one that the pid file, the socket and the
\* registry lead to: there is never a second one, and stop, list and remove
\* reach it.
DaemonIsFound ==
  \A p \in Daemons({"live"}) :
    /\ pidFile # None /\ locks[pidFile] = [holder |-> p, text |-> p]
    /\ sock = p /\ listed

\* An op that was staged stays in staged.jsonl until the server has taken it:
\* no process writes its older copy over it, and none takes the ack of another
\* op with the same seq for its own.
OpsKept ==
  \A id \in DOMAIN given : id \in accepted \/ \E i \in DOMAIN t1 : t1[i].id = id
-----------------------------------------------------------------------------
(***************************************************************************)
(* Why they hold, when no race is let loose: the inductive invariant.      *)
(***************************************************************************)
LogOps == [seq : Nat, id : Nat]
Process ==
  [kind : {"none", "daemon", "sync", "pull", "restore", "prune", "remove"},
   at : {"gone", "opened", "lockfile", "locked", "registering", "registered", "live",
         "closing", "closed", "unlocked", "once", "pull", "queue", "rewrite", "stop"},
   t1 : Seq(LogOps), next : Nat, linked : BOOLEAN, unsaved : BOOLEAN,
   lock : Inodes \cup {None}, roots : BOOLEAN, target : Pids \cup {None},
   stop : BOOLEAN, last : Nat]

LocalTypeOK ==
  /\ procs \in [Pids -> Process]
  /\ pidFile \in Inodes \cup {None}
  /\ locks \in [Inodes -> [holder : Pids \cup {None}, text : Pids \cup {None}]]
  /\ sock \in Pids \cup {None} /\ listed \in BOOLEAN
  /\ t1 \in Seq(LogOps) /\ savedSeq \in Nat
  /\ highest \in Nat /\ given \in Seq(Nat)

\* From its flock to its unlock a daemon has the pid file at the path, its
\* lock and its text.
Owners == Daemons({"locked", "registering", "registered", "live", "closing", "closed"})

OwnersHoldLock ==
  /\ \A p \in Owners \cup Daemons({"lockfile"}) : pidFile # None /\ procs[p].lock = pidFile
  /\ \A p \in Owners : locks[pidFile] = [holder |-> p, text |-> p]

\* Between its unlock and the removal of the file nobody is after the lock.
UnlockedAlone == Daemons({"unlocked"}) # {} => Owners \cup Daemons({"lockfile"}) = {}

\* What a daemon has got done on its way to live.
OnTheWay ==
  /\ \A p \in Daemons({"registering"}) : procs[p].roots
  /\ Daemons({"registered", "live"}) # {} => listed
  /\ \A p \in Daemons({"live"}) : sock = p

FoundInv == LocalTypeOK /\ OwnersHoldLock /\ UnlockedAlone /\ OnTheWay

\* One process at a time works on the tiers, with copies that are the files.
OneWorks ==
  /\ \A p, q \in Working : p = q
  /\ \A p \in Pids :
       /\ procs[p].unsaved => procs[p].at \in {"once", "queue"} \/ Is(p, "daemon", "live")
       /\ procs[p].last # 0 => procs[p].at = "once" \/ Is(p, "daemon", "live")
  /\ \A p \in Working :
       /\ procs[p].t1 = t1 /\ procs[p].linked /\ procs[p].next = Len(given) + 1
       /\ procs[p].unsaved \/ savedSeq = procs[p].next

\* Seqs are given one by one.
SeqsInTurn ==
  /\ savedSeq \in {Len(given), Len(given) + 1}
  /\ (\A p \in Pids : ~procs[p].unsaved) => savedSeq = Len(given) + 1
  /\ \A id \in DOMAIN given : given[id] = id
  /\ \A i \in DOMAIN t1 : t1[i].seq = t1[i].id /\ t1[i].id \in DOMAIN given
  /\ \A p \in Pids : \A i \in DOMAIN procs[p].t1 : procs[p].t1[i].id \in DOMAIN given

\* The server has everything up to its highest seq, and so it has what it acked.
TakenUpTo ==
  /\ highest <= Len(given)
  /\ \A id \in DOMAIN given : id <= highest => id \in accepted
  /\ \A p \in Pids : procs[p].last # 0 =>
       /\ \E i \in DOMAIN procs[p].t1 : procs[p].t1[i].seq = procs[p].last
       /\ \A i \in DOMAIN procs[p].t1 :
            procs[p].t1[i].seq <= procs[p].last => procs[p].t1[i].id \in accepted

\* A daemon that waits for the lock and whose log was rewritten meanwhile will
\* find out: it has an op that the log lost, or the next seq has moved on.
Opening == Daemons({"opened", "lockfile"})
LogHas(op) == \E j \in DOMAIN t1 : t1[j].id = op.id
StaleIsSeen ==
  \A p \in Opening :
    /\ procs[p].next <= savedSeq
    /\ procs[p].linked => \A j \in DOMAIN t1 :
         t1[j].seq >= procs[p].next \/ \E i \in DOMAIN procs[p].t1 : procs[p].t1[i] = t1[j]
    /\ ~procs[p].linked =>
         procs[p].next < savedSeq \/ \E i \in DOMAIN procs[p].t1 : ~LogHas(procs[p].t1[i])

KeptInv ==
  /\ FoundInv /\ OneWorks /\ SeqsInTurn /\ TakenUpTo /\ StaleIsSeen /\ OpsKept
=============================================================================
