----------------------------- MODULE LocalProofs -----------------------------
(***************************************************************************)
(* What holds of the processes on one vault directory, however many there  *)
(* are, when none of the known races is let loose: a daemon that serves is *)
(* the one that pid file, socket and registry lead to, and no op that was  *)
(* staged is lost before the server has it.                                *)
(***************************************************************************)
EXTENDS LocalProcesses, Recursion

NoRace == Races = {}
-----------------------------------------------------------------------------
(***************************************************************************)
(* What the helpers do                                                     *)
(***************************************************************************)

\* A process that starts takes the place of none.
LEMMA StartsSomewhere ==
  ASSUME NEW r, Start(r)
  PROVE  \E p \in Pids : procs[p] = NoProcess /\ procs' = [procs EXCEPT ![p] = r]
<1> DEFINE free == {p \in Pids : procs[p] = NoProcess
                               /\ p # (IF pidFile = None THEN None ELSE locks[pidFile].text)}
<1>1. free # {} /\ procs' = [procs EXCEPT ![CHOOSE p \in free : TRUE] = r]
  BY DEF Start
<1>2. (CHOOSE p \in free : TRUE) \in free
  BY <1>1, Zenon
<1> QED BY <1>1, <1>2

\* There is always an inode for a new pid file: each process has one open.
LEMMA InodeIsFree ==
  ASSUME BoundsAssumption, procs \in [Pids -> Process], pidFile = None
  PROVE  Inodes \ ({pidFile} \cup {procs[q].lock : q \in Pids}) # {}
<1>1. SUFFICES ASSUME \A i \in Inodes : i \in {procs[q].lock : q \in Pids} PROVE FALSE
  <2>1. \A i \in Inodes : i # pidFile
    BY DEF Inodes, None, BoundsAssumption
  <2>2. ASSUME NEW i \in Inodes, i \notin {procs[q].lock : q \in Pids}
        PROVE  i \in Inodes \ ({pidFile} \cup {procs[q].lock : q \in Pids})
    BY <2>1, <2>2
  <2> QED BY <2>2
<1> DEFINE f == [i \in Inodes |-> CHOOSE q \in Pids : procs[q].lock = i]
<1>2. \A i \in Inodes : f[i] \in Pids /\ procs[f[i]].lock = i
  <2>1. ASSUME NEW i \in Inodes PROVE \E q \in Pids : procs[q].lock = i
    BY <1>1
  <2> QED BY <2>1
<1>3. f \in [Inodes -> Pids]
  BY <1>2
<1>4. IsFiniteSet(Inodes) /\ Cardinality(Inodes) = MaxPid + 1
  <2>1. 1 \in Int /\ MaxPid + 1 \in Int /\ ~(1 > MaxPid + 1) /\ (MaxPid + 1) - 1 + 1 = MaxPid + 1
    BY DEF BoundsAssumption
  <2> HIDE DEF f
  <2> QED BY <2>1, FS_Interval DEF Inodes
<1>5. IsFiniteSet(Pids) /\ Cardinality(Pids) = MaxPid
  <2>1. 1 \in Int /\ MaxPid \in Int /\ (1 > MaxPid => MaxPid = 0) /\ MaxPid - 1 + 1 = MaxPid
    BY DEF BoundsAssumption
  <2> HIDE DEF f
  <2> QED BY <2>1, FS_Interval DEF Pids
<1>6. Cardinality(Pids) < Cardinality(Inodes)
  BY <1>4, <1>5 DEF BoundsAssumption
<1>7. \E i, j \in Inodes : i # j /\ f[i] = f[j]
  <2> HIDE DEF f
  <2> QED BY <1>3, <1>4, <1>5, <1>6, FS_PigeonHole
<1> QED BY <1>2, <1>7

\* The function that After is made of, and what it holds at n.
Kept(k, ops, seq) == k = [n \in 0 .. Len(ops) |->
  IF n = 0 THEN << >>
  ELSE IF ops[n].seq > seq THEN Append(k[n - 1], ops[n]) ELSE k[n - 1]]

Behind(kept, ops, seq, n) ==
  /\ kept \in Seq(LogOps)
  /\ \A k \in DOMAIN kept : \E i \in 1 .. n : kept[k] = ops[i] /\ ops[i].seq > seq
  /\ \A i \in 1 .. n : ops[i].seq > seq => \E k \in DOMAIN kept : kept[k] = ops[i]

LEMMA KeptExists ==
  ASSUME NEW ops \in Seq(LogOps), NEW seq \in Nat
  PROVE  \E k : Kept(k, ops, seq)
<1> DEFINE N == Len(ops)
    next == [n \in 1 .. N |-> [s \in Seq(LogOps) |->
               IF ops[n].seq > seq THEN Append(s, ops[n]) ELSE s]]
<1>1. N \in Nat /\ DOMAIN ops = 1 .. N /\ \A i \in 1 .. N : ops[i] \in LogOps
  OBVIOUS
<1>2. next \in [1 .. N -> [Seq(LogOps) -> Seq(LogOps)]]
  <2>1. ASSUME NEW n \in 1 .. N, NEW s \in Seq(LogOps)
        PROVE  Append(s, ops[n]) \in Seq(LogOps)
    BY <1>1
  <2> QED BY <2>1
<1>3. PICK k : Recurses(k, N, Seq(LogOps), << >>, next)
  <2>1. << >> \in Seq(LogOps) /\ N \in Nat
    OBVIOUS
  <2> HIDE DEF N, next
  <2> QED BY <1>2, <2>1, RecursionExists
<1>4. ASSUME NEW n \in 1 .. N
      PROVE  k[n] = IF ops[n].seq > seq THEN Append(k[n - 1], ops[n]) ELSE k[n - 1]
  <2>1. k[n - 1] \in Seq(LogOps)
    BY <1>1, <1>3 DEF Recurses
  <2> QED BY <1>3, <2>1 DEF Recurses
<1>5. Kept(k, ops, seq)
  <2> HIDE DEF next
  <2>1. \A n \in 0 .. N : n = 0 \/ n \in 1 .. N
    BY <1>1
  <2>2. ASSUME NEW n \in 0 .. N
        PROVE  k[n] = IF n = 0 THEN << >>
                      ELSE IF ops[n].seq > seq THEN Append(k[n - 1], ops[n]) ELSE k[n - 1]
    BY <1>1, <1>3, <1>4, <2>1 DEF Recurses
  <2> QED BY <1>3, <2>2 DEF Kept, Recurses
<1> QED BY <1>5

LEMMA KeptGrows ==
  ASSUME NEW ops \in Seq(LogOps), NEW seq \in Nat, NEW k, Kept(k, ops, seq),
         NEW n \in Nat, n < Len(ops), Behind(k[n], ops, seq, n)
  PROVE  Behind(k[n + 1], ops, seq, n + 1)
<1>1. n + 1 \in 1 .. Len(ops) /\ n + 1 # 0 /\ (n + 1) - 1 = n /\ Len(ops) \in Nat
  OBVIOUS
<1>2. ops[n + 1] \in LogOps
  BY <1>1
<1>3. k[n + 1] = IF ops[n + 1].seq > seq THEN Append(k[n], ops[n + 1]) ELSE k[n]
  <2>1. n + 1 \in 0 .. Len(ops)
    BY <1>1
  <2> QED BY <1>1, <2>1 DEF Kept
<1>4. \A i \in 1 .. (n + 1) : i \in 1 .. n \/ i = n + 1
  OBVIOUS
<1>5. 1 .. n \subseteq 1 .. (n + 1)
  OBVIOUS
<1>6. CASE ops[n + 1].seq > seq
  <2> DEFINE old == k[n]
             new == k[n + 1]
  <2>1. new = Append(old, ops[n + 1]) /\ old \in Seq(LogOps)
    BY <1>3, <1>6 DEF Behind
  <2> HIDE DEF old, new
  <2>2. /\ new \in Seq(LogOps) /\ Len(old) \in Nat
        /\ DOMAIN old = 1 .. Len(old) /\ DOMAIN new = 1 .. (Len(old) + 1)
        /\ \A j \in 1 .. Len(old) : new[j] = old[j]
        /\ new[Len(old) + 1] = ops[n + 1]
    BY <1>2, <2>1
  <2>3. \A j \in DOMAIN new : j \in DOMAIN old \/ j = Len(old) + 1
    BY <2>2
  <2>4. Len(old) + 1 \in DOMAIN new /\ DOMAIN old \subseteq DOMAIN new
    BY <2>2
  <2>5. Behind(old, ops, seq, n)
    BY DEF old
  <2>6. \A j \in DOMAIN new : \E i \in 1 .. (n + 1) : new[j] = ops[i] /\ ops[i].seq > seq
    BY <1>1, <1>5, <1>6, <2>2, <2>3, <2>5 DEF Behind
  <2>7. \A i \in 1 .. (n + 1) : ops[i].seq > seq => \E j \in DOMAIN new : new[j] = ops[i]
    BY <1>4, <2>2, <2>4, <2>5 DEF Behind
  <2>8. Behind(new, ops, seq, n + 1)
    BY <2>2, <2>6, <2>7 DEF Behind
  <2> QED BY <2>8 DEF new
<1>7. CASE ~(ops[n + 1].seq > seq)
  <2>1. k[n + 1] = k[n]
    BY <1>3, <1>7
  <2> DEFINE old == k[n]
  <2>2. Behind(old, ops, seq, n)
    OBVIOUS
  <2> HIDE DEF old
  <2>3. \A j \in DOMAIN old : \E i \in 1 .. (n + 1) : old[j] = ops[i] /\ ops[i].seq > seq
    BY <1>5, <2>2 DEF Behind
  <2>4. \A i \in 1 .. (n + 1) : ops[i].seq > seq => \E j \in DOMAIN old : old[j] = ops[i]
    BY <1>4, <1>7, <2>2 DEF Behind
  <2>5. Behind(old, ops, seq, n + 1)
    BY <2>2, <2>3, <2>4 DEF Behind
  <2> QED BY <2>1, <2>5 DEF old
<1> QED BY <1>6, <1>7

\* After keeps the ops behind the seq, and only them.
LEMMA AfterKeeps ==
  ASSUME NEW ops \in Seq(LogOps), NEW seq \in Nat
  PROVE  Behind(After(ops, seq), ops, seq, Len(ops))
<1> DEFINE k == CHOOSE f : Kept(f, ops, seq)
<1>1. Kept(k, ops, seq)
  BY KeptExists, Zenon
<1>2. After(ops, seq) = k[Len(ops)]
  BY DEF After, Kept
<1> HIDE DEF k
<1> DEFINE Good == {n \in 0 .. Len(ops) : Behind(k[n], ops, seq, n)}
<1>3. 0 \in Good
  <2>1. k[0] = << >> /\ 0 \in 0 .. Len(ops)
    BY <1>1 DEF Kept
  <2>2. << >> \in Seq(LogOps) /\ DOMAIN << >> = {} /\ 1 .. 0 = {}
    OBVIOUS
  <2>3. Behind(k[0], ops, seq, 0)
    BY <2>1, <2>2 DEF Behind
  <2> QED BY <2>1, <2>3
<1>4. ASSUME NEW n \in Nat, n < Len(ops), n \in Good PROVE n + 1 \in Good
  BY <1>1, <1>4, KeptGrows
<1>5. Len(ops) \in Nat
  OBVIOUS
<1>6. \A n \in 0 .. Len(ops) : n \in Good
  <2> HIDE DEF Good
  <2> QED BY <1>3, <1>4, <1>5, UpTo, Zenon
<1>7. Len(ops) \in 0 .. Len(ops)
  BY <1>5
<1> QED BY <1>2, <1>6, <1>7
-----------------------------------------------------------------------------
(***************************************************************************)
(* Types                                                                   *)
(***************************************************************************)
LEMMA OneProcess ==
  ASSUME procs \in [Pids -> Process], NEW p \in Pids, NEW r \in Process,
         procs' = [procs EXCEPT ![p] = r]
  PROVE  /\ procs' \in [Pids -> Process] /\ procs'[p] = r
         /\ \A q \in Pids : q # p => procs'[q] = procs[q]
OBVIOUS

LEMMA NobodyIsAProcess == NoProcess \in Process
<1>1. << >> \in Seq(LogOps) /\ 1 \in Nat /\ 0 \in Nat
  OBVIOUS
<1> QED BY <1>1 DEF NoProcess, Process, None

\* What a process that opens the tiers begins with.
Opens(r, kind, at, n) ==
  /\ r \in Process /\ r.kind = kind /\ r.at = at /\ r.t1 = t1 /\ r.next = n
  /\ r.linked /\ ~r.unsaved /\ r.lock = None /\ r.last = 0

LEMMA OpenedIs ==
  ASSUME LocalTypeOK, NEW kind \in {"daemon", "sync", "pull", "restore"},
         NEW at \in {"opened", "once", "pull", "queue"}, NEW n \in Nat
  PROVE  /\ Opens(Opened(kind, at), kind, at, savedSeq)
         /\ Opens([Opened(kind, at) EXCEPT !.next = n], kind, at, n)
<1>1. t1 \in Seq(LogOps) /\ savedSeq \in Nat
  BY DEF LocalTypeOK
<1>2. Opened(kind, at) \in Process
  BY <1>1, NobodyIsAProcess DEF Opened, Process
<1>3. Opens(Opened(kind, at), kind, at, savedSeq)
  <2>1. /\ Opened(kind, at).kind = kind /\ Opened(kind, at).at = at
        /\ Opened(kind, at).t1 = t1 /\ Opened(kind, at).next = savedSeq
        /\ Opened(kind, at).linked = TRUE /\ Opened(kind, at).unsaved = FALSE
        /\ Opened(kind, at).lock = None /\ Opened(kind, at).last = 0
    BY <1>1, NobodyIsAProcess DEF Opened, Process, NoProcess
  <2> QED BY <1>2, <2>1 DEF Opens
<1>4. PICK r : r = Opened(kind, at)
  OBVIOUS
<1>5. Opens(r, kind, at, savedSeq)
  BY <1>3, <1>4
<1>6. [r EXCEPT !.next = n] \in Process
  BY <1>5 DEF Opens, Process
<1>7. Opens([r EXCEPT !.next = n], kind, at, n)
  BY <1>5, <1>6 DEF Opens, Process
<1> QED BY <1>3, <1>4, <1>7

\* Who goes on only in where it is.
LEMMA ToType ==
  ASSUME procs \in [Pids -> Process], NEW p \in Pids, NEW at \in
           {"gone", "opened", "lockfile", "locked", "registering", "registered", "live",
            "closing", "closed", "unlocked", "once", "pull", "queue", "rewrite", "stop"},
         To(p, at)
  PROVE  /\ procs' \in [Pids -> Process] /\ procs'[p] = [procs[p] EXCEPT !.at = at]
         /\ \A q \in Pids : q # p => procs'[q] = procs[q]
<1>1. [procs[p] EXCEPT !.at = at] \in Process
  BY DEF Process
<1>2. procs' = [procs EXCEPT ![p] = [procs[p] EXCEPT !.at = at]]
  BY DEF To
<1> QED BY <1>1, <1>2, OneProcess

LEMMA EndType ==
  ASSUME procs \in [Pids -> Process], NEW p \in Pids, End(p)
  PROVE  /\ procs' \in [Pids -> Process] /\ procs'[p] = NoProcess
         /\ \A q \in Pids : q # p => procs'[q] = procs[q]
BY NobodyIsAProcess, OneProcess DEF End

LEMMA StartType ==
  ASSUME procs \in [Pids -> Process], NEW r \in Process, Start(r)
  PROVE  procs' \in [Pids -> Process]
BY StartsSomewhere, OneProcess

\* The other ways a process goes on.
LEMMA GoesOn ==
  ASSUME procs \in [Pids -> Process], NEW p \in Pids,
         NEW lock \in Inodes \cup {None}, NEW log \in Seq(LogOps), NEW n \in Nat,
         NEW b \in BOOLEAN, NEW t \in Pids \cup {None}
  PROVE  /\ [procs[p] EXCEPT !.at = "lockfile", !.lock = lock] \in Process
         /\ [procs[p] EXCEPT !.at = "registering", !.roots = TRUE] \in Process
         /\ [procs[p] EXCEPT !.roots = FALSE] \in Process
         /\ [procs[p] EXCEPT !.at = "rewrite", !.target = t] \in Process
         /\ [procs[p] EXCEPT !.stop = TRUE] \in Process
         /\ [procs[p] EXCEPT !.t1 = log, !.next = n, !.unsaved = TRUE] \in Process
         /\ [procs[p] EXCEPT !.unsaved = FALSE] \in Process
         /\ [procs[p] EXCEPT !.last = n] \in Process
         /\ [procs[p] EXCEPT !.next = n] \in Process
         /\ [procs[p] EXCEPT !.t1 = log, !.last = 0, !.linked = TRUE, !.unsaved = FALSE]
              \in Process
         /\ [procs[p] EXCEPT !.linked = FALSE] \in Process
<1>1. procs[p] \in Process /\ 0 \in Nat
  OBVIOUS
<1>2. /\ [procs[p] EXCEPT !.at = "lockfile", !.lock = lock] \in Process
      /\ [procs[p] EXCEPT !.at = "registering", !.roots = TRUE] \in Process
      /\ [procs[p] EXCEPT !.roots = FALSE] \in Process
  BY <1>1 DEF Process
<1>3. /\ [procs[p] EXCEPT !.at = "rewrite", !.target = t] \in Process
      /\ [procs[p] EXCEPT !.stop = TRUE] \in Process
  BY <1>1 DEF Process
<1>4. /\ [procs[p] EXCEPT !.t1 = log, !.next = n, !.unsaved = TRUE] \in Process
      /\ [procs[p] EXCEPT !.unsaved = FALSE] \in Process
      /\ [procs[p] EXCEPT !.last = n] \in Process
      /\ [procs[p] EXCEPT !.next = n] \in Process
  BY <1>1 DEF Process
<1>5. /\ [procs[p] EXCEPT !.t1 = log, !.last = 0, !.linked = TRUE, !.unsaved = FALSE]
           \in Process
      /\ [procs[p] EXCEPT !.linked = FALSE] \in Process
  BY <1>1 DEF Process
<1> QED BY <1>2, <1>3, <1>4, <1>5

Locks == [Inodes -> [holder : Pids \cup {None}, text : Pids \cup {None}]]

LEMMA KilledType ==
  ASSUME LocalTypeOK, NEW p \in Pids, Killed(p)
  PROVE  LocalTypeOK'
<1>1. procs' \in [Pids -> Process]
  BY EndType DEF Killed, LocalTypeOK
<1>2. locks' \in Locks
  <2>1. \A i \in Inodes : [locks[i] EXCEPT !.holder = None]
          \in [holder : Pids \cup {None}, text : Pids \cup {None}]
    BY DEF LocalTypeOK
  <2> QED BY <2>1 DEF Killed, LocalTypeOK, Locks
<1> QED BY <1>1, <1>2 DEF Killed, LocalTypeOK, Locks, logs, remote

\* The inode that the pid file is or becomes.
LEMMA LockOpenInode ==
  ASSUME BoundsAssumption, LocalTypeOK, NEW p \in Pids, LockOpen(p)
  PROVE  /\ pidFile' \in Inodes
         /\ pidFile # None => pidFile' = pidFile /\ locks' = locks
         /\ pidFile = None => locks' = [locks EXCEPT ![pidFile'] = Free]
         /\ procs' = [procs EXCEPT ![p] = [procs[p] EXCEPT !.at = "lockfile", !.lock = pidFile']]
<1> DEFINE used == {pidFile} \cup {procs[q].lock : q \in Pids}
<1>1. /\ pidFile' = IF pidFile # None THEN pidFile ELSE CHOOSE j \in Inodes \ used : TRUE
      /\ locks' = IF pidFile # None THEN locks ELSE [locks EXCEPT ![pidFile'] = Free]
  BY DEF LockOpen
<1>4. procs' = [procs EXCEPT ![p] = [procs[p] EXCEPT !.at = "lockfile", !.lock = pidFile']]
  <2>1. procs' = [procs EXCEPT ![p].at = "lockfile", ![p].lock = pidFile']
    BY DEF LockOpen
  <2>2. procs \in [Pids -> Process]
    BY DEF LocalTypeOK
  <2>3. PICK i : i = pidFile'
    OBVIOUS
  <2>4. \A q \in Pids : procs'[q] = [procs EXCEPT ![p] = [procs[p] EXCEPT !.at = "lockfile", !.lock = i]][q]
    BY <2>1, <2>2, <2>3 DEF Process
  <2> QED BY <2>1, <2>2, <2>3, <2>4
<1>2. CASE pidFile # None
  BY <1>1, <1>2, <1>4 DEF LocalTypeOK
<1>3. CASE pidFile = None
  <2>1. Inodes \ used # {}
    BY <1>3, InodeIsFree DEF LocalTypeOK
  <2> HIDE DEF used
  <2>2. (CHOOSE j \in Inodes \ used : TRUE) \in Inodes
    BY <2>1, Zenon
  <2>3. pidFile' \in Inodes /\ locks' = [locks EXCEPT ![pidFile'] = Free]
    BY <1>1, <1>3, <2>2
  <2> QED BY <1>3, <1>4, <2>3
<1> QED BY <1>2, <1>3

LEMMA DaemonStepType ==
  ASSUME BoundsAssumption, LocalTypeOK, NEW p \in Pids, DaemonStep(p)
  PROVE  LocalTypeOK'
<1> USE DEF LocalTypeOK
<1>1. CASE LockOpen(p)
  <2>1. procs' \in [Pids -> Process]
    BY <1>1, LockOpenInode, GoesOn, OneProcess
  <2>2. locks' \in Locks
    <3>1. Free \in [holder : Pids \cup {None}, text : Pids \cup {None}]
      BY DEF Free
    <3>2. pidFile' \in Inodes
      BY <1>1, LockOpenInode
    <3>3. [locks EXCEPT ![pidFile'] = Free] \in Locks
      BY <3>1, <3>2 DEF Locks
    <3> QED BY <1>1, <3>3, LockOpenInode DEF Locks
  <2> QED BY <1>1, <2>1, <2>2, LockOpenInode DEF LockOpen, logs, remote, Locks
<1>2. CASE Flock(p)
  <2>1. CASE End(p) /\ UNCHANGED locks
    BY <1>2, <2>1, EndType DEF Flock, logs, remote
  <2>2. CASE /\ locks' = [locks EXCEPT ![procs[p].lock] = [holder |-> p, text |-> p]]
             /\ To(p, "locked")
    <3>1. procs' \in [Pids -> Process]
      BY <2>2, ToType
    <3>2. locks' \in Locks
      BY <2>2 DEF Locks
    <3> QED BY <1>2, <3>1, <3>2 DEF Flock, logs, remote, Locks
  <2> QED BY <1>2, <2>1, <2>2 DEF Flock
<1>3. CASE RegisterOpen(p)
  <2>1. procs' \in [Pids -> Process]
    <3>1. procs' = [procs EXCEPT ![p] = [procs[p] EXCEPT !.at = "registering", !.roots = TRUE]]
      BY <1>3 DEF RegisterOpen
    <3> QED BY <3>1, GoesOn, OneProcess
  <2> QED BY <1>3, <2>1 DEF RegisterOpen, shared, logs, remote
<1>4. CASE RegisterAppend(p)
  <2>1. procs' \in [Pids -> Process]
    BY <1>4, ToType DEF RegisterAppend
  <2>2. procs[p].roots \in BOOLEAN
    BY DEF Process
  <2> QED BY <1>4, <2>1, <2>2 DEF RegisterAppend, logs, remote
<1>5. CASE Listen(p)
  BY <1>5, ToType DEF Listen, logs, remote
<1>6. CASE Shutdown(p)
  BY <1>6, ToType DEF Shutdown, shared, logs, remote
<1>7. CASE CloseSocket(p)
  BY <1>7, ToType DEF CloseSocket, logs, remote
<1>8. CASE Unlock(p)
  <2>1. procs' \in [Pids -> Process]
    BY <1>8, ToType DEF Unlock
  <2>2. locks' \in Locks
    BY <1>8 DEF Unlock, Locks
  <2> QED BY <1>8, <2>1, <2>2 DEF Unlock, logs, remote, Locks
<1>9. CASE RemovePidFile(p)
  BY <1>9, EndType DEF RemovePidFile, logs, remote
<1> QED BY <1>1, <1>2, <1>3, <1>4, <1>5, <1>6, <1>7, <1>8, <1>9 DEF DaemonStep

\* An op that is appended, and what becomes of the log and the copy.
LEMMA AppendIs ==
  ASSUME LocalTypeOK, NEW p \in Pids, AppendStaged(p)
  PROVE  \E op \in LogOps :
           /\ op.seq = procs[p].next /\ op.id = Len(given) + 1
           /\ given' = Append(given, procs[p].next)
           /\ t1' = IF procs[p].linked THEN Append(t1, op) ELSE t1
           /\ procs' = [procs EXCEPT ![p] =
                [procs[p] EXCEPT !.t1 = Append(procs[p].t1, op), !.next = procs[p].next + 1,
                                 !.unsaved = TRUE]]
<1> DEFINE op == [seq |-> procs[p].next, id |-> Len(given) + 1]
<1>1. procs[p] \in Process /\ procs[p].next \in Nat /\ Len(given) \in Nat
  BY DEF LocalTypeOK, Process
<1>2. op \in LogOps /\ op.seq = procs[p].next /\ op.id = Len(given) + 1
  BY <1>1 DEF LogOps
<1>3. /\ given' = Append(given, op.seq)
      /\ t1' = IF procs[p].linked THEN Append(t1, op) ELSE t1
      /\ procs' = [procs EXCEPT ![p].t1 = Append(@, op), ![p].next = @ + 1, ![p].unsaved = TRUE]
  BY DEF AppendStaged
<1> HIDE DEF op
<1>4. procs' = [procs EXCEPT ![p] =
        [procs[p] EXCEPT !.t1 = Append(procs[p].t1, op), !.next = procs[p].next + 1,
                         !.unsaved = TRUE]]
  BY <1>3 DEF LocalTypeOK
<1> QED BY <1>2, <1>3, <1>4

LEMMA LastOp ==
  ASSUME NEW s \in Seq(LogOps), s # << >>
  PROVE  /\ Len(s) \in DOMAIN s /\ Last(s) = s[Len(s)]
         /\ Last(s) \in LogOps /\ Last(s).seq \in Nat
<1>1. Len(s) \in DOMAIN s /\ s[Len(s)] \in LogOps
  OBVIOUS
<1> QED BY <1>1 DEF Last, LogOps

LEMMA TierStepType ==
  ASSUME LocalTypeOK, NEW p \in Pids, TierStep(p)
  PROVE  LocalTypeOK'
<1> USE DEF LocalTypeOK
<1>0. /\ procs[p] \in Process /\ procs[p].next \in Nat /\ procs[p].last \in Nat
      /\ procs[p].t1 \in Seq(LogOps)
  BY DEF Process
<1>1. CASE AppendStaged(p)
  <2>1. PICK op \in LogOps :
           /\ given' = Append(given, procs[p].next)
           /\ t1' = IF procs[p].linked THEN Append(t1, op) ELSE t1
           /\ procs' = [procs EXCEPT ![p] =
                [procs[p] EXCEPT !.t1 = Append(procs[p].t1, op), !.next = procs[p].next + 1,
                                 !.unsaved = TRUE]]
    BY <1>1, AppendIs
  <2>2. Append(procs[p].t1, op) \in Seq(LogOps) /\ procs[p].next + 1 \in Nat
    BY <1>0
  <2>3. procs' \in [Pids -> Process]
    BY <2>1, <2>2, GoesOn, OneProcess
  <2>4. t1' \in Seq(LogOps) /\ given' \in Seq(Nat)
    BY <1>0, <2>1
  <2> QED BY <1>1, <2>3, <2>4 DEF AppendStaged, shared
<1>2. CASE SaveSeq(p)
  <2>1. procs' = [procs EXCEPT ![p] = [procs[p] EXCEPT !.unsaved = FALSE]]
    BY <1>2 DEF SaveSeq
  <2>2. procs' \in [Pids -> Process]
    BY <2>1, GoesOn, OneProcess
  <2> QED BY <1>0, <1>2, <2>2 DEF SaveSeq, shared, remote
<1>3. CASE SaveBase(p)
  BY <1>0, <1>3, EndType DEF SaveBase, shared, remote
<1>4. CASE PushStaged(p)
  <2> DEFINE new == After(procs[p].t1, highest)
  <2>1. /\ highest' = IF new = << >> THEN highest ELSE Last(new).seq
        /\ procs[p].t1 # << >>
        /\ \E last \in {0, Last(procs[p].t1).seq} : procs' = [procs EXCEPT ![p].last = last]
    BY <1>4 DEF PushStaged
  <2>2. new \in Seq(LogOps)
    BY <1>0, AfterKeeps DEF Behind
  <2> HIDE DEF new
  <2>3. highest' \in Nat
    BY <2>1, <2>2, LastOp
  <2>4. Last(procs[p].t1).seq \in Nat
    BY <1>0, <2>1, LastOp
  <2>5. procs' \in [Pids -> Process]
    <3>1. PICK last \in Nat : procs' = [procs EXCEPT ![p].last = last]
      BY <2>1, <2>4
    <3>2. procs' = [procs EXCEPT ![p] = [procs[p] EXCEPT !.last = last]]
      BY <3>1
    <3> QED BY <3>2, GoesOn, OneProcess
  <2> QED BY <1>4, <2>3, <2>5 DEF PushStaged, shared, logs
<1>5. CASE Trim(p)
  <2> DEFINE keep == Trimmed(procs[p].t1, procs[p].last)
  <2>1. keep \in Seq(LogOps)
    BY <1>0, AfterKeeps DEF Behind, Trimmed
  <2>2. /\ t1' = keep /\ savedSeq' = procs[p].next
        /\ procs' = [q \in Pids |->
             IF q = p THEN [procs[p] EXCEPT !.t1 = keep, !.last = 0, !.linked = TRUE,
                                            !.unsaved = FALSE]
                      ELSE [procs[q] EXCEPT !.linked = FALSE]]
    BY <1>5 DEF Trim
  <2> HIDE DEF keep
  <2>3. procs' \in [Pids -> Process]
    BY <2>1, <2>2, GoesOn
  <2> QED BY <1>0, <1>5, <2>1, <2>2, <2>3 DEF Trim, shared, remote
<1>6. CASE DropBase(p)
  <2>1. procs' = [procs EXCEPT ![p] = [procs[p] EXCEPT !.next = 1]]
    BY <1>6 DEF DropBase
  <2>2. procs' \in [Pids -> Process]
    <3>1. 1 \in Nat
      OBVIOUS
    <3> QED BY <2>1, <3>1, GoesOn, OneProcess
  <2> QED BY <1>6, <2>2 DEF DropBase, shared, remote
<1>7. CASE Exit(p)
  BY <1>7, EndType DEF Exit, shared, logs, remote
<1> QED BY <1>1, <1>2, <1>3, <1>4, <1>5, <1>6, <1>7 DEF TierStep

\* What a session that opens the tiers starts with.
LEMMA OpenSessionIs ==
  ASSUME LocalTypeOK, NEW kind \in {"sync", "pull"}, NEW at \in {"once", "pull"},
         OpenSession(kind, at)
  PROVE  \E r \in Process :
           /\ Start(r)
           /\ \/ Opens(r, kind, at, savedSeq) /\ UNCHANGED savedSeq
              \/ BaseLost /\ savedSeq' = 1 /\ Opens(r, kind, at, 1)
<1>1. CASE Start(Opened(kind, at)) /\ UNCHANGED savedSeq
  <2>1. savedSeq \in Nat
    BY DEF LocalTypeOK
  <2>2. Opens(Opened(kind, at), kind, at, savedSeq)
    BY <2>1, OpenedIs
  <2>3. Opened(kind, at) \in Process
    BY <2>2 DEF Opens
  <2> QED BY <1>1, <2>2, <2>3
<1>2. CASE BaseLost /\ savedSeq' = 1 /\ Start([Opened(kind, at) EXCEPT !.next = 1])
  <2>1. Opens([Opened(kind, at) EXCEPT !.next = 1], kind, at, 1)
    BY OpenedIs
  <2>2. [Opened(kind, at) EXCEPT !.next = 1] \in Process
    BY <2>1 DEF Opens
  <2> QED BY <1>2, <2>1, <2>2
<1> QED BY <1>1, <1>2 DEF OpenSession

\* Those who start without the tiers.
LEMMA OutsiderType ==
  ASSUME NEW b \in BOOLEAN
  PROVE  /\ [NoProcess EXCEPT !.kind = "prune", !.at = "rewrite", !.roots = b] \in Process
         /\ [NoProcess EXCEPT !.kind = "remove", !.at = "stop", !.roots = b] \in Process
BY NobodyIsAProcess DEF Process

LEMMA OtherStepType ==
  ASSUME LocalTypeOK,
         \/ StartDaemon \/ RunSync \/ RunPull \/ RunTrashRestore
         \/ RunListPrune \/ RunRemove \/ RunInitReset
         \/ \E p \in Pids : Kill(p) \/ StopVault(p) \/ StopByForce(p) \/ Rewrite(p)
  PROVE  LocalTypeOK'
<1> USE DEF LocalTypeOK
<1>1. CASE StartDaemon
  <2>1. Opened("daemon", "opened") \in Process
    BY OpenedIs DEF Opens
  <2> QED BY <1>1, <2>1, StartType DEF StartDaemon, shared, logs, remote
<1>2. CASE RunSync \/ RunPull
  <2>1. PICK r \in Process : Start(r)
    BY <1>2, OpenSessionIs DEF RunSync, RunPull
  <2>2. procs' \in [Pids -> Process]
    BY <2>1, StartType
  <2>3. savedSeq' \in Nat
    BY <1>2 DEF RunSync, RunPull, OpenSession
  <2> QED BY <1>2, <2>2, <2>3 DEF RunSync, RunPull, OpenSession, shared, remote
<1>3. CASE RunTrashRestore
  <2>1. Opened("restore", "queue") \in Process
    BY OpenedIs DEF Opens
  <2> QED BY <1>3, <2>1, StartType DEF RunTrashRestore, shared, logs, remote
<1>4. CASE RunListPrune
  BY <1>4, OutsiderType, StartType DEF RunListPrune, shared, logs, remote
<1>5. CASE RunRemove
  BY <1>5, OutsiderType, StartType DEF RunRemove, shared, logs, remote
<1>6. CASE RunInitReset
  BY <1>6 DEF RunInitReset, Free
<1>7. ASSUME NEW p \in Pids, Kill(p) PROVE LocalTypeOK'
  BY <1>7, KilledType DEF Kill
<1>8. ASSUME NEW p \in Pids, StopVault(p) PROVE LocalTypeOK'
  <2> DEFINE t == IF pidFile = None THEN None ELSE locks[pidFile].text
             g == IF t \in Pids /\ procs[t] # NoProcess THEN t ELSE None
  <2>1. procs' = [q \in Pids |->
       CASE q = p -> [procs[p] EXCEPT !.at = "rewrite", !.target = g]
         [] q # p /\ q = t /\ procs[q] # NoProcess -> [procs[q] EXCEPT !.stop = TRUE]
         [] OTHER -> procs[q]]
    BY <1>8 DEF StopVault
  <2>2. g \in Pids \cup {None}
    OBVIOUS
  <2> HIDE DEF t, g
  <2>3. procs' \in [Pids -> Process]
    BY <2>1, <2>2, GoesOn
  <2> QED BY <1>8, <2>3 DEF StopVault, shared, logs, remote
<1>9. ASSUME NEW p \in Pids, StopByForce(p) PROVE LocalTypeOK'
  BY <1>9, KilledType DEF StopByForce
<1>10. ASSUME NEW p \in Pids, Rewrite(p) PROVE LocalTypeOK'
  <2>1. procs' \in [Pids -> Process]
    BY <1>10, GoesOn, NobodyIsAProcess DEF Rewrite
  <2>2. procs[p].roots \in BOOLEAN
    BY DEF Process
  <2> QED BY <1>10, <2>1, <2>2 DEF Rewrite, logs, remote
<1> QED BY <1>1, <1>2, <1>3, <1>4, <1>5, <1>6, <1>7, <1>8, <1>9, <1>10

\* Every variable keeps its type.
LEMMA TypeStep ==
  ASSUME BoundsAssumption, LocalTypeOK, [LocalNext]_localVars
  PROVE  LocalTypeOK'
<1>1. CASE UNCHANGED localVars
  BY <1>1 DEF LocalTypeOK, localVars, shared, logs, remote
<1>2. CASE LocalNext
  BY <1>2, DaemonStepType, TierStepType, OtherStepType DEF LocalNext
<1> QED BY <1>1, <1>2
-----------------------------------------------------------------------------
(***************************************************************************)
(* The daemon that serves is found.  What matters of a step is where the   *)
(* daemons are and what they hold.                                         *)
(***************************************************************************)
Stays(q) ==
  /\ procs'[q].kind = procs[q].kind /\ procs'[q].at = procs[q].at
  /\ procs'[q].lock = procs[q].lock /\ procs'[q].roots = procs[q].roots
NotYet(q) == procs'[q].kind # "daemon" \/ procs'[q].at = "opened"

FoundCore == OwnersHoldLock /\ UnlockedAlone /\ OnTheWay

\* Steps of processes that are no daemons, and steps of daemons that go nowhere.
LEMMA FoundStays ==
  ASSUME FoundCore, \A q \in Pids : Stays(q) \/ NotYet(q), UNCHANGED shared
  PROVE  FoundCore'
<1>1. \A S : Daemons(S)' = {q \in Pids : procs'[q].kind = "daemon" /\ procs'[q].at \in S}
  BY DEF Daemons
<1>2. \A S : "opened" \notin S => Daemons(S)' \subseteq Daemons(S)
  BY <1>1 DEF Daemons, Stays, NotYet
<1>3. /\ Owners' \subseteq Owners
      /\ Daemons({"lockfile"})' \subseteq Daemons({"lockfile"})
      /\ Daemons({"unlocked"})' \subseteq Daemons({"unlocked"})
      /\ Daemons({"registering"})' \subseteq Daemons({"registering"})
      /\ Daemons({"registered", "live"})' \subseteq Daemons({"registered", "live"})
      /\ Daemons({"live"})' \subseteq Daemons({"live"})
  BY <1>2 DEF Owners
<1>4. pidFile' = pidFile /\ locks' = locks /\ sock' = sock /\ listed' = listed
  BY DEF shared
<1>5. \A q \in Pids : procs'[q].kind = "daemon" /\ procs'[q].at # "opened"
        => procs'[q].lock = procs[q].lock /\ procs'[q].roots = procs[q].roots
  BY DEF Stays, NotYet
<1>6. OwnersHoldLock'
  <2>1. \A q \in Owners' \cup Daemons({"lockfile"})' : procs'[q].lock = procs[q].lock
    BY <1>1, <1>5 DEF Owners
  <2> QED BY <1>3, <1>4, <2>1 DEF FoundCore, OwnersHoldLock
<1>7. UnlockedAlone'
  BY <1>3 DEF FoundCore, UnlockedAlone
<1>8. OnTheWay'
  <2>1. \A q \in Daemons({"registering"})' : procs'[q].roots = procs[q].roots
    BY <1>1, <1>5
  <2> QED BY <1>3, <1>4, <2>1 DEF FoundCore, OnTheWay
<1> QED BY <1>6, <1>7, <1>8 DEF FoundCore

\* One process goes on and the rest stay.
Others(p) == \A q \in Pids : q # p => procs'[q] = procs[q]

LEMMA GoesTo ==
  ASSUME LocalTypeOK, NEW p \in Pids, NEW at \in
           {"opened", "lockfile", "locked", "registering", "registered", "live",
            "closing", "closed", "unlocked"},
         To(p, at)
  PROVE  /\ Others(p)
         /\ procs'[p].kind = procs[p].kind /\ procs'[p].at = at
         /\ procs'[p].lock = procs[p].lock /\ procs'[p].roots = procs[p].roots
BY DEF LocalTypeOK, To, Others, Process

\* There is one owner at most, and a lock that is free has none.
LEMMA OneOwner ==
  ASSUME FoundCore, NEW p \in Owners
  PROVE  /\ \A q \in Owners : q = p
         /\ locks[pidFile].holder = p /\ locks[pidFile].holder # None
<1>1. \A q \in Owners : locks[pidFile] = [holder |-> q, text |-> q]
  BY DEF FoundCore, OwnersHoldLock
<1>2. ASSUME NEW q \in Owners PROVE locks[pidFile].holder = q
  <2>1. locks[pidFile] = [holder |-> q, text |-> q]
    BY <1>1
  <2> QED BY <2>1
<1>3. p \in Nat /\ p # 0
  BY DEF Owners, Daemons, Pids
<1> QED BY <1>2, <1>3 DEF None

LEMMA DaemonStepFound ==
  ASSUME BoundsAssumption, NoRace, LocalTypeOK, FoundCore, NEW p \in Pids, DaemonStep(p)
  PROVE  FoundCore'
<1> USE DEF FoundCore, OwnersHoldLock, UnlockedAlone, OnTheWay, Owners, Daemons, Is
<1>1. CASE LockOpen(p)
  <2>0. procs' = [procs EXCEPT ![p] = [procs[p] EXCEPT !.at = "lockfile", !.lock = pidFile']]
    BY <1>1, LockOpenInode
  <2>1. /\ Others(p) /\ procs'[p].kind = "daemon" /\ procs'[p].at = "lockfile"
        /\ procs'[p].lock = pidFile'
    <3>1. PICK i : i = pidFile'
      OBVIOUS
    <3>2. procs[p].kind = "daemon" /\ procs[p] \in Process /\ procs \in [Pids -> Process]
      BY <1>1 DEF LockOpen, LocalTypeOK
    <3>3. procs' = [procs EXCEPT ![p] = [procs[p] EXCEPT !.at = "lockfile", !.lock = i]]
      BY <2>0, <3>1
    <3>4. /\ Others(p) /\ procs'[p].kind = "daemon" /\ procs'[p].at = "lockfile"
          /\ procs'[p].lock = i
      BY <3>2, <3>3 DEF Others, Process
    <3> QED BY <3>1, <3>4
  <2>2. Daemons({"unlocked"}) = {}
    BY <1>1 DEF LockOpen, NoRace
  <2>3. sock' = sock /\ listed' = listed
    BY <1>1 DEF LockOpen
  <2>4. pidFile' \in Inodes /\ pidFile' # None
    <3>1. pidFile' \in Inodes
      BY <1>1, LockOpenInode
    <3> QED BY <3>1 DEF Inodes, None, BoundsAssumption
  <2>5. CASE pidFile # None
    <3>1. pidFile' = pidFile /\ locks' = locks
      BY <1>1, <2>5, LockOpenInode
    <3> QED BY <1>1, <2>1, <2>2, <2>3, <2>5, <3>1 DEF Others
  <2>6. CASE pidFile = None
    BY <1>1, <2>1, <2>2, <2>3, <2>4, <2>6 DEF Others
  <2> QED BY <2>5, <2>6
<1>2. CASE Flock(p)
  <2>1. CASE End(p) /\ UNCHANGED locks
    <3>1. \A q \in Pids : Stays(q) \/ NotYet(q)
      BY <2>1, EndType DEF LocalTypeOK, Stays, NotYet, NoProcess
    <3>2. UNCHANGED shared
      BY <1>2, <2>1 DEF Flock, shared
    <3> HIDE DEF FoundCore
    <3> QED BY <3>1, <3>2, FoundStays
  <2>2. CASE /\ ~Taken(procs[p].lock)
             /\ locks' = [locks EXCEPT ![procs[p].lock] = [holder |-> p, text |-> p]]
             /\ To(p, "locked")
    <3>1. /\ Others(p) /\ procs'[p].kind = "daemon" /\ procs'[p].at = "locked"
          /\ procs'[p].lock = procs[p].lock
      BY <1>2, <2>2, GoesTo DEF Flock
    <3>2. /\ procs[p].lock = pidFile /\ pidFile # None /\ procs[p].kind = "daemon"
          /\ procs[p].at = "lockfile"
      BY <1>2 DEF Flock
    <3>3. pidFile \in Inodes
      BY <3>2 DEF LocalTypeOK
    <3>4. locks'[pidFile] = [holder |-> p, text |-> p]
      BY <2>2, <3>2, <3>3 DEF LocalTypeOK
    <3>5. Owners = {}
      <4>1. locks[pidFile].holder = None
        BY <2>2, <3>2 DEF Taken
      <4> HIDE DEF FoundCore, Owners
      <4> QED BY <4>1, OneOwner
    <3>6. Daemons({"unlocked"}) = {}
      BY <3>2
    <3>7. pidFile' = pidFile /\ sock' = sock /\ listed' = listed
      BY <1>2 DEF Flock
    <3> QED BY <3>1, <3>2, <3>4, <3>5, <3>6, <3>7 DEF Others
  <2> QED BY <1>2, <2>1, <2>2 DEF Flock
<1>3. CASE RegisterOpen(p)
  <2>1. /\ Others(p) /\ procs'[p].kind = "daemon" /\ procs'[p].at = "registering"
        /\ procs'[p].lock = procs[p].lock /\ procs'[p].roots = TRUE
    BY <1>3 DEF RegisterOpen, Others, LocalTypeOK, Process
  <2>2. pidFile' = pidFile /\ locks' = locks /\ sock' = sock /\ listed' = listed
    BY <1>3 DEF RegisterOpen, shared
  <2>3. procs[p].kind = "daemon" /\ procs[p].at = "locked"
    BY <1>3 DEF RegisterOpen
  <2>4. OwnersHoldLock'
    BY <2>1, <2>2, <2>3 DEF Others
  <2>5. UnlockedAlone'
    BY <2>1, <2>3 DEF Others
  <2>6. OnTheWay'
    BY <2>1, <2>2, <2>3 DEF Others
  <2> QED BY <2>4, <2>5, <2>6
<1>4. CASE RegisterAppend(p)
  <2>1. /\ Others(p) /\ procs'[p].kind = "daemon" /\ procs'[p].at = "registered"
        /\ procs'[p].lock = procs[p].lock /\ procs[p].roots
    BY <1>4, GoesTo DEF RegisterAppend
  <2>2. pidFile' = pidFile /\ locks' = locks /\ sock' = sock /\ listed' = TRUE
    BY <1>4, <2>1 DEF RegisterAppend, LocalTypeOK
  <2> QED BY <1>4, <2>1, <2>2 DEF RegisterAppend, Others
<1>5. CASE Listen(p)
  <2>1. /\ Others(p) /\ procs'[p].kind = "daemon" /\ procs'[p].at = "live"
        /\ procs'[p].lock = procs[p].lock
    BY <1>5, GoesTo DEF Listen
  <2>2. \A q \in Owners : q = p
    <3>1. p \in Owners
      BY <1>5 DEF Listen
    <3> HIDE DEF FoundCore, Owners
    <3> QED BY <3>1, OneOwner
  <2> QED BY <1>5, <2>1, <2>2 DEF Listen, Others
<1>6. CASE Shutdown(p)
  <2>1. /\ Others(p) /\ procs'[p].kind = "daemon" /\ procs'[p].at = "closing"
        /\ procs'[p].lock = procs[p].lock
    BY <1>6, GoesTo DEF Shutdown
  <2> QED BY <1>6, <2>1 DEF Shutdown, Others, shared
<1>7. CASE CloseSocket(p)
  <2>1. /\ Others(p) /\ procs'[p].kind = "daemon" /\ procs'[p].at = "closed"
        /\ procs'[p].lock = procs[p].lock
    BY <1>7, GoesTo DEF CloseSocket
  <2>2. \A q \in Owners : q = p
    <3>1. p \in Owners
      BY <1>7 DEF CloseSocket
    <3> HIDE DEF FoundCore, Owners
    <3> QED BY <3>1, OneOwner
  <2> QED BY <1>7, <2>1, <2>2 DEF CloseSocket, Others
<1>8. CASE Unlock(p)
  <2>1. /\ Others(p) /\ procs'[p].kind = "daemon" /\ procs'[p].at = "unlocked"
    BY <1>8, GoesTo DEF Unlock
  <2>2. \A q \in Owners : q = p
    <3>1. p \in Owners
      BY <1>8 DEF Unlock
    <3> HIDE DEF FoundCore, Owners
    <3> QED BY <3>1, OneOwner
  <2>3. Daemons({"lockfile"}) = {}
    BY <1>8 DEF Unlock, NoRace
  <2>4. pidFile' = pidFile /\ sock' = sock /\ listed' = listed
    BY <1>8 DEF Unlock
  <2> QED BY <1>8, <2>1, <2>2, <2>3, <2>4 DEF Unlock, Others
<1>9. CASE RemovePidFile(p)
  <2>1. Others(p) /\ procs'[p].kind = "none"
    BY <1>9, EndType DEF RemovePidFile, LocalTypeOK, Others, NoProcess
  <2>2. Owners \cup Daemons({"lockfile"}) = {}
    BY <1>9 DEF RemovePidFile
  <2>3. \A q \in Pids : procs'[q].kind = "daemon" => procs[q].kind = "daemon" /\ procs'[q].at = procs[q].at
    BY <2>1 DEF Others
  <2> QED BY <1>9, <2>2, <2>3 DEF RemovePidFile
<1> QED BY <1>1, <1>2, <1>3, <1>4, <1>5, <1>6, <1>7, <1>8, <1>9 DEF DaemonStep

LEMMA KilledFound ==
  ASSUME LocalTypeOK, FoundCore, NEW p \in Pids, Killed(p)
  PROVE  FoundCore'
<1>1. Others(p) /\ procs'[p].kind = "none"
  BY EndType DEF Killed, LocalTypeOK, Others, NoProcess
<1>2. pidFile' = pidFile /\ sock' = sock /\ listed' = listed
  BY DEF Killed
<1>3. \A q \in Pids : procs'[q].kind = "daemon" => q # p /\ procs'[q] = procs[q]
  BY <1>1 DEF Others
<1>4. /\ Owners' \subseteq Owners /\ p \notin Owners'
      /\ Daemons({"lockfile"})' \subseteq Daemons({"lockfile"})
      /\ Daemons({"unlocked"})' \subseteq Daemons({"unlocked"})
      /\ Daemons({"registering"})' \subseteq Daemons({"registering"})
      /\ Daemons({"registered", "live"})' \subseteq Daemons({"registered", "live"})
      /\ Daemons({"live"})' \subseteq Daemons({"live"})
  BY <1>3 DEF Owners, Daemons
<1>5. OwnersHoldLock'
  <2>1. \A q \in Owners' \cup Daemons({"lockfile"})' : procs'[q].lock = procs[q].lock
    BY <1>3 DEF Owners, Daemons
  <2>2. ASSUME NEW q \in Owners' PROVE locks'[pidFile] = locks[pidFile]
    <3>1. q \in Owners /\ q # p
      BY <1>4
    <3>2. pidFile \in Inodes /\ locks[pidFile].holder = q
      BY <3>1, OneOwner DEF LocalTypeOK, FoundCore, OwnersHoldLock
    <3> QED BY <3>1, <3>2 DEF Killed
  <2> QED BY <1>2, <1>4, <2>1, <2>2 DEF FoundCore, OwnersHoldLock
<1>6. UnlockedAlone'
  BY <1>4 DEF FoundCore, UnlockedAlone
<1>7. OnTheWay'
  <2>1. \A q \in Daemons({"registering"})' : procs'[q].roots = procs[q].roots
    BY <1>3 DEF Daemons
  <2> QED BY <1>2, <1>4, <2>1 DEF FoundCore, OnTheWay
<1> QED BY <1>5, <1>6, <1>7 DEF FoundCore

LEMMA TierStepStays ==
  ASSUME LocalTypeOK, NEW p \in Pids, TierStep(p)
  PROVE  (\A q \in Pids : Stays(q) \/ NotYet(q)) /\ UNCHANGED shared
<1> USE DEF LocalTypeOK
<1>1. CASE AppendStaged(p)
  <2>1. PICK op \in LogOps : procs' = [procs EXCEPT ![p] =
                [procs[p] EXCEPT !.t1 = Append(procs[p].t1, op), !.next = procs[p].next + 1,
                                 !.unsaved = TRUE]]
    BY <1>1, AppendIs
  <2>2. \A q \in Pids : Stays(q)
    BY <2>1 DEF Stays, Process
  <2> QED BY <1>1, <2>2 DEF AppendStaged
<1>2. CASE SaveSeq(p)
  BY <1>2 DEF SaveSeq, Stays, Process
<1>3. CASE SaveBase(p) \/ Exit(p)
  <2>1. \A q \in Pids : Stays(q) \/ NotYet(q)
    BY <1>3, EndType DEF SaveBase, Exit, Stays, NotYet, NoProcess
  <2> QED BY <1>3, <2>1 DEF SaveBase, Exit
<1>4. CASE PushStaged(p)
  <2>1. PICK last : procs' = [procs EXCEPT ![p].last = last]
    BY <1>4 DEF PushStaged
  <2>2. \A q \in Pids : Stays(q)
    BY <2>1 DEF Stays, Process
  <2> QED BY <1>4, <2>2 DEF PushStaged
<1>5. CASE Trim(p)
  <2>1. PICK keep : procs' = [q \in Pids |->
             IF q = p THEN [procs[p] EXCEPT !.t1 = keep, !.last = 0, !.linked = TRUE,
                                            !.unsaved = FALSE]
                      ELSE [procs[q] EXCEPT !.linked = FALSE]]
    BY <1>5 DEF Trim
  <2>2. \A q \in Pids : Stays(q)
    BY <2>1 DEF Stays, Process
  <2> QED BY <1>5, <2>2 DEF Trim
<1>6. CASE DropBase(p)
  BY <1>6 DEF DropBase, Stays, Process
<1> QED BY <1>1, <1>2, <1>3, <1>4, <1>5, <1>6 DEF TierStep

LEMMA StartStays ==
  ASSUME LocalTypeOK, NEW r \in Process, Start(r), r.kind # "daemon" \/ r.at = "opened"
  PROVE  \A q \in Pids : Stays(q) \/ NotYet(q)
<1>1. PICK p \in Pids : procs' = [procs EXCEPT ![p] = r]
  BY StartsSomewhere
<1> QED BY <1>1 DEF LocalTypeOK, Stays, NotYet

LEMMA OtherStepFound ==
  ASSUME NoRace, LocalTypeOK, FoundCore,
         \/ StartDaemon \/ RunSync \/ RunPull \/ RunTrashRestore
         \/ RunListPrune \/ RunRemove \/ RunInitReset
         \/ \E p \in Pids : Kill(p) \/ StopVault(p) \/ StopByForce(p) \/ Rewrite(p)
  PROVE  FoundCore'
<1>1. CASE StartDaemon
  <2>1. Opens(Opened("daemon", "opened"), "daemon", "opened", savedSeq)
    BY OpenedIs DEF LocalTypeOK
  <2> QED BY <1>1, <2>1, StartStays, FoundStays DEF StartDaemon, Opens
<1>2. CASE RunSync \/ RunPull
  <2>1. PICK r \in Process : Start(r) /\ r.kind # "daemon"
    <3>1. ASSUME NEW kind \in {"sync", "pull"}, NEW at \in {"once", "pull"},
                 OpenSession(kind, at)
          PROVE  \E r \in Process : Start(r) /\ r.kind # "daemon"
      BY <3>1, OpenSessionIs DEF Opens
    <3> QED BY <1>2, <3>1 DEF RunSync, RunPull
  <2> QED BY <1>2, <2>1, StartStays, FoundStays DEF RunSync, RunPull, OpenSession
<1>3. CASE RunTrashRestore
  <2>1. Opens(Opened("restore", "queue"), "restore", "queue", savedSeq)
    BY OpenedIs DEF LocalTypeOK
  <2> QED BY <1>3, <2>1, StartStays, FoundStays DEF RunTrashRestore, Opens
<1>4. CASE RunListPrune
  <2>1. PICK r : r = [NoProcess EXCEPT !.kind = "prune", !.at = "rewrite", !.roots = listed]
    OBVIOUS
  <2>2. r \in Process
    BY <2>1, OutsiderType DEF LocalTypeOK
  <2>3. r.kind = "prune"
    BY <2>1, NobodyIsAProcess DEF Process
  <2> QED BY <1>4, <2>1, <2>2, <2>3, StartStays, FoundStays DEF RunListPrune
<1>5. CASE RunRemove
  <2>1. PICK r : r = [NoProcess EXCEPT !.kind = "remove", !.at = "stop", !.roots = FALSE]
    OBVIOUS
  <2>2. r \in Process
    BY <2>1, OutsiderType
  <2>3. r.kind = "remove"
    BY <2>1, NobodyIsAProcess DEF Process
  <2> QED BY <1>5, <2>1, <2>2, <2>3, StartStays, FoundStays DEF RunRemove
<1>6. CASE RunInitReset
  <2>1. \A q \in Pids : procs'[q].kind = "none"
    BY <1>6 DEF RunInitReset, NoProcess
  <2>2. \A S : Daemons(S)' = {}
    BY <2>1 DEF Daemons
  <2> QED BY <2>2 DEF FoundCore, OwnersHoldLock, UnlockedAlone, OnTheWay, Owners
<1>7. ASSUME NEW p \in Pids, Kill(p) PROVE FoundCore'
  BY <1>7, KilledFound DEF Kill
<1>8. ASSUME NEW p \in Pids, StopVault(p) PROVE FoundCore'
  <2> DEFINE t == IF pidFile = None THEN None ELSE locks[pidFile].text
             g == IF t \in Pids /\ procs[t] # NoProcess THEN t ELSE None
  <2>1. procs' = [q \in Pids |->
       CASE q = p -> [procs[p] EXCEPT !.at = "rewrite", !.target = g]
         [] q # p /\ q = t /\ procs[q] # NoProcess -> [procs[q] EXCEPT !.stop = TRUE]
         [] OTHER -> procs[q]]
    BY <1>8 DEF StopVault
  <2> HIDE DEF t, g
  <2>2. procs[p].kind = "remove" /\ procs \in [Pids -> Process]
    BY <1>8 DEF StopVault, Is, LocalTypeOK
  <2>3. ASSUME NEW q \in Pids PROVE Stays(q) \/ NotYet(q)
    <3>1. CASE q = p
      BY <2>1, <2>2, <3>1 DEF NotYet, Process
    <3>2. CASE q # p /\ q = t /\ procs[q] # NoProcess
      BY <2>1, <2>2, <3>2 DEF Stays, Process
    <3>3. CASE q # p /\ ~(q = t /\ procs[q] # NoProcess)
      BY <2>1, <2>2, <3>3 DEF Stays
    <3> QED BY <3>1, <3>2, <3>3
  <2> QED BY <1>8, <2>3, FoundStays DEF StopVault
<1>9. ASSUME NEW p \in Pids, StopByForce(p) PROVE FoundCore'
  BY <1>9, KilledFound DEF StopByForce
<1>10. ASSUME NEW p \in Pids, Rewrite(p) PROVE FoundCore'
  <2>1. /\ Daemons({"registering"}) = {}
        /\ procs[p].roots \/ Daemons({"registered", "live"}) = {}
    BY <1>10 DEF Rewrite, NoRace
  <2>2. procs' = [q \in Pids |-> IF q = p THEN NoProcess ELSE procs[q]]
    <3>1. \A q \in Pids : ~Is(q, "daemon", "registering")
      BY <2>1 DEF Daemons, Is
    <3> QED BY <1>10, <3>1 DEF Rewrite, LocalTypeOK
  <2>3. pidFile' = pidFile /\ locks' = locks /\ sock' = sock /\ listed' = procs[p].roots
    BY <1>10 DEF Rewrite
  <2>4. \A q \in Pids : procs'[q].kind = "daemon" => procs'[q] = procs[q]
    BY <2>2 DEF NoProcess
  <2>5. /\ Owners' \subseteq Owners
        /\ Daemons({"lockfile"})' \subseteq Daemons({"lockfile"})
        /\ Daemons({"unlocked"})' \subseteq Daemons({"unlocked"})
        /\ Daemons({"registering"})' \subseteq Daemons({"registering"})
        /\ Daemons({"registered", "live"})' \subseteq Daemons({"registered", "live"})
        /\ Daemons({"live"})' \subseteq Daemons({"live"})
        /\ \A q \in Owners' \cup Daemons({"lockfile"})' : procs'[q] = procs[q]
    BY <2>4 DEF Owners, Daemons
  <2>6. OwnersHoldLock'
    BY <2>3, <2>5 DEF FoundCore, OwnersHoldLock
  <2>7. UnlockedAlone'
    BY <2>5 DEF FoundCore, UnlockedAlone
  <2>8. OnTheWay'
    BY <2>1, <2>3, <2>5 DEF FoundCore, OnTheWay
  <2> QED BY <2>6, <2>7, <2>8 DEF FoundCore
<1> QED BY <1>1, <1>2, <1>3, <1>4, <1>5, <1>6, <1>7, <1>8, <1>9, <1>10

LEMMA FoundStep ==
  ASSUME BoundsAssumption, NoRace, FoundInv, [LocalNext]_localVars
  PROVE  FoundInv'
<1>1. LocalTypeOK /\ FoundCore
  BY DEF FoundInv, FoundCore
<1>2. LocalTypeOK'
  BY <1>1, TypeStep
<1>3. FoundCore'
  <2>1. CASE UNCHANGED localVars
    <3>1. \A q \in Pids : Stays(q)
      BY <2>1 DEF Stays, localVars
    <3> QED BY <1>1, <2>1, <3>1, FoundStays DEF localVars
  <2>2. ASSUME NEW p \in Pids, TierStep(p) PROVE FoundCore'
    BY <1>1, <2>2, TierStepStays, FoundStays
  <2>3. ASSUME NEW p \in Pids, DaemonStep(p) PROVE FoundCore'
    BY <1>1, <2>3, DaemonStepFound
  <2> QED BY <1>1, <2>1, <2>2, <2>3, OtherStepFound DEF LocalNext
<1> QED BY <1>2, <1>3 DEF FoundInv, FoundCore

LEMMA FoundStarts == ASSUME LocalInit PROVE FoundInv
<1>1. procs = [p \in Pids |-> NoProcess]
  BY DEF LocalInit
<1>2. LocalTypeOK
  <2>1. procs \in [Pids -> Process]
    BY <1>1, NobodyIsAProcess
  <2> QED BY <2>1 DEF LocalInit, LocalTypeOK, Free
<1>3. \A S : Daemons(S) = {}
  <2>1. \A q \in Pids : procs[q].kind = "none"
    BY <1>1 DEF NoProcess
  <2> QED BY <2>1 DEF Daemons
<1> QED BY <1>2, <1>3 DEF FoundInv, OwnersHoldLock, UnlockedAlone, OnTheWay, Owners

\* A daemon that serves is the one that pid file, socket and registry lead to
\* (PidLock, Daemon.Run, Register), for any number of processes and crashes.
THEOREM ServingDaemonFound ==
  ASSUME NoRace PROVE LocalSpec => []DaemonIsFound
<1>1. LocalInit => FoundInv
  BY FoundStarts
<1>2. FoundInv /\ [LocalNext]_localVars => FoundInv'
  BY FoundStep, BoundsAssumption
<1>3. FoundInv => DaemonIsFound
  <2>1. Daemons({"live"}) \subseteq Owners /\ Daemons({"live"}) \subseteq Daemons({"registered", "live"})
    BY DEF Owners, Daemons
  <2> QED BY <2>1 DEF FoundInv, OwnersHoldLock, OnTheWay, DaemonIsFound
<1> QED BY <1>1, <1>2, <1>3, PTL DEF LocalSpec
-----------------------------------------------------------------------------
(***************************************************************************)
(* No staged op is lost.  What matters of a step is what the processes     *)
(* hold of the log and who may write to it.                                *)
(***************************************************************************)
KeptCore == OneWorks /\ SeqsInTurn /\ TakenUpTo /\ StaleIsSeen /\ OpsKept

SameCopies(q) ==
  /\ procs'[q].t1 = procs[q].t1 /\ procs'[q].next = procs[q].next
  /\ procs'[q].linked = procs[q].linked /\ procs'[q].unsaved = procs[q].unsaved
  /\ procs'[q].last = procs[q].last
SamePlace(q) == procs'[q].kind = procs[q].kind /\ procs'[q].at = procs[q].at

\* It goes on with what it holds, and comes no nearer to the files.
Keeps(q) ==
  /\ SameCopies(q)
  /\ q \in Working' => q \in Working
  /\ q \in Opening' => q \in Opening
  /\ SamePlace(q) \/ (~procs[q].unsaved /\ procs[q].last = 0)

\* It holds nothing.
Idles(q) ==
  /\ procs'[q].t1 = << >> /\ ~procs'[q].unsaved /\ procs'[q].last = 0
  /\ ~procs[q].unsaved /\ q \notin Working' /\ q \notin Opening'

LEMMA KeptStays ==
  ASSUME KeptCore, \A q \in Pids : Keeps(q) \/ Idles(q), UNCHANGED <<logs, remote>>
  PROVE  KeptCore'
<1>1. /\ t1' = t1 /\ savedSeq' = savedSeq
      /\ highest' = highest /\ given' = given /\ accepted' = accepted
  BY DEF logs, remote
<1>2. /\ \A q \in Working' : q \in Working /\ SameCopies(q)
      /\ \A q \in Opening' : q \in Opening /\ SameCopies(q)
  BY DEF Keeps, Idles, Working, Opening, Commands, Daemons
<1>3. OneWorks'
  <2>1. \A q \in Pids : procs'[q].unsaved \/ procs'[q].last # 0 =>
           /\ SamePlace(q)
           /\ procs'[q].unsaved = procs[q].unsaved /\ procs'[q].last = procs[q].last
    BY DEF Keeps, Idles, SameCopies
  <2>2. \A q \in Pids :
       /\ procs'[q].unsaved => procs'[q].at \in {"once", "queue"} \/ Is(q, "daemon", "live")'
       /\ procs'[q].last # 0 => procs'[q].at = "once" \/ Is(q, "daemon", "live")'
    BY <2>1 DEF KeptCore, OneWorks, SamePlace, Is
  <2>3. \A p, q \in Working' : p = q
    BY <1>2 DEF KeptCore, OneWorks
  <2>4. \A q \in Working' :
          /\ procs'[q].t1 = t1' /\ procs'[q].linked /\ procs'[q].next = Len(given') + 1
          /\ procs'[q].unsaved \/ savedSeq' = procs'[q].next
    BY <1>1, <1>2 DEF KeptCore, OneWorks, SameCopies
  <2> QED BY <2>2, <2>3, <2>4 DEF OneWorks
<1>4. SeqsInTurn'
  <2>1. \A q \in Pids : procs[q].unsaved => procs'[q].unsaved
    BY DEF Keeps, Idles, SameCopies
  <2>2. \A q \in Pids : \A i \in DOMAIN procs'[q].t1 : procs'[q].t1[i].id \in DOMAIN given
    BY DEF Keeps, Idles, SameCopies, KeptCore, SeqsInTurn
  <2> QED BY <1>1, <2>1, <2>2 DEF KeptCore, SeqsInTurn
<1>5. TakenUpTo'
  <2>1. \A q \in Pids : procs'[q].last # 0 =>
          procs'[q].last = procs[q].last /\ procs'[q].t1 = procs[q].t1
    BY DEF Keeps, Idles, SameCopies
  <2> QED BY <1>1, <2>1 DEF KeptCore, TakenUpTo
<1>6. StaleIsSeen'
  BY <1>1, <1>2 DEF KeptCore, StaleIsSeen, SameCopies, LogHas
<1>7. OpsKept'
  BY <1>1 DEF KeptCore, OpsKept
<1> QED BY <1>3, <1>4, <1>5, <1>6, <1>7 DEF KeptCore

LEMMA OthersKeep ==
  ASSUME NEW p \in Pids, Others(p)
  PROVE  \A q \in Pids : q # p => Keeps(q)
<1> SUFFICES ASSUME NEW q \in Pids, q # p PROVE Keeps(q)
  OBVIOUS
<1>1. procs'[q] = procs[q]
  BY DEF Others
<1>2. SameCopies(q) /\ SamePlace(q)
  BY <1>1 DEF SameCopies, SamePlace
<1>3. (q \in Working' => q \in Working) /\ (q \in Opening' => q \in Opening)
  BY <1>1 DEF Working, Opening, Commands, Daemons
<1> QED BY <1>2, <1>3 DEF Keeps

\* Who holds nothing unsaved and no ack may end.
LEMMA EndIdles ==
  ASSUME LocalTypeOK, NEW p \in Pids, End(p), ~procs[p].unsaved
  PROVE  \A q \in Pids : Keeps(q) \/ Idles(q)
<1>1. Others(p) /\ procs'[p] = NoProcess
  BY EndType DEF LocalTypeOK, Others
<1>2. Idles(p)
  BY <1>1 DEF Idles, NoProcess, Working, Opening, Commands, Daemons
<1> QED BY <1>1, <1>2, OthersKeep

LEMMA MoveKeeps ==
  ASSUME LocalTypeOK, NEW p \in Pids, NEW at \in
           {"opened", "lockfile", "locked", "registering", "registered", "live",
            "closing", "closed", "unlocked"},
         To(p, at), procs[p].kind = "daemon", ~procs[p].unsaved, procs[p].last = 0,
         at \in {"locked", "registering", "registered", "live"} =>
           procs[p].at \in {"locked", "registering", "registered", "live"},
         at \notin {"opened", "lockfile"}
  PROVE  \A q \in Pids : Keeps(q) \/ Idles(q)
<1>1. Others(p) /\ procs'[p].kind = "daemon" /\ procs'[p].at = at
  BY GoesTo
<1>2. SameCopies(p)
  BY DEF LocalTypeOK, To, SameCopies, Process
<1>3. (p \in Working' => p \in Working) /\ p \notin Opening'
  BY <1>1 DEF Working, Opening, Commands, Daemons
<1>4. Keeps(p)
  BY <1>2, <1>3 DEF Keeps
<1> QED BY <1>1, <1>4, OthersKeep

\* The flock is where a daemon that waited comes to work on the tiers.
LEMMA FlockKept ==
  ASSUME NoRace, LocalTypeOK, FoundCore, KeptCore, NEW p \in Pids, Flock(p),
         ~Taken(procs[p].lock), Commands = {}, Fresh(p), To(p, "locked")
  PROVE  KeptCore'
<1>1. /\ procs[p].kind = "daemon" /\ procs[p].at = "lockfile"
      /\ UNCHANGED <<logs, remote>>
  BY DEF Flock, Is
<1>2. /\ t1' = t1 /\ savedSeq' = savedSeq
      /\ highest' = highest /\ given' = given /\ accepted' = accepted
  BY <1>1 DEF logs, remote
<1>3. Owners = {}
  <2>1. procs[p].lock = pidFile
    BY <1>1 DEF FoundCore, OwnersHoldLock, Daemons
  <2>2. locks[pidFile].holder = None
    BY <2>1 DEF Taken
  <2> QED BY <2>2, OneOwner
<1>4. Working = {}
  BY <1>3 DEF Working, Owners, Daemons
<1>5. \A q \in Pids : ~procs[q].unsaved /\ procs[q].last = 0
  BY <1>4 DEF KeptCore, OneWorks, Working, Commands, Daemons, Is
<1>6. savedSeq = Len(given) + 1
  BY <1>5 DEF KeptCore, SeqsInTurn
<1>7. /\ Others(p) /\ procs'[p].kind = "daemon" /\ procs'[p].at = "locked"
      /\ SameCopies(p)
  <2>1. SameCopies(p)
    BY DEF LocalTypeOK, To, SameCopies, Process
  <2> QED BY <1>1, <2>1, GoesTo
<1>8. \A q \in Pids : SameCopies(q)
  BY <1>7 DEF Others, SameCopies
<1>9. p \in Opening /\ Opening' \subseteq Opening
  BY <1>1, <1>7 DEF Opening, Daemons, Others
<1>10. procs[p].linked
  <2>1. procs[p].t1 = t1 /\ procs[p].next = savedSeq
    BY DEF Fresh
  <2>2. \A i \in DOMAIN procs[p].t1 : LogHas(procs[p].t1[i])
    BY <2>1 DEF LogHas
  <2>3. ~(procs[p].next < savedSeq)
    BY <2>1 DEF LocalTypeOK
  <2> QED BY <1>9, <2>2, <2>3 DEF KeptCore, StaleIsSeen
<1>11. OneWorks'
  <2>1. \A q \in Working' : q = p
    BY <1>4, <1>7 DEF Working, Commands, Daemons, Others
  <2>2. /\ procs'[p].t1 = t1 /\ procs'[p].linked /\ procs'[p].next = Len(given) + 1
        /\ savedSeq = procs'[p].next
    BY <1>6, <1>7, <1>10 DEF SameCopies, Fresh
  <2>3. \A q \in Pids : ~procs'[q].unsaved /\ procs'[q].last = 0
    BY <1>5, <1>8 DEF SameCopies
  <2> QED BY <1>2, <2>1, <2>2, <2>3 DEF OneWorks
<1>12. SeqsInTurn'
  BY <1>2, <1>5, <1>8 DEF KeptCore, SeqsInTurn, SameCopies
<1>13. TakenUpTo'
  BY <1>2, <1>5, <1>8 DEF KeptCore, TakenUpTo, SameCopies
<1>14. StaleIsSeen'
  <2>1. \A q \in Opening' : q \in Opening /\ SameCopies(q)
    BY <1>8, <1>9 DEF Opening, Daemons
  <2> QED BY <1>2, <2>1 DEF KeptCore, StaleIsSeen, SameCopies, LogHas
<1>15. OpsKept'
  BY <1>2 DEF KeptCore, OpsKept
<1> QED BY <1>11, <1>12, <1>13, <1>14, <1>15 DEF KeptCore

LEMMA DaemonStepKept ==
  ASSUME BoundsAssumption, NoRace, LocalTypeOK, FoundCore, KeptCore,
         NEW p \in Pids, DaemonStep(p)
  PROVE  KeptCore'
<1>0. procs[p].kind = "daemon" /\ procs[p].at \notin {"live", "once", "queue"}
        => ~procs[p].unsaved /\ procs[p].last = 0
  BY DEF KeptCore, OneWorks, Is
<1>1. CASE LockOpen(p)
  <2>1. PICK i \in Inodes : procs' = [procs EXCEPT ![p] = [procs[p] EXCEPT !.at = "lockfile", !.lock = i]]
    BY <1>1, LockOpenInode
  <2>2. procs[p].kind = "daemon" /\ procs[p].at = "opened"
    BY <1>1 DEF LockOpen, Is
  <2>3. Others(p) /\ procs'[p].kind = "daemon" /\ procs'[p].at = "lockfile" /\ SameCopies(p)
    BY <2>1, <2>2 DEF LocalTypeOK, Others, SameCopies, Process
  <2>4. p \in Opening /\ p \notin Working'
    BY <2>2, <2>3 DEF Opening, Working, Commands, Daemons
  <2>5. Keeps(p)
    BY <1>0, <2>2, <2>3, <2>4 DEF Keeps
  <2>6. UNCHANGED <<logs, remote>>
    BY <1>1 DEF LockOpen
  <2> QED BY <2>3, <2>5, <2>6, OthersKeep, KeptStays
<1>2. CASE Flock(p)
  <2>1. CASE End(p)
    <3>1. ~procs[p].unsaved
      BY <1>0, <1>2 DEF Flock, Is
    <3>2. UNCHANGED <<logs, remote>>
      BY <1>2 DEF Flock
    <3> QED BY <2>1, <3>1, <3>2, EndIdles, KeptStays
  <2>2. CASE ~Taken(procs[p].lock) /\ Commands = {} /\ Fresh(p) /\ To(p, "locked")
    BY <1>2, <2>2, FlockKept
  <2> QED BY <1>2, <2>1, <2>2 DEF Flock, NoRace
<1>3. CASE RegisterOpen(p)
  <2>1. procs[p].kind = "daemon" /\ procs[p].at = "locked"
    BY <1>3 DEF RegisterOpen, Is
  <2>2. procs' = [procs EXCEPT ![p] = [procs[p] EXCEPT !.at = "registering", !.roots = TRUE]]
    BY <1>3 DEF RegisterOpen
  <2>3. Others(p) /\ procs'[p].kind = "daemon" /\ procs'[p].at = "registering" /\ SameCopies(p)
    BY <2>1, <2>2 DEF LocalTypeOK, Others, SameCopies, Process
  <2>4. p \in Working /\ p \notin Opening'
    BY <2>1, <2>3 DEF Opening, Working, Commands, Daemons
  <2>5. Keeps(p)
    BY <1>0, <2>1, <2>3, <2>4 DEF Keeps
  <2>6. UNCHANGED <<logs, remote>>
    BY <1>3 DEF RegisterOpen
  <2> QED BY <2>3, <2>5, <2>6, OthersKeep, KeptStays
<1>4. CASE RegisterAppend(p)
  <2>1. \A q \in Pids : Keeps(q) \/ Idles(q)
    BY <1>0, <1>4, MoveKeeps DEF RegisterAppend, Is
  <2> QED BY <1>4, <2>1, KeptStays DEF RegisterAppend
<1>5. CASE Listen(p)
  <2>1. \A q \in Pids : Keeps(q) \/ Idles(q)
    BY <1>0, <1>5, MoveKeeps DEF Listen, Is
  <2> QED BY <1>5, <2>1, KeptStays DEF Listen
<1>6. CASE Shutdown(p)
  <2>1. \A q \in Pids : Keeps(q) \/ Idles(q)
    BY <1>6, MoveKeeps DEF Shutdown, Is
  <2> QED BY <1>6, <2>1, KeptStays DEF Shutdown
<1>7. CASE CloseSocket(p)
  <2>1. \A q \in Pids : Keeps(q) \/ Idles(q)
    BY <1>0, <1>7, MoveKeeps DEF CloseSocket, Is
  <2> QED BY <1>7, <2>1, KeptStays DEF CloseSocket
<1>8. CASE Unlock(p)
  <2>1. \A q \in Pids : Keeps(q) \/ Idles(q)
    BY <1>0, <1>8, MoveKeeps DEF Unlock, Is
  <2> QED BY <1>8, <2>1, KeptStays DEF Unlock
<1>9. CASE RemovePidFile(p)
  <2>1. \A q \in Pids : Keeps(q) \/ Idles(q)
    BY <1>0, <1>9, EndIdles DEF RemovePidFile, Is
  <2> QED BY <1>9, <2>1, KeptStays DEF RemovePidFile
<1> QED BY <1>1, <1>2, <1>3, <1>4, <1>5, <1>6, <1>7, <1>8, <1>9 DEF DaemonStep

\* Nobody works, so nothing is unsaved.
LEMMA NobodyWorks ==
  ASSUME KeptCore, Working = {}
  PROVE  /\ \A q \in Pids : ~procs[q].unsaved /\ procs[q].last = 0
         /\ savedSeq = Len(given) + 1
<1>1. \A q \in Pids : ~procs[q].unsaved /\ procs[q].last = 0
  BY DEF KeptCore, OneWorks, Working, Commands, Daemons, Is
<1> QED BY <1>1 DEF KeptCore, SeqsInTurn

\* Who opens the tiers has what they hold; a command finds nobody at work.
LEMMA OpenKept ==
  ASSUME LocalTypeOK, KeptCore, NEW r \in Process, NEW kind, NEW at, Start(r),
         Opens(r, kind, at, savedSeq), UNCHANGED <<logs, remote>>,
         \/ kind = "daemon" /\ at = "opened"
         \/ Working = {} /\ at \in {"once", "pull", "queue"}
  PROVE  KeptCore'
<1>1. PICK p \in Pids : procs[p] = NoProcess /\ procs' = [procs EXCEPT ![p] = r]
  BY StartsSomewhere
<1>2. Others(p) /\ procs'[p] = r
  BY <1>1 DEF LocalTypeOK, Others
<1>3. /\ t1' = t1 /\ savedSeq' = savedSeq
      /\ highest' = highest /\ given' = given /\ accepted' = accepted
  BY DEF logs, remote
<1>4. \A q \in Pids : q # p => Keeps(q)
  BY <1>2, OthersKeep
<1>5. /\ procs'[p].kind = kind /\ procs'[p].at = at /\ procs'[p].t1 = t1
      /\ procs'[p].next = savedSeq /\ procs'[p].linked /\ ~procs'[p].unsaved
      /\ procs'[p].last = 0
  BY <1>2 DEF Opens
<1>6. /\ p \notin Working /\ p \notin Opening /\ ~procs[p].unsaved
  BY <1>1 DEF Working, Opening, Commands, Daemons, NoProcess
<1>7. OneWorks'
  <2>1. \A q \in Pids :
       /\ procs'[q].unsaved => procs'[q].at \in {"once", "queue"} \/ Is(q, "daemon", "live")'
       /\ procs'[q].last # 0 => procs'[q].at = "once" \/ Is(q, "daemon", "live")'
    BY <1>2, <1>5 DEF KeptCore, OneWorks, Is, Others
  <2>2. \A q \in Working' : q = p \/ (q \in Working /\ SameCopies(q))
    <3> SUFFICES ASSUME NEW q \in Working', q # p PROVE q \in Working /\ SameCopies(q)
      OBVIOUS
    <3>1. q \in Pids
      BY DEF Working, Commands, Daemons
    <3>2. Keeps(q)
      BY <1>4, <3>1
    <3> QED BY <3>2 DEF Keeps
  <2>3. CASE at = "opened" /\ kind = "daemon"
    <3>1. p \notin Working'
      BY <1>5, <2>3 DEF Working, Commands, Daemons
    <3> QED BY <1>3, <2>1, <2>2, <3>1 DEF KeptCore, OneWorks, SameCopies
  <2>4. CASE Working = {}
    BY <1>3, <1>5, <2>1, <2>2, <2>4, NobodyWorks DEF OneWorks
  <2> QED BY <2>3, <2>4
<1>8. SeqsInTurn'
  <2>1. \A q \in Pids : procs[q].unsaved => procs'[q].unsaved
    BY <1>2, <1>6 DEF Others
  <2>2. \A q \in Pids : \A i \in DOMAIN procs'[q].t1 : procs'[q].t1[i].id \in DOMAIN given
    BY <1>2, <1>5 DEF Others, KeptCore, SeqsInTurn
  <2> QED BY <1>3, <2>1, <2>2 DEF KeptCore, SeqsInTurn
<1>9. TakenUpTo'
  <2>1. \A q \in Pids : procs'[q].last # 0 => procs'[q] = procs[q]
    BY <1>2, <1>5 DEF Others
  <2> QED BY <1>3, <2>1 DEF KeptCore, TakenUpTo
<1>10. StaleIsSeen'
  <2>1. \A q \in Opening' : q = p \/ (q \in Opening /\ SameCopies(q))
    <3> SUFFICES ASSUME NEW q \in Opening', q # p PROVE q \in Opening /\ SameCopies(q)
      OBVIOUS
    <3>1. q \in Pids
      BY DEF Opening, Daemons
    <3>2. Keeps(q)
      BY <1>4, <3>1
    <3> QED BY <3>2 DEF Keeps
  <2>2. /\ procs'[p].next <= savedSeq'
        /\ procs'[p].linked
        /\ \A j \in DOMAIN t1' : \E i \in DOMAIN procs'[p].t1 : procs'[p].t1[i] = t1'[j]
    BY <1>3, <1>5 DEF LocalTypeOK
  <2> QED BY <1>3, <2>1, <2>2 DEF KeptCore, StaleIsSeen, SameCopies, LogHas
<1>11. OpsKept'
  BY <1>3 DEF KeptCore, OpsKept
<1> QED BY <1>7, <1>8, <1>9, <1>10, <1>11 DEF KeptCore

LEMMA KilledKept ==
  ASSUME NoRace, LocalTypeOK, KeptCore, NEW p \in Pids, Killed(p)
  PROVE  KeptCore'
<1>1. End(p) /\ ~procs[p].unsaved /\ UNCHANGED <<logs, remote>>
  BY DEF Killed, NoRace
<1> QED BY <1>1, EndIdles, KeptStays

\* Those who start beside the tiers.
LEMMA OutsiderKept ==
  ASSUME LocalTypeOK, KeptCore, NEW r \in Process, Start(r), UNCHANGED <<logs, remote>>,
         r.at \in {"rewrite", "stop"}, r.t1 = << >>, ~r.unsaved, r.last = 0
  PROVE  KeptCore'
<1>1. PICK p \in Pids : procs[p] = NoProcess /\ procs' = [procs EXCEPT ![p] = r]
  BY StartsSomewhere
<1>2. Others(p) /\ procs'[p] = r
  BY <1>1 DEF LocalTypeOK, Others
<1>3. Idles(p)
  BY <1>1, <1>2 DEF Idles, NoProcess, Working, Opening, Commands, Daemons
<1> QED BY <1>2, <1>3, OthersKeep, KeptStays

LEMMA OtherStepKept ==
  ASSUME NoRace, LocalTypeOK, FoundCore, KeptCore,
         \/ StartDaemon \/ RunSync \/ RunPull \/ RunTrashRestore
         \/ RunListPrune \/ RunRemove \/ RunInitReset
         \/ \E p \in Pids : Kill(p) \/ StopVault(p) \/ StopByForce(p) \/ Rewrite(p)
  PROVE  KeptCore'
<1>1. CASE StartDaemon
  <2>1. Opens(Opened("daemon", "opened"), "daemon", "opened", savedSeq)
    BY OpenedIs DEF LocalTypeOK
  <2>2. Opened("daemon", "opened") \in Process
    BY <2>1 DEF Opens
  <2> QED BY <1>1, <2>1, <2>2, OpenKept DEF StartDaemon
<1>2. CASE RunSync \/ RunPull
  <2>1. PICK kind \in {"sync", "pull"}, at \in {"once", "pull"} : OpenSession(kind, at)
    BY <1>2 DEF RunSync, RunPull
  <2>2. Working = {} /\ UNCHANGED <<t1, remote>>
    BY <2>1 DEF OpenSession, MayOpen, NoRace
  <2>3. PICK r \in Process :
           /\ Start(r)
           /\ \/ Opens(r, kind, at, savedSeq) /\ UNCHANGED savedSeq
              \/ BaseLost /\ savedSeq' = 1 /\ Opens(r, kind, at, 1)
    BY <2>1, OpenSessionIs
  <2>4. BaseLost => savedSeq = 1
    BY <2>2, NobodyWorks DEF BaseLost, NoRace
  <2>5. Opens(r, kind, at, savedSeq) /\ UNCHANGED <<logs, remote>>
    BY <2>2, <2>3, <2>4 DEF logs
  <2> QED BY <2>2, <2>3, <2>5, OpenKept
<1>3. CASE RunTrashRestore
  <2>1. Opens(Opened("restore", "queue"), "restore", "queue", savedSeq)
    BY OpenedIs DEF LocalTypeOK
  <2>2. Opened("restore", "queue") \in Process /\ Working = {}
    BY <1>3, <2>1 DEF Opens, RunTrashRestore, MayOpen, NoRace
  <2> QED BY <1>3, <2>1, <2>2, OpenKept DEF RunTrashRestore
<1>4. CASE RunListPrune
  <2>1. PICK r : r = [NoProcess EXCEPT !.kind = "prune", !.at = "rewrite", !.roots = listed]
    OBVIOUS
  <2>2. r \in Process
    BY <2>1, OutsiderType DEF LocalTypeOK
  <2>3. r.at = "rewrite" /\ r.t1 = << >> /\ ~r.unsaved /\ r.last = 0
    BY <2>1, NobodyIsAProcess DEF Process, NoProcess
  <2> QED BY <1>4, <2>1, <2>2, <2>3, OutsiderKept DEF RunListPrune
<1>5. CASE RunRemove
  <2>1. PICK r : r = [NoProcess EXCEPT !.kind = "remove", !.at = "stop", !.roots = FALSE]
    OBVIOUS
  <2>2. r \in Process
    BY <2>1, OutsiderType
  <2>3. r.at = "stop" /\ r.t1 = << >> /\ ~r.unsaved /\ r.last = 0
    BY <2>1, NobodyIsAProcess DEF Process, NoProcess
  <2> QED BY <1>5, <2>1, <2>2, <2>3, OutsiderKept DEF RunRemove
<1>6. CASE RunInitReset
  <2>1. \A q \in Pids : procs'[q] = NoProcess
    BY <1>6 DEF RunInitReset
  <2>2. \A q \in Pids : ~procs'[q].unsaved /\ procs'[q].last = 0 /\ procs'[q].t1 = << >>
    BY <2>1 DEF NoProcess
  <2>3. Working' = {} /\ Opening' = {}
    BY <2>1 DEF Working, Opening, Commands, Daemons, NoProcess
  <2>4. /\ t1' = << >> /\ savedSeq' = 1 /\ highest' = 0 /\ given' = << >>
        /\ Len(given') = 0 /\ DOMAIN given' = {} /\ DOMAIN t1' = {}
    BY <1>6 DEF RunInitReset
  <2> QED BY <2>2, <2>3, <2>4 DEF KeptCore, OneWorks, SeqsInTurn, TakenUpTo, StaleIsSeen, OpsKept
<1>7. ASSUME NEW p \in Pids, Kill(p) PROVE KeptCore'
  BY <1>7, KilledKept DEF Kill
<1>8. ASSUME NEW p \in Pids, StopVault(p) PROVE KeptCore'
  <2> DEFINE t == IF pidFile = None THEN None ELSE locks[pidFile].text
             g == IF t \in Pids /\ procs[t] # NoProcess THEN t ELSE None
  <2>1. procs' = [q \in Pids |->
       CASE q = p -> [procs[p] EXCEPT !.at = "rewrite", !.target = g]
         [] q # p /\ q = t /\ procs[q] # NoProcess -> [procs[q] EXCEPT !.stop = TRUE]
         [] OTHER -> procs[q]]
    BY <1>8 DEF StopVault
  <2> HIDE DEF t, g
  <2>2. procs[p].kind = "remove" /\ procs[p].at = "stop" /\ procs \in [Pids -> Process]
    BY <1>8 DEF StopVault, Is, LocalTypeOK
  <2>3. ASSUME NEW q \in Pids
        PROVE  SameCopies(q) /\ IF q = p THEN procs'[q].at = "rewrite" ELSE SamePlace(q)
    <3>1. CASE q = p
      <4>1. procs'[p] = [procs[p] EXCEPT !.at = "rewrite", !.target = g]
        BY <2>1
      <4>2. procs[p] \in Process
        BY <2>2
      <4>3. /\ procs'[p].at = "rewrite" /\ procs'[p].t1 = procs[p].t1
            /\ procs'[p].next = procs[p].next /\ procs'[p].linked = procs[p].linked
            /\ procs'[p].unsaved = procs[p].unsaved /\ procs'[p].last = procs[p].last
        BY <4>1, <4>2 DEF Process
      <4> QED BY <3>1, <4>3 DEF SameCopies
    <3>2. CASE q # p /\ q = t /\ procs[q] # NoProcess
      BY <2>1, <2>2, <3>2 DEF SameCopies, SamePlace, Process
    <3>3. CASE q # p /\ ~(q = t /\ procs[q] # NoProcess)
      BY <2>1, <2>2, <3>3 DEF SameCopies, SamePlace
    <3> QED BY <3>1, <3>2, <3>3
  <2>4. ~procs[p].unsaved /\ procs[p].last = 0
    BY <2>2 DEF KeptCore, OneWorks, Is
  <2>5. ASSUME NEW q \in Pids PROVE Keeps(q)
    <3>1. CASE q = p
      BY <2>3, <2>4, <3>1 DEF Keeps, Working, Opening, Commands, Daemons
    <3>2. CASE q # p
      BY <2>3, <3>2 DEF Keeps, SamePlace, Working, Opening, Commands, Daemons
    <3> QED BY <3>1, <3>2
  <2> QED BY <1>8, <2>5, KeptStays DEF StopVault
<1>9. ASSUME NEW p \in Pids, StopByForce(p) PROVE KeptCore'
  BY <1>9, KilledKept DEF StopByForce
<1>10. ASSUME NEW p \in Pids, Rewrite(p) PROVE KeptCore'
  <2>1. Daemons({"registering"}) = {} /\ procs[p].at = "rewrite" /\ UNCHANGED <<logs, remote>>
    BY <1>10 DEF Rewrite, NoRace
  <2>2. procs' = [q \in Pids |-> IF q = p THEN NoProcess ELSE procs[q]]
    <3>1. \A q \in Pids : ~Is(q, "daemon", "registering")
      BY <2>1 DEF Daemons, Is
    <3> QED BY <1>10, <3>1 DEF Rewrite, LocalTypeOK
  <2>3. ~procs[p].unsaved
    BY <2>1 DEF KeptCore, OneWorks, Is
  <2>4. End(p)
    BY <2>2 DEF End, LocalTypeOK
  <2> QED BY <2>1, <2>3, <2>4, EndIdles, KeptStays
<1> QED BY <1>1, <1>2, <1>3, <1>4, <1>5, <1>6, <1>7, <1>8, <1>9, <1>10

LEMMA SamePlaces ==
  ASSUME \A q \in Pids : SamePlace(q)
  PROVE  Working' = Working /\ Opening' = Opening
BY DEF SamePlace, Working, Opening, Commands, Daemons

\* Who works has what is in the files, and nobody else does.
Worker(p) ==
  /\ p \in Working /\ p \notin Opening
  /\ procs[p].t1 = t1 /\ procs[p].linked /\ procs[p].next = Len(given) + 1
  /\ procs[p].unsaved \/ savedSeq = procs[p].next
  /\ \A q \in Working : q = p
  /\ \A q \in Pids : q # p => ~procs[q].unsaved /\ procs[q].last = 0

LEMMA WhoWorks ==
  ASSUME LocalTypeOK, KeptCore, NEW p \in Pids,
         \/ InSession(p) \/ procs[p].at \in {"pull", "queue"}
         \/ procs[p].unsaved \/ procs[p].last # 0
  PROVE  Worker(p)
<1>1. InSession(p) \/ procs[p].at \in {"pull", "queue"}
  BY DEF KeptCore, OneWorks, InSession
<1>2. p \in Working /\ p \notin Opening
  BY <1>1 DEF InSession, Is, Working, Opening, Commands, Daemons
<1>3. \A q \in Working : q = p
  BY <1>2 DEF KeptCore, OneWorks
<1>4. ASSUME NEW q \in Pids, q # p PROVE ~procs[q].unsaved /\ procs[q].last = 0
  <2>1. q \notin Working
    BY <1>3, <1>4
  <2> QED BY <2>1 DEF KeptCore, OneWorks, Working, Commands, Daemons, Is
<1> QED BY <1>2, <1>3, <1>4 DEF KeptCore, OneWorks, Worker

\* What is known of the log: its ops are in turn, and each is known by its id.
LEMMA LogIs ==
  ASSUME LocalTypeOK, KeptCore
  PROVE  /\ Len(given) \in Nat /\ DOMAIN given = 1 .. Len(given)
         /\ Len(t1) \in Nat /\ DOMAIN t1 = 1 .. Len(t1)
         /\ highest \in Nat /\ savedSeq \in Nat
         /\ \A i \in DOMAIN t1 :
              /\ t1[i] \in LogOps /\ t1[i].seq \in Nat /\ t1[i].id = t1[i].seq
              /\ t1[i].id >= 1 /\ t1[i].id <= Len(given)
<1>1. t1 \in Seq(LogOps) /\ given \in Seq(Nat) /\ highest \in Nat /\ savedSeq \in Nat
  BY DEF LocalTypeOK
<1>2. /\ Len(given) \in Nat /\ DOMAIN given = 1 .. Len(given)
      /\ Len(t1) \in Nat /\ DOMAIN t1 = 1 .. Len(t1)
      /\ \A i \in DOMAIN t1 : t1[i] \in LogOps
  BY <1>1
<1>3. \A i \in DOMAIN t1 : t1[i].seq = t1[i].id /\ t1[i].id \in DOMAIN given
  BY DEF KeptCore, SeqsInTurn
<1> QED BY <1>1, <1>2, <1>3 DEF LogOps

LEMMA AppendKept ==
  ASSUME LocalTypeOK, KeptCore, NEW p \in Pids, AppendStaged(p)
  PROVE  KeptCore'
<1>1. /\ InSession(p) \/ procs[p].at = "queue"
      /\ ~procs[p].unsaved
      /\ savedSeq' = savedSeq /\ highest' = highest /\ accepted' = accepted
  BY DEF AppendStaged
<1>2. Worker(p) /\ savedSeq = Len(given) + 1
  <2>1. Worker(p)
    BY <1>1, WhoWorks
  <2> QED BY <1>1, <2>1 DEF Worker
<1> DEFINE n == Len(given)
           L == Len(t1)
<1>3. PICK op \in LogOps :
        /\ op.seq = n + 1 /\ op.id = n + 1
        /\ given' = Append(given, n + 1)
        /\ t1' = Append(t1, op)
        /\ procs' = [procs EXCEPT ![p] =
             [procs[p] EXCEPT !.t1 = Append(procs[p].t1, op), !.next = procs[p].next + 1,
                              !.unsaved = TRUE]]
  <2>1. PICK op \in LogOps :
           /\ op.seq = procs[p].next /\ op.id = Len(given) + 1
           /\ given' = Append(given, procs[p].next)
           /\ t1' = IF procs[p].linked THEN Append(t1, op) ELSE t1
           /\ procs' = [procs EXCEPT ![p] =
                [procs[p] EXCEPT !.t1 = Append(procs[p].t1, op), !.next = procs[p].next + 1,
                                 !.unsaved = TRUE]]
    BY AppendIs
  <2>2. procs[p].next = n + 1 /\ procs[p].linked
    BY <1>2 DEF Worker
  <2>3. given' = Append(given, n + 1) /\ t1' = Append(t1, op) /\ op.seq = n + 1 /\ op.id = n + 1
    BY <2>1, <2>2
  <2> QED BY <2>1, <2>3
<1>4. /\ n \in Nat /\ L \in Nat
      /\ DOMAIN given = 1 .. n /\ DOMAIN t1 = 1 .. L
      /\ highest \in Nat
  BY LogIs
<1>5. /\ Len(given') = n + 1 /\ DOMAIN given' = 1 .. (n + 1)
      /\ \A id \in 1 .. n : given'[id] = given[id]
      /\ given'[n + 1] = n + 1
  BY <1>3, <1>4 DEF LocalTypeOK
<1>6. /\ DOMAIN t1' = 1 .. (L + 1) /\ \A j \in 1 .. L : t1'[j] = t1[j]
      /\ t1'[L + 1] = op
  BY <1>3, <1>4 DEF LocalTypeOK
<1>7. Others(p)
  BY <1>3 DEF Others, LocalTypeOK
<1>8. /\ SamePlace(p) /\ procs'[p].t1 = t1' /\ procs'[p].next = n + 2 /\ procs'[p].unsaved
      /\ procs'[p].linked /\ procs'[p].last = procs[p].last
  <2>1. procs[p] \in Process /\ procs[p].next = n + 1 /\ procs[p].t1 = t1 /\ procs[p].linked
    BY <1>2 DEF LocalTypeOK, Worker
  <2>2. procs'[p] = [procs[p] EXCEPT !.t1 = Append(procs[p].t1, op),
                                     !.next = procs[p].next + 1, !.unsaved = TRUE]
    BY <1>3 DEF LocalTypeOK
  <2>3. /\ SamePlace(p) /\ procs'[p].t1 = Append(procs[p].t1, op)
        /\ procs'[p].next = procs[p].next + 1 /\ procs'[p].unsaved
        /\ procs'[p].linked = procs[p].linked /\ procs'[p].last = procs[p].last
    <3>1. PICK a, b : a = Append(procs[p].t1, op) /\ b = procs[p].next + 1
      OBVIOUS
    <3>2. procs'[p] = [procs[p] EXCEPT !.t1 = a, !.next = b, !.unsaved = TRUE]
      BY <2>2, <3>1
    <3>3. PICK r : r = procs[p]
      OBVIOUS
    <3>4. r \in Process
      BY <2>1, <3>3
    <3>5. procs'[p] = [r EXCEPT !.t1 = a, !.next = b, !.unsaved = TRUE]
      BY <3>2, <3>3
    <3>6. /\ procs'[p].kind = r.kind /\ procs'[p].at = r.at /\ procs'[p].t1 = a
          /\ procs'[p].next = b /\ procs'[p].unsaved = TRUE
          /\ procs'[p].linked = r.linked /\ procs'[p].last = r.last
      BY <3>4, <3>5 DEF Process
    <3>7. /\ SamePlace(p) /\ procs'[p].t1 = a
          /\ procs'[p].next = b /\ procs'[p].unsaved
          /\ procs'[p].linked = procs[p].linked /\ procs'[p].last = procs[p].last
      BY <3>3, <3>6 DEF SamePlace
    <3> QED BY <3>1, <3>7
  <2> QED BY <1>3, <1>4, <2>1, <2>3
<1> HIDE DEF n, L
<1>9. Working' = Working /\ Opening' = Opening
  <2>1. \A q \in Pids : SamePlace(q)
    BY <1>7, <1>8 DEF Others, SamePlace
  <2> QED BY <2>1, SamePlaces
<1>10. OneWorks'
  <2>1. \A q \in Pids :
       /\ procs'[q].unsaved => procs'[q].at \in {"once", "queue"} \/ Is(q, "daemon", "live")'
       /\ procs'[q].last # 0 => procs'[q].at = "once" \/ Is(q, "daemon", "live")'
    BY <1>1, <1>7, <1>8 DEF KeptCore, OneWorks, Is, Others, SamePlace, InSession
  <2>2. \A q \in Working' : q = p
    BY <1>2, <1>9 DEF Worker
  <2> QED BY <1>4, <1>5, <1>8, <2>1, <2>2 DEF OneWorks
<1>11. SeqsInTurn'
  <2>1. savedSeq' = n + 1
    BY <1>1, <1>2 DEF n
  <2>2. \A id \in 1 .. (n + 1) : given'[id] = id
    BY <1>4, <1>5 DEF KeptCore, SeqsInTurn
  <2>3. \A i \in DOMAIN t1' : t1'[i].seq = t1'[i].id /\ t1'[i].id \in 1 .. (n + 1)
    <3>1. \A i \in 1 .. L : t1[i].seq = t1[i].id /\ t1[i].id \in 1 .. n
      BY <1>4 DEF KeptCore, SeqsInTurn
    <3>2. \A i \in 1 .. (L + 1) : i \in 1 .. L \/ i = L + 1
      BY <1>4
    <3> QED BY <1>3, <1>4, <1>6, <3>1, <3>2
  <2>4. \A q \in Pids : q # p =>
          \A i \in DOMAIN procs'[q].t1 : procs'[q].t1[i].id \in 1 .. (n + 1)
    <3>1. \A q \in Pids : \A i \in DOMAIN procs[q].t1 : procs[q].t1[i].id \in 1 .. n
      BY <1>4 DEF KeptCore, SeqsInTurn
    <3>2. 1 .. n \subseteq 1 .. (n + 1)
      BY <1>4
    <3> QED BY <1>7, <3>1, <3>2 DEF Others
  <2> QED BY <1>5, <1>8, <2>1, <2>2, <2>3, <2>4 DEF SeqsInTurn
<1>12. TakenUpTo'
  <2>1. highest' <= Len(given') /\ \A id \in DOMAIN given' : id <= highest' => id \in accepted'
    BY <1>1, <1>4, <1>5 DEF KeptCore, TakenUpTo, n
  <2>2. ASSUME procs'[p].last # 0
        PROVE  /\ \E i \in DOMAIN t1' : t1'[i].seq = procs'[p].last
               /\ \A i \in DOMAIN t1' : t1'[i].seq <= procs'[p].last => t1'[i].id \in accepted'
    <3> DEFINE last == procs[p].last
    <3>1. /\ \E i \in DOMAIN t1 : t1[i].seq = last
          /\ \A i \in DOMAIN t1 : t1[i].seq <= last => t1[i].id \in accepted
      BY <1>2, <1>8, <2>2 DEF KeptCore, TakenUpTo, Worker
    <3>2. \A i \in 1 .. L : t1[i].seq \in Nat /\ t1[i].seq <= n
      BY <1>4, LogIs DEF n
    <3>3. last \in Nat /\ last <= n
      BY <1>4, <3>1, <3>2
    <3>4. \A i \in 1 .. (L + 1) : i \in 1 .. L \/ i = L + 1
      BY <1>4
    <3>5. \A i \in 1 .. L : i \in 1 .. (L + 1)
      BY <1>4
    <3>6. ~(op.seq <= last)
      BY <1>3, <1>4, <3>3 DEF n
    <3> HIDE DEF last
    <3>7. procs'[p].last = last
      BY <1>8 DEF last
    <3>8. \E i \in DOMAIN t1' : t1'[i].seq = last
      BY <1>4, <1>6, <3>1, <3>5
    <3>9. \A i \in DOMAIN t1' : t1'[i].seq <= last => t1'[i].id \in accepted
      BY <1>4, <1>6, <3>1, <3>4, <3>6
    <3> QED BY <1>1, <3>7, <3>8, <3>9
  <2>3. \A q \in Pids : q # p => procs'[q].last = 0
    BY <1>2, <1>7 DEF Worker, Others
  <2> QED BY <1>8, <2>1, <2>2, <2>3 DEF TakenUpTo
<1>13. StaleIsSeen'
  <2> SUFFICES ASSUME NEW q \in Opening
      PROVE /\ procs'[q].next <= savedSeq'
            /\ procs'[q].linked => \A j \in DOMAIN t1' :
                 \/ t1'[j].seq >= procs'[q].next
                 \/ \E i \in DOMAIN procs'[q].t1 : procs'[q].t1[i] = t1'[j]
            /\ ~procs'[q].linked =>
                 \/ procs'[q].next < savedSeq'
                 \/ \E i \in DOMAIN procs'[q].t1 :
                      \A j \in DOMAIN t1' : t1'[j].id # procs'[q].t1[i].id
    BY <1>9 DEF StaleIsSeen, LogHas
  <2>1. q \in Pids /\ q # p /\ procs'[q] = procs[q]
    BY <1>2, <1>7 DEF Worker, Opening, Daemons, Others
  <2>2. procs[q].next <= savedSeq /\ procs[q].next \in Nat /\ savedSeq = n + 1
    BY <1>2, <2>1 DEF KeptCore, StaleIsSeen, LocalTypeOK, Process, n
  <2>3. \A j \in 1 .. (L + 1) : j \in 1 .. L \/ j = L + 1
    BY <1>4
  <2>4. op.seq >= procs[q].next
    BY <1>3, <1>4, <2>2 DEF n
  <2>5. ASSUME procs[q].linked, NEW j \in DOMAIN t1'
        PROVE  \/ t1'[j].seq >= procs[q].next
               \/ \E i \in DOMAIN procs[q].t1 : procs[q].t1[i] = t1'[j]
    BY <1>4, <1>6, <2>3, <2>4, <2>5 DEF KeptCore, StaleIsSeen
  <2>6. ASSUME NEW i \in DOMAIN procs[q].t1, ~LogHas(procs[q].t1[i])
        PROVE  \A j \in DOMAIN t1' : t1'[j].id # procs[q].t1[i].id
    <3>1. procs[q].t1[i].id \in 1 .. n
      BY <1>4, <2>1 DEF KeptCore, SeqsInTurn
    <3>2. procs[q].t1[i].id # op.id
      BY <1>3, <1>4, <3>1 DEF n
    <3> QED BY <1>4, <1>6, <2>1, <2>3, <2>6, <3>2 DEF LogHas
  <2>7. ASSUME ~procs[q].linked, ~(procs[q].next < savedSeq)
        PROVE  \E i \in DOMAIN procs[q].t1 : ~LogHas(procs[q].t1[i])
    BY <2>7 DEF KeptCore, StaleIsSeen
  <2> QED BY <1>1, <2>1, <2>2, <2>5, <2>6, <2>7
<1>14. OpsKept'
  <2>1. \A id \in 1 .. (n + 1) : id \in 1 .. n \/ id = n + 1
    BY <1>4
  <2>2. \A j \in 1 .. L : j \in 1 .. (L + 1)
    BY <1>4
  <2>3. L + 1 \in DOMAIN t1' /\ t1'[L + 1].id = n + 1
    BY <1>3, <1>4, <1>6 DEF n
  <2>4. \A id \in 1 .. n : id \in accepted \/ \E j \in 1 .. L : t1[j].id = id
    BY <1>4 DEF KeptCore, OpsKept
  <2> QED BY <1>1, <1>5, <1>6, <2>1, <2>2, <2>3, <2>4 DEF OpsKept
<1> QED BY <1>10, <1>11, <1>12, <1>13, <1>14 DEF KeptCore

LEMMA SaveSeqKept ==
  ASSUME LocalTypeOK, KeptCore, NEW p \in Pids, SaveSeq(p)
  PROVE  KeptCore'
<1>1. /\ procs[p].unsaved /\ savedSeq' = procs[p].next
      /\ procs' = [procs EXCEPT ![p] = [procs[p] EXCEPT !.unsaved = FALSE]]
      /\ t1' = t1 /\ highest' = highest /\ given' = given /\ accepted' = accepted
  BY DEF SaveSeq, remote
<1>2. Worker(p)
  BY <1>1, WhoWorks
<1>3. savedSeq' = Len(given) + 1
  BY <1>1, <1>2 DEF Worker
<1>4. /\ Others(p) /\ SamePlace(p) /\ ~procs'[p].unsaved
      /\ procs'[p].t1 = procs[p].t1 /\ procs'[p].next = procs[p].next
      /\ procs'[p].linked = procs[p].linked /\ procs'[p].last = procs[p].last
  BY <1>1 DEF Others, SamePlace, LocalTypeOK, Process
<1>5. Working' = Working /\ Opening' = Opening
  <2>1. \A q \in Pids : SamePlace(q)
    BY <1>4 DEF Others, SamePlace
  <2> QED BY <2>1, SamePlaces
<1>6. OneWorks'
  <2>1. \A q \in Pids :
       /\ procs'[q].unsaved => procs'[q].at \in {"once", "queue"} \/ Is(q, "daemon", "live")'
       /\ procs'[q].last # 0 => procs'[q].at = "once" \/ Is(q, "daemon", "live")'
    BY <1>4 DEF KeptCore, OneWorks, Is, Others, SamePlace
  <2> QED BY <1>1, <1>2, <1>3, <1>4, <1>5, <2>1 DEF OneWorks, Worker
<1>7. SeqsInTurn'
  <2>1. \A q \in Pids : procs'[q].t1 = procs[q].t1
    BY <1>4 DEF Others
  <2> QED BY <1>1, <1>3, <2>1 DEF KeptCore, SeqsInTurn
<1>8. TakenUpTo'
  <2>1. \A q \in Pids : procs'[q].t1 = procs[q].t1 /\ procs'[q].last = procs[q].last
    BY <1>4 DEF Others
  <2> QED BY <1>1, <2>1 DEF KeptCore, TakenUpTo
<1>9. StaleIsSeen'
  <2>1. \A q \in Opening : q \in Pids /\ procs'[q] = procs[q] /\ procs[q].next \in Nat
    BY <1>2, <1>4 DEF Others, Worker, Opening, Daemons, LocalTypeOK, Process
  <2>2. Len(given) \in Nat /\ savedSeq \in {Len(given), Len(given) + 1}
    BY LogIs DEF KeptCore, SeqsInTurn
  <2>3. \A q \in Opening : procs[q].next <= savedSeq
    BY DEF KeptCore, StaleIsSeen
  <2>4. \A q \in Opening : procs[q].next <= savedSeq'
                           /\ (procs[q].next < savedSeq => procs[q].next < savedSeq')
    BY <1>3, <2>1, <2>2, <2>3
  <2> QED BY <1>1, <1>5, <2>1, <2>4 DEF KeptCore, StaleIsSeen, LogHas
<1>10. OpsKept'
  BY <1>1 DEF KeptCore, OpsKept
<1> QED BY <1>6, <1>7, <1>8, <1>9, <1>10 DEF KeptCore

LEMMA PushKept ==
  ASSUME LocalTypeOK, KeptCore, NEW p \in Pids, PushStaged(p)
  PROVE  KeptCore'
<1> DEFINE new == After(procs[p].t1, highest)
<1>1. /\ InSession(p) /\ procs[p].t1 # << >>
      /\ highest' = IF new = << >> THEN highest ELSE Last(new).seq
      /\ accepted' = accepted \cup {new[i].id : i \in DOMAIN new}
      /\ t1' = t1 /\ savedSeq' = savedSeq /\ given' = given
  BY DEF PushStaged, logs
<1>2. Worker(p) /\ t1 # << >>
  <2>1. Worker(p)
    BY <1>1, WhoWorks
  <2> QED BY <1>1, <2>1 DEF Worker
<1>3. PICK last \in {0, Last(t1).seq} : procs' = [procs EXCEPT ![p].last = last]
  BY <1>2 DEF PushStaged, Worker
<1>4. /\ Others(p) /\ SamePlace(p) /\ procs'[p].unsaved = procs[p].unsaved
      /\ procs'[p].t1 = procs[p].t1 /\ procs'[p].next = procs[p].next
      /\ procs'[p].linked = procs[p].linked /\ procs'[p].last = last
  BY <1>3 DEF Others, SamePlace, LocalTypeOK, Process
<1>5. Behind(new, t1, highest, Len(t1))
  <2>1. procs[p].t1 = t1 /\ t1 \in Seq(LogOps) /\ highest \in Nat
    BY <1>2 DEF Worker, LocalTypeOK
  <2> QED BY <2>1, AfterKeeps
<1> HIDE DEF new
<1>6. Working' = Working /\ Opening' = Opening
  <2>1. \A q \in Pids : SamePlace(q)
    BY <1>4 DEF Others, SamePlace
  <2> QED BY <2>1, SamePlaces
\* What the server takes, it takes of the log.
<1>7. \A i \in DOMAIN t1 : t1[i].seq > highest => t1[i].id \in accepted'
  <2>1. DOMAIN t1 = 1 .. Len(t1)
    BY LogIs
  <2>2. ASSUME NEW i \in DOMAIN t1, t1[i].seq > highest
        PROVE  \E k \in DOMAIN new : new[k] = t1[i]
    BY <1>5, <2>1, <2>2 DEF Behind
  <2> QED BY <1>1, <2>2
<1>8. \A i \in DOMAIN t1 : t1[i].id \in accepted'
  <2>1. \A i \in DOMAIN t1 : t1[i].id <= highest => t1[i].id \in accepted
    BY DEF KeptCore, TakenUpTo, SeqsInTurn
  <2>2. \A i \in DOMAIN t1 : t1[i].id > highest \/ t1[i].id <= highest
    BY LogIs
  <2> QED BY <1>1, <1>7, <2>1, <2>2, LogIs
<1>9. OneWorks'
  <2>1. \A q \in Pids :
       /\ procs'[q].unsaved => procs'[q].at \in {"once", "queue"} \/ Is(q, "daemon", "live")'
       /\ procs'[q].last # 0 => procs'[q].at = "once" \/ Is(q, "daemon", "live")'
    BY <1>1, <1>4 DEF KeptCore, OneWorks, Is, InSession, Others, SamePlace
  <2> QED BY <1>1, <1>2, <1>4, <1>6, <2>1 DEF OneWorks, Worker
<1>10. SeqsInTurn'
  <2>1. \A q \in Pids : procs'[q].t1 = procs[q].t1 /\ procs'[q].unsaved = procs[q].unsaved
    BY <1>4 DEF Others
  <2> QED BY <1>1, <2>1 DEF KeptCore, SeqsInTurn
<1>11. TakenUpTo'
  <2>1. highest' <= Len(given)
    <3>1. CASE new = << >>
      BY <1>1, <3>1 DEF KeptCore, TakenUpTo
    <3>2. CASE new # << >>
      <4>1. Len(new) \in DOMAIN new /\ highest' = new[Len(new)].seq
        BY <1>1, <1>5, <3>2, LastOp DEF Behind
      <4>2. PICK i \in 1 .. Len(t1) : new[Len(new)] = t1[i]
        BY <1>5, <4>1 DEF Behind
      <4> QED BY <4>1, <4>2, LogIs
    <3> QED BY <3>1, <3>2
  <2>2. ASSUME NEW id \in DOMAIN given PROVE id \in accepted'
    BY <1>1, <1>8 DEF KeptCore, OpsKept
  <2>3. ASSUME last # 0
        PROVE  \E i \in DOMAIN t1 : t1[i].seq = last
    BY <1>2, <1>3, <2>3, LastOp DEF LocalTypeOK
  <2>4. \A q \in Pids : q # p => procs'[q].last = 0
    BY <1>2, <1>4 DEF Worker, Others
  <2>5. procs'[p].t1 = t1
    BY <1>2, <1>4 DEF Worker
  <2> QED BY <1>1, <1>4, <1>8, <2>1, <2>2, <2>3, <2>4, <2>5 DEF TakenUpTo
<1>12. StaleIsSeen'
  <2>1. \A q \in Opening : procs'[q] = procs[q]
    BY <1>2, <1>4 DEF Others, Worker, Opening, Daemons
  <2> QED BY <1>1, <1>6, <2>1 DEF KeptCore, StaleIsSeen, LogHas
<1>13. OpsKept'
  BY <1>1 DEF KeptCore, OpsKept
<1> QED BY <1>9, <1>10, <1>11, <1>12, <1>13 DEF KeptCore

LEMMA TrimKept ==
  ASSUME LocalTypeOK, KeptCore, NEW p \in Pids, Trim(p)
  PROVE  KeptCore'
<1> DEFINE keep == Trimmed(procs[p].t1, procs[p].last)
           last == procs[p].last
           n == Len(given)
<1>1. /\ last # 0 /\ t1' = keep /\ savedSeq' = procs[p].next
      /\ procs' = [q \in Pids |->
           IF q = p THEN [procs[p] EXCEPT !.t1 = keep, !.last = 0, !.linked = TRUE,
                                          !.unsaved = FALSE]
                    ELSE [procs[q] EXCEPT !.linked = FALSE]]
      /\ highest' = highest /\ given' = given /\ accepted' = accepted
  BY DEF Trim, remote
<1>2. Worker(p) /\ last \in Nat /\ n \in Nat
  <2>1. Worker(p)
    BY <1>1, WhoWorks
  <2>2. procs[p] \in Process
    BY DEF LocalTypeOK
  <2> QED BY <2>1, <2>2, LogIs DEF Process
<1>3. Behind(keep, t1, last, Len(t1)) /\ keep \in Seq(LogOps)
  <2>1. procs[p].t1 = t1 /\ t1 \in Seq(LogOps)
    BY <1>2 DEF Worker, LocalTypeOK
  <2>2. Behind(keep, t1, last, Len(t1))
    BY <1>2, <2>1, AfterKeeps DEF Trimmed
  <2> QED BY <2>2 DEF Behind
<1> HIDE DEF keep, last, n
<1>4. /\ SamePlace(p) /\ procs'[p].t1 = keep /\ procs'[p].last = 0 /\ procs'[p].linked
      /\ ~procs'[p].unsaved /\ procs'[p].next = n + 1
  <2>1. procs[p] \in Process /\ procs[p].next = n + 1
    BY <1>2 DEF LocalTypeOK, Worker, n
  <2>2. PICK r : r = procs[p]
    OBVIOUS
  <2>3. procs'[p] = [r EXCEPT !.t1 = keep, !.last = 0, !.linked = TRUE, !.unsaved = FALSE]
    BY <1>1, <2>2
  <2>4. /\ procs'[p].kind = r.kind /\ procs'[p].at = r.at /\ procs'[p].t1 = keep
        /\ procs'[p].next = r.next /\ procs'[p].unsaved = FALSE
        /\ procs'[p].linked = TRUE /\ procs'[p].last = 0
    BY <1>3, <2>1, <2>2, <2>3 DEF Process
  <2> QED BY <2>1, <2>2, <2>4 DEF SamePlace
<1>5. ASSUME NEW q \in Pids, q # p
      PROVE  /\ SamePlace(q) /\ procs'[q].t1 = procs[q].t1 /\ procs'[q].next = procs[q].next
             /\ ~procs'[q].linked /\ ~procs'[q].unsaved /\ procs'[q].last = 0
  <2>1. ~procs[q].unsaved /\ procs[q].last = 0 /\ procs[q] \in Process
    BY <1>2, <1>5 DEF Worker, LocalTypeOK
  <2>2. procs'[q] = [procs[q] EXCEPT !.linked = FALSE]
    BY <1>1, <1>5
  <2> QED BY <2>1, <2>2 DEF Process, SamePlace
<1>6. Working' = Working /\ Opening' = Opening
  <2>1. \A q \in Pids : SamePlace(q)
    BY <1>4, <1>5
  <2> QED BY <2>1, SamePlaces
<1>7. savedSeq' = n + 1
  BY <1>1, <1>2 DEF Worker, n
\* Every op that stays is in the old log and behind the ack.
<1>8. \A k \in DOMAIN keep : \E i \in DOMAIN t1 : keep[k] = t1[i] /\ t1[i].seq > last
  BY <1>3, LogIs DEF Behind
<1>9. OneWorks'
  <2>1. \A q \in Pids : ~procs'[q].unsaved /\ procs'[q].last = 0
    BY <1>4, <1>5
  <2>2. \A q \in Working' : q = p
    BY <1>2, <1>6 DEF Worker
  <2> QED BY <1>1, <1>4, <1>7, <2>1, <2>2 DEF OneWorks, n
<1>10. SeqsInTurn'
  <2>1. \A k \in DOMAIN keep : keep[k].seq = keep[k].id /\ keep[k].id \in DOMAIN given
    BY <1>8 DEF KeptCore, SeqsInTurn
  <2>2. \A q \in Pids : q # p =>
          \A i \in DOMAIN procs'[q].t1 : procs'[q].t1[i].id \in DOMAIN given
    BY <1>5 DEF KeptCore, SeqsInTurn
  <2> QED BY <1>1, <1>4, <1>7, <2>1, <2>2 DEF KeptCore, SeqsInTurn, n
<1>11. TakenUpTo'
  <2>1. \A q \in Pids : procs'[q].last = 0
    BY <1>4, <1>5
  <2> QED BY <1>1, <2>1 DEF KeptCore, TakenUpTo
<1>12. StaleIsSeen'
  <2> SUFFICES ASSUME NEW q \in Opening
      PROVE /\ procs'[q].next <= savedSeq' /\ ~procs'[q].linked
            /\ \/ procs'[q].next < savedSeq'
               \/ \E i \in DOMAIN procs'[q].t1 :
                    \A k \in DOMAIN t1' : t1'[k].id # procs'[q].t1[i].id
    BY <1>6 DEF StaleIsSeen, LogHas
  <2>1. q \in Pids /\ q # p
    BY <1>2 DEF Worker, Opening, Daemons
  <2>2. procs[q].next \in Nat /\ savedSeq \in Nat /\ savedSeq <= n + 1 /\ procs[q].next <= savedSeq
    <3>1. savedSeq \in {n, n + 1} /\ procs[q].next <= savedSeq
      BY DEF KeptCore, SeqsInTurn, StaleIsSeen, n
    <3> QED BY <1>2, <2>1, <3>1 DEF LocalTypeOK, Process
  <2>3. /\ procs'[q].next = procs[q].next /\ procs'[q].t1 = procs[q].t1 /\ ~procs'[q].linked
    BY <1>5, <2>1
  <2>4. procs[q].next <= n + 1
    BY <1>2, <2>2
  <2>5. CASE procs[q].linked
    <3>1. PICK j \in DOMAIN t1 : t1[j].seq = last
      BY <1>1, <1>2 DEF KeptCore, TakenUpTo, Worker, last
    <3>2. t1[j].seq \in Nat /\ t1[j].seq <= n /\ t1[j].id = last
      BY <3>1, LogIs DEF n
    <3>3. CASE t1[j].seq >= procs[q].next
      BY <1>2, <1>7, <2>2, <2>3, <3>2, <3>3
    <3>4. CASE \E i \in DOMAIN procs[q].t1 : procs[q].t1[i] = t1[j]
      <4>1. \A k \in DOMAIN keep : keep[k].id # last
        BY <1>2, <1>8, LogIs
      <4>2. PICK i \in DOMAIN procs[q].t1 : procs[q].t1[i] = t1[j]
        BY <3>4
      <4>3. \A k \in DOMAIN keep : keep[k].id # procs[q].t1[i].id
        BY <3>2, <4>1, <4>2
      <4> QED BY <1>1, <1>7, <2>3, <2>4, <4>2, <4>3
    <3> QED BY <2>5, <3>3, <3>4 DEF KeptCore, StaleIsSeen
  <2>6. CASE ~procs[q].linked
    <3>1. CASE procs[q].next < savedSeq
      BY <1>2, <1>7, <2>2, <2>3, <3>1
    <3>2. CASE \E i \in DOMAIN procs[q].t1 : ~LogHas(procs[q].t1[i])
      <4>1. PICK i \in DOMAIN procs[q].t1 : \A j \in DOMAIN t1 : t1[j].id # procs[q].t1[i].id
        BY <3>2 DEF LogHas
      <4>2. \A k \in DOMAIN keep : keep[k].id # procs[q].t1[i].id
        BY <1>8, <4>1
      <4> QED BY <1>1, <1>7, <2>3, <2>4, <4>2
    <3> QED BY <2>6, <3>1, <3>2 DEF KeptCore, StaleIsSeen
  <2> QED BY <2>5, <2>6
<1>13. OpsKept'
  <2> SUFFICES ASSUME NEW id \in DOMAIN given, id \notin accepted
      PROVE \E k \in DOMAIN keep : keep[k].id = id
    BY <1>1 DEF OpsKept
  <2>1. PICK i \in DOMAIN t1 : t1[i].id = id
    BY DEF KeptCore, OpsKept
  <2>2. ~(t1[i].seq <= last)
    BY <1>1, <1>2, <2>1 DEF KeptCore, TakenUpTo, Worker, last
  <2>3. t1[i].seq > last
    BY <1>2, <2>2, LogIs
  <2>4. i \in 1 .. Len(t1)
    BY LogIs
  <2>5. PICK k \in DOMAIN keep : keep[k] = t1[i]
    BY <1>3, <2>3, <2>4 DEF Behind
  <2> QED BY <2>1, <2>5
<1> QED BY <1>9, <1>10, <1>11, <1>12, <1>13 DEF KeptCore

LEMMA TierStepKept ==
  ASSUME NoRace, LocalTypeOK, KeptCore, NEW p \in Pids, TierStep(p)
  PROVE  KeptCore'
<1>1. CASE SaveBase(p)
  <2>1. procs[p].at = "pull" /\ End(p) /\ savedSeq' = procs[p].next /\ t1' = t1 /\ UNCHANGED remote
    BY <1>1 DEF SaveBase
  <2>2. Worker(p)
    BY <2>1, WhoWorks
  <2>3. ~procs[p].unsaved
    BY <2>1 DEF KeptCore, OneWorks, Is, LocalTypeOK
  <2>4. UNCHANGED <<logs, remote>>
    BY <2>1, <2>2, <2>3 DEF Worker, logs
  <2> QED BY <2>1, <2>3, <2>4, EndIdles, KeptStays
<1>2. CASE DropBase(p)
  <2>1. /\ InSession(p) /\ ~procs[p].unsaved /\ given = << >> /\ savedSeq' = 1
        /\ procs' = [procs EXCEPT ![p] = [procs[p] EXCEPT !.next = 1]]
        /\ t1' = t1 /\ UNCHANGED remote
    BY <1>2 DEF DropBase, InSession, BaseLost, NoRace
  <2>2. Worker(p)
    BY <2>1, WhoWorks
  <2>3. procs[p].next = 1 /\ savedSeq = 1
    BY <2>1, <2>2 DEF Worker
  <2>4. Others(p) /\ SameCopies(p) /\ SamePlace(p)
    BY <2>1, <2>3 DEF Others, SameCopies, SamePlace, LocalTypeOK, Process
  <2>5. \A q \in Pids : SamePlace(q)
    BY <2>4 DEF Others, SamePlace
  <2>6. Keeps(p)
    BY <2>4, <2>5, SamePlaces DEF Keeps
  <2>7. UNCHANGED <<logs, remote>>
    BY <2>1, <2>3 DEF logs
  <2> QED BY <2>4, <2>6, <2>7, OthersKeep, KeptStays
<1>3. CASE Exit(p)
  BY <1>3, EndIdles, KeptStays DEF Exit
<1> QED BY <1>1, <1>2, <1>3, AppendKept, SaveSeqKept, PushKept, TrimKept DEF TierStep

LEMMA KeptStep ==
  ASSUME BoundsAssumption, NoRace, KeptInv, [LocalNext]_localVars
  PROVE  KeptInv'
<1>1. FoundInv /\ LocalTypeOK /\ FoundCore /\ KeptCore
  BY DEF KeptInv, FoundInv, FoundCore, KeptCore
<1>2. FoundInv'
  BY <1>1, FoundStep
<1>3. KeptCore'
  <2>1. CASE UNCHANGED localVars
    <3>1. \A q \in Pids : SameCopies(q) /\ SamePlace(q)
      BY <2>1 DEF SameCopies, SamePlace, localVars
    <3>2. \A q \in Pids : Keeps(q)
      BY <3>1, SamePlaces DEF Keeps
    <3> QED BY <1>1, <2>1, <3>2, KeptStays DEF localVars
  <2>2. ASSUME NEW p \in Pids, TierStep(p) PROVE KeptCore'
    BY <1>1, <2>2, TierStepKept
  <2>3. ASSUME NEW p \in Pids, DaemonStep(p) PROVE KeptCore'
    BY <1>1, <2>3, DaemonStepKept
  <2> QED BY <1>1, <2>1, <2>2, <2>3, OtherStepKept DEF LocalNext
<1> QED BY <1>2, <1>3 DEF KeptInv, KeptCore

LEMMA KeptStarts == ASSUME LocalInit PROVE KeptInv
<1>1. FoundInv
  BY FoundStarts
<1>2. \A q \in Pids : procs[q] = NoProcess
  BY DEF LocalInit
<1>3. \A q \in Pids : ~procs[q].unsaved /\ procs[q].last = 0 /\ procs[q].t1 = << >>
  BY <1>2 DEF NoProcess
<1>4. Working = {} /\ Opening = {}
  BY <1>2 DEF Working, Opening, Commands, Daemons, NoProcess
<1>5. /\ t1 = << >> /\ savedSeq = 1 /\ highest = 0 /\ given = << >>
      /\ Len(given) = 0 /\ DOMAIN given = {} /\ DOMAIN t1 = {}
  BY DEF LocalInit
<1> QED BY <1>1, <1>3, <1>4, <1>5
  DEF KeptInv, OneWorks, SeqsInTurn, TakenUpTo, StaleIsSeen, OpsKept

\* No process loses an op that another one or itself has staged before the
\* server has it (EnqueueOps, RewriteRetaining, WriteBase, PidLock), for any
\* number of processes, ops and crashes.
THEOREM StagedOpsKept ==
  ASSUME NoRace PROVE LocalSpec => []OpsKept
<1>1. LocalInit => KeptInv
  BY KeptStarts
<1>2. KeptInv /\ [LocalNext]_localVars => KeptInv'
  BY KeptStep, BoundsAssumption
<1>3. KeptInv => OpsKept
  BY DEF KeptInv
<1> QED BY <1>1, <1>2, <1>3, PTL DEF LocalSpec
=============================================================================
