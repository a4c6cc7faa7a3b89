------------------------------ MODULE HubVault ------------------------------
(***************************************************************************)
(* One hydrated vault of the sync server: internal/server/hub over the     *)
(* stages, WAL and idempotency cache of internal/server/stage and the git  *)
(* store of internal/server/storage.                                       *)
(*                                                                         *)
(* A push is validated, staged in memory, logged in the WAL and acked; a   *)
(* trigger later commits the stage to git, truncates the client's WAL      *)
(* entries, persists the idempotency cache and broadcasts.  Every handler  *)
(* runs under fileMu, so `proc` says who holds it and how far it is; only  *)
(* Hello, disconnects and a crash interleave with a handler.  The WAL is   *)
(* kept per client, since no step depends on the order of the entries of   *)
(* different clients.                                                      *)
(***************************************************************************)
EXTENDS VaultOps

CONSTANTS
  Clients,       \* client ids
  Publisher,     \* the synthetic client id of Hub.Publish
  Batches,       \* what clients push: sequences of intents
  Syncable,      \* paths the [sync] allowlist admits
  Desired,       \* trees a publish asks for
  TierThree,     \* whether restores and reverts happen
  Pruning,       \* whether idle clients are pruned from the idem cache
  FaultKinds,    \* the I/O failures that may happen
  MaxFiles,      \* vault_limits.max_files (0: no limit)
  StuckDepth,    \* entries of a stuck-file ring
  MaxSeq, MaxCommits, MaxCrashes, MaxFaults  \* bounds on the environment

ASSUME ClientsAssumption == Publisher \notin Clients
ASSUME BatchesAssumption ==
  \A b \in Batches : b \in Seq(Intents) /\ b # << >> /\ \A i \in DOMAIN b : WellFormed(b[i])
ASSUME TreesAssumption == Desired \subseteq Trees
ASSUME BoundsAssumption ==
  /\ StuckDepth \in Nat \ {0}
  /\ {MaxFiles, MaxSeq, MaxCommits, MaxCrashes, MaxFaults} \subseteq Nat
  /\ {TierThree, Pruning} \subseteq BOOLEAN

\* append: wal.Append fails.  tear: so does it, or a crash, with part of the
\* frame in the file.  apply: an I/O error in CommitOps.  truncate, dirsync,
\* reopen: TruncateClient fails before the rename, at the directory's fsync
\* after it, or when it reopens the file.  persist: no idem snapshot.
Kinds == {"append", "tear", "apply", "truncate", "dirsync", "reopen", "persist"}
ASSUME FaultsAssumption == FaultKinds \subseteq Kinds

Committers == Clients \cup {Publisher}
Phases == {"idle", "append", "apply", "truncate", "persist"}

VARIABLES
  \* durable
  commits,     \* HEAD's history: the tree of every commit, oldest first
  wtree,       \* worktree and index
  wal,         \* wal[c]: the entries of c that Replay finds in the WAL file
  torn,        \* whether a partial frame follows them
  idemDisk,    \* idempotency snapshot: highest seq per client
  \* volatile
  up,          \* "down", "hydrating" or "serving"
  stages,      \* stages[c]: ops received and not yet committed
  idem,        \* idempotency cache
  walHandle,   \* the WAL's file handle: "linked" to the file, on its unlinked
               \* predecessor ("orphan") or "closed"
  log,         \* log[c]: the entries of c readable through the handle
  headCached,  \* headHashCached, as an index into commits
  sizes,       \* the files sizeTracker believes the vault holds
  recent,      \* recent[c][p]: stuck-file ring
  conn,        \* connected clients
  told,        \* told[c]: committed op ids c has learnt of since its Hello
  proc,        \* holder of fileMu
  \* clients and history
  sent,        \* sent[c]: the batch c waits for an ack of
  nextSeq,     \* nextSeq[c]: the client's next seq
  acked,       \* ids the server acked OK
  committed,   \* ids of ops in git history
  shadow,      \* the tree of all accepted ops, in acceptance order
  crashes, faults

store    == <<commits, wtree>>
walVars  == <<wal, torn, walHandle, log>>
cache    == <<idem, headCached, sizes, recent>>
sessions == <<conn, told>>
clients  == <<sent, nextSeq, acked>>
history  == <<committed, shadow>>
bounds   == <<crashes, faults>>
vars == <<store, walVars, idemDisk, up, stages, cache, sessions, proc, clients,
          history, bounds>>

At(ph, c, i) == [at |-> ph, who |-> c, i |-> i]
Idle    == At("idle", Publisher, 0)
Free    == proc = Idle
Serving == up = "serving"

HeadTree == commits[Len(commits)]
\* Faulty: the ops of a publish pass for some client's.
IdsOfAnyone(c, ops) == {<<c, n>> : n \in Seqs(ops)}

\* The ids of client ops: (client, seq).  A publish has none.
Ids(c, ops) == IF c = Publisher THEN {} ELSE {<<c, n>> : n \in Seqs(ops)}
NoRings == [c \in Clients |-> [p \in Paths |-> << >>]]

Fault(k) == k \in FaultKinds /\ faults < MaxFaults /\ faults' = faults + 1

Init ==
  /\ commits = << [p \in Paths |-> Absent] >>
  /\ wtree = [p \in Paths |-> Absent]
  /\ wal = [c \in Clients |-> << >>] /\ torn = FALSE
  /\ walHandle = "linked" /\ log = wal
  /\ idemDisk = [c \in Clients |-> 0]
  /\ up = "serving"
  /\ stages = [c \in Committers |-> << >>]
  /\ idem = [c \in Clients |-> 0]
  /\ headCached = 1
  /\ sizes = {}
  /\ recent = NoRings
  /\ conn = {}
  /\ told = [c \in Clients |-> {}]
  /\ proc = Idle
  /\ sent = [c \in Clients |-> << >>]
  /\ nextSeq = [c \in Clients |-> 1]
  /\ acked = {} /\ committed = {}
  /\ shadow = [p \in Paths |-> Absent]
  /\ crashes = 0 /\ faults = 0
-----------------------------------------------------------------------------
(***************************************************************************)
(* Clients.  A client has one batch on the wire.  It keeps the batch, to   *)
(* push it again, when the reply does not reach it.                        *)
(***************************************************************************)
NewBatch(c) ==
  /\ sent[c] = << >>
  /\ \E b \in Batches :
       /\ nextSeq[c] + Len(b) - 1 <= MaxSeq
       /\ sent' = [sent EXCEPT ![c] = [i \in DOMAIN b |-> Op(nextSeq[c] + i - 1, b[i])]]
       /\ nextSeq' = [nextSeq EXCEPT ![c] = @ + Len(b)]
  /\ UNCHANGED <<store, walVars, idemDisk, up, stages, cache, sessions, proc,
                 acked, history, bounds>>

Reply(c) == sent' \in {sent, [sent EXCEPT ![c] = << >>]}

\* ResolveHello reads HEAD without fileMu, whatever handler is under way.
Hello(c) ==
  /\ Serving
  /\ conn' = conn \cup {c}
  /\ told' = [told EXCEPT ![c] = committed]
  /\ UNCHANGED <<store, walVars, idemDisk, up, stages, cache, proc, clients,
                 history, bounds>>

Disconnect(c) ==
  /\ c \in conn
  /\ conn' = conn \ {c}
  /\ told' = [told EXCEPT ![c] = {}]
  /\ UNCHANGED <<store, walVars, idemDisk, up, stages, cache, proc, clients,
                 history, bounds>>
-----------------------------------------------------------------------------
(***************************************************************************)
(* handlePushBatch                                                         *)
(***************************************************************************)
FreshOps(c) == Unseen(sent[c], idem[c])

\* The [sync] gate: the written path, or the target of a rename.
Filtered(c) == \E x \in FreshOps(c) : x.type # "delete" /\ x.to \notin Syncable

VaultFull(ops) == MaxFiles > 0 /\ Cardinality(Track(ops, sizes)) > MaxFiles

\* Faulty: only the primary path is compared.
OverlapsAtPrimary(c) ==
  \E d \in Clients \ {c} : \E x \in FreshOps(c) : x.path \in TouchedBy(stages[d])

\* findOverlappingStage: another client's stage touches a path of the batch.
Overlaps(c) ==
  \E d \in Clients \ {c} : \E x \in FreshOps(c) :
    Touched(x) \cap TouchedBy(stages[d]) # {}

\* Faulty: the client's own stage is not overlaid.
StaleBaseOfHead(c) ==
  \E x \in FreshOps(c) : ~PreHashMatches(x, HeadTree)

\* Every op is checked against HEAD overlaid by the stage as it was before
\* the batch, and only at its primary path.
StaleBase(c) ==
  \E x \in FreshOps(c) : ~PreHashMatches(x, Overlay(stages[c], HeadTree))

\* A full ring drops its oldest entry, which therefore no longer counts.
Ring(r) == IF Len(r) = StuckDepth THEN Tail(r) ELSE r

Stuck(c) ==
  \E x \in FreshOps(c) : x.data \in Range(Ring(recent[c][x.path]))

Refusable(c) ==
  \/ Filtered(c)
  \/ VaultFull(SelectSeq(sent[c], LAMBDA x : x.seq > idem[c]))
  \/ Overlaps(c)
  \/ StaleBase(c)
  \/ Stuck(c)

PushPending(c) == Serving /\ Free /\ c \in conn /\ sent[c] # << >>

\* Every op of the batch was accepted before: ack it again.
PushDuplicate(c) ==
  /\ PushPending(c)
  /\ FreshOps(c) = {}
  /\ acked' = acked \cup Ids(c, sent[c])
  /\ Reply(c)
  /\ UNCHANGED <<store, walVars, idemDisk, up, stages, cache, sessions, proc,
                 nextSeq, history, bounds>>

\* stale_base, filtered, vault-full and stuck-file replies change nothing.
PushRefused(c) ==
  /\ PushPending(c)
  /\ Refusable(c)
  /\ sent' = [sent EXCEPT ![c] = << >>]
  /\ UNCHANGED <<store, walVars, idemDisk, up, stages, cache, sessions, proc,
                 nextSeq, acked, history, bounds>>

PushAccept(c) ==
  /\ PushPending(c)
  /\ ~Refusable(c)
  /\ \E k \in DOMAIN sent[c] :
       /\ IsFirstNew(k, sent[c], idem[c])
       /\ proc' = At("append", c, k)
  /\ UNCHANGED <<store, walVars, idemDisk, up, stages, cache, sessions, clients,
                 history, bounds>>

Appending(c) == proc.at = "append" /\ proc.who = c /\ proc.i <= Len(sent[c])

\* wal.Append: the frame ends up behind whatever the handle's file holds, and
\* Replay stops at a partial frame.
WalAppend(c, x) ==
  /\ log' = IF torn THEN log ELSE [log EXCEPT ![c] = Append(@, x)]
  /\ wal' = IF walHandle = "linked" THEN log' ELSE wal

\* One op of the batch goes to the stage, to the WAL and to the idem cache.
AppendOp(c) ==
  LET x == sent[c][proc.i] IN
  /\ Appending(c)
  /\ walHandle # "closed"
  /\ stages' = [stages EXCEPT ![c] = Append(@, x)]
  /\ WalAppend(c, x)
  /\ idem' = [idem EXCEPT ![c] = IF x.seq > @ THEN x.seq ELSE @]
  /\ recent' = [recent EXCEPT ![c][x.path] = Append(Ring(@), x.data)]
  /\ shadow' = Effect(x, shadow)
  /\ proc' = At("append", c, proc.i + 1)
  /\ UNCHANGED <<store, torn, walHandle, idemDisk, up, headCached, sizes,
                 sessions, clients, committed, bounds>>

\* wal.Append fails, with nothing, all or part of the frame in the file: the
\* op stays in the stage, the rest of the batch is dropped, the client told.
AppendFails(c) ==
  LET x == sent[c][proc.i] IN
  /\ Appending(c)
  /\ \/ walHandle = "closed" /\ UNCHANGED <<wal, log, torn, faults>>
     \/ /\ walHandle # "closed"
        /\ \/ Fault("append") /\ UNCHANGED <<wal, log, torn>>
           \/ Fault("append") /\ WalAppend(c, x) /\ UNCHANGED torn
           \/ Fault("tear") /\ torn' = TRUE /\ UNCHANGED <<wal, log>>
  /\ stages' = [stages EXCEPT ![c] = Append(@, x)]
  /\ proc' = Idle
  /\ Reply(c)
  /\ UNCHANGED <<store, walHandle, idemDisk, up, cache, sessions, nextSeq, acked,
                 history, crashes>>

PushAck(c) ==
  /\ proc.at = "append" /\ proc.who = c /\ proc.i > Len(sent[c])
  /\ acked' = acked \cup Ids(c, sent[c])
  /\ Reply(c)
  /\ proc' = Idle
  /\ UNCHANGED <<store, walVars, idemDisk, up, stages, cache, sessions, nextSeq,
                 history, bounds>>
-----------------------------------------------------------------------------
(***************************************************************************)
(* commitStage.  It starts from a trigger of the commit runner, a Flush, a *)
(* tier-3 read, the replay of hydrate, or a publish.                       *)
(***************************************************************************)
BeginCommit(c) ==
  /\ Free /\ up # "down"
  /\ stages[c] # << >>
  /\ proc' = At("apply", c, 1)
  /\ UNCHANGED <<store, walVars, idemDisk, up, stages, cache, sessions, clients,
                 history, bounds>>

\* Faulty: a file is left out when its content is held anywhere in the tree.
PublishingByHash(t) ==
  SetToSeq({Op(1, Write(p, Absent, t[p])) :
              p \in {q \in Paths : t[q] # Absent /\ t[q] \notin Range(wtree)}})
  \o SetToSeq({Op(1, Delete(p, wtree[p])) :
              p \in {q \in Paths : t[q] = Absent /\ wtree[q] # Absent}})

\* Hub.Publish: the ops that turn the worktree into the desired tree, writes
\* first.  Their seqs only number them; nothing looks at the synthetic client's.
Publishing(t) ==
  SetToSeq({Op(1, Write(p, Absent, t[p])) :
              p \in {q \in Paths : t[q] # Absent /\ t[q] # wtree[q]}})
  \o SetToSeq({Op(1, Delete(p, wtree[p])) :
              p \in {q \in Paths : t[q] = Absent /\ wtree[q] # Absent}})

Publish(t) ==
  /\ Free /\ Serving
  /\ Publishing(t) # << >>
  /\ Files(t) \subseteq Syncable
  /\ ~VaultFull(Publishing(t))
  /\ Len(commits) < MaxCommits
  /\ stages' = [stages EXCEPT ![Publisher] = Publishing(t)]
  /\ proc' = At("apply", Publisher, 1)
  /\ UNCHANGED <<store, walVars, idemDisk, up, cache, sessions, clients, history,
                 bounds>>

\* The in-memory state of a vault that is not hydrated; the next hydrate opens
\* whatever WAL file is at the path.
Drop ==
  /\ up' = "down"
  /\ stages' = [c \in Committers |-> << >>]
  /\ walHandle' = "linked"
  /\ log' = wal'
  /\ idem' = [c \in Clients |-> 0]
  /\ headCached' = 0
  /\ sizes' = {}
  /\ recent' = NoRings
  /\ conn' = {}
  /\ told' = [c \in Clients |-> {}]
  /\ proc' = Idle

\* Faulty: the stage is reset although its commit failed.
AbandonStage(handle) ==
  IF up = "hydrating"
  THEN Drop
  ELSE /\ proc' = Idle
       /\ stages' = [stages EXCEPT ![proc.who] = << >>]
       /\ walHandle' = handle
       /\ UNCHANGED <<log, up, cache, sessions>>

\* commitStage returns an error: the stage stays for the next trigger, a
\* publish fails, and a hydration fails as a whole.
Abandon(handle) ==
  IF up = "hydrating"
  THEN Drop
  ELSE /\ proc' = Idle
       /\ stages' = [stages EXCEPT ![Publisher] = << >>]
       /\ walHandle' = handle
       /\ UNCHANGED <<log, up, cache, sessions>>

Applying == proc.at = "apply" /\ proc.i <= Len(stages[proc.who])

\* CommitOps, op by op: worktree and index.
ApplyOp ==
  LET x == stages[proc.who][proc.i] IN
  /\ Applying
  /\ Applicable(x, wtree)
  /\ wtree' = Effect(x, wtree)
  /\ proc' = At("apply", proc.who, proc.i + 1)
  /\ UNCHANGED <<commits, walVars, idemDisk, up, stages, cache, sessions, clients,
                 history, bounds>>

\* CommitOps fails: a file to delete or move is not there, or an I/O error.
ApplyFails ==
  /\ proc.at = "apply"
  /\ \/ /\ Applying
        /\ ~Applicable(stages[proc.who][proc.i], wtree)
        /\ UNCHANGED faults
     \/ Fault("apply")
  /\ UNCHANGED <<store, wal, torn, idemDisk, clients, history, crashes>>
  /\ Abandon(walHandle)

\* The git commit, skipped when the tree is HEAD's already.
GitCommit ==
  /\ proc.at = "apply" /\ ~Applying
  /\ commits' = IF wtree = HeadTree THEN commits ELSE Append(commits, wtree)
  /\ committed' = committed \cup Ids(proc.who, stages[proc.who])
  /\ proc' = At("truncate", proc.who, 0)
  /\ UNCHANGED <<wtree, walVars, idemDisk, up, stages, cache, sessions, clients,
                 shadow, bounds>>

\* Faulty: everyone's entries go.
KeptNothing(c) == [d \in Clients |-> << >>]

\* What TruncateClient keeps of the log it reads through its handle.
Kept(c) == IF c \in Clients THEN [log EXCEPT ![c] = << >>] ELSE log

TruncateClient ==
  /\ proc.at = "truncate"
  /\ walHandle # "closed"
  /\ wal' = Kept(proc.who) /\ log' = wal'
  /\ torn' = FALSE
  /\ walHandle' = "linked"
  /\ proc' = At("persist", proc.who, 0)
  /\ UNCHANGED <<store, idemDisk, up, stages, cache, sessions, clients, history,
                 bounds>>

\* TruncateClient fails: on a closed handle, before the compacted file replaces
\* the log, before the handle moves to the new file, or when it is reopened.
TruncateFails ==
  /\ proc.at = "truncate"
  /\ UNCHANGED <<store, idemDisk, clients, history, crashes>>
  /\ \/ /\ walHandle = "closed"
        /\ UNCHANGED <<wal, torn, faults>>
        /\ Abandon("closed")
     \/ /\ walHandle # "closed"
        /\ \/ Fault("truncate") /\ UNCHANGED <<wal, torn>> /\ Abandon(walHandle)
           \/ /\ Fault("dirsync")
              /\ wal' = Kept(proc.who)
              /\ torn' = (torn /\ Serving)
              /\ Abandon("orphan")
           \/ /\ Fault("reopen")
              /\ wal' = Kept(proc.who)
              /\ torn' = FALSE
              /\ Abandon("closed")

\* Faulty: clients with a pending stage of their own are passed over.
BroadcastToIdle(who, ops) ==
  [c \in Clients |-> IF c \in conn \ {who} /\ stages[c] = << >>
                     THEN told[c] \cup Ids(who, ops) ELSE told[c]]

\* broadcastOps: everyone connected but the originator.
Broadcast(who, ops) ==
  [c \in Clients |-> IF c \in conn \ {who} THEN told[c] \cup Ids(who, ops) ELSE told[c]]

\* headHashCached moves to the new HEAD.
NewHead == Len(commits')

\* Persist the idem snapshot (a failure is only logged), account for the files,
\* reset the stage, advance the cached head, clear the stuck rings of the
\* touched paths and broadcast to everyone but the originator.
FinishCommit ==
  LET who == proc.who
      ops == stages[who]
  IN
  /\ proc.at = "persist"
  /\ \/ idemDisk' = idem /\ UNCHANGED faults
     \/ Fault("persist") /\ UNCHANGED idemDisk
  /\ sizes' = Track(ops, sizes)
  /\ stages' = [stages EXCEPT ![who] = << >>]
  /\ UNCHANGED commits
  /\ headCached' = NewHead
  /\ recent' = [c \in Clients |-> [p \in Paths |->
                 IF p \in TouchedBy(ops) THEN << >> ELSE recent[c][p]]]
  /\ told' = Broadcast(who, ops)
  /\ proc' = Idle
  /\ UNCHANGED <<wtree, walVars, up, idem, conn, clients, history, crashes>>

\* Revert and Restore of the commit channel: HEAD moves to a new commit and
\* everyone is told, while stages, sizes and idem cache stay as they are.
Restore ==
  /\ TierThree /\ Free /\ Serving
  /\ Len(commits) < MaxCommits
  /\ \E k \in DOMAIN commits :
       /\ commits' = Append(commits, commits[k])
       /\ wtree' = commits[k]
  /\ headCached' = NewHead
  /\ UNCHANGED <<walVars, idemDisk, up, stages, idem, sizes, recent, sessions,
                 proc, clients, history, bounds>>

\* The commit runner's periodic pass over the idem cache: drop clients idle for
\* longer than the retention (or beyond the cap), then persist what is left.
IdemTick(idlers) ==
  /\ Free /\ Serving
  /\ idlers # {} => Pruning
  /\ idem' = [c \in Clients |-> IF c \in idlers THEN 0 ELSE idem[c]]
  /\ idemDisk' = idem'
  /\ UNCHANGED <<store, walVars, up, stages, headCached, sizes, recent, sessions,
                 proc, clients, history, bounds>>
-----------------------------------------------------------------------------
(***************************************************************************)
(* Losing the in-memory state, and hydrate.                                *)
(***************************************************************************)

\* A crash inside wal.Append may leave a partial frame.
Crash ==
  /\ up # "down"
  /\ crashes < MaxCrashes
  /\ crashes' = crashes + 1
  /\ UNCHANGED <<store, wal, idemDisk, clients, history, faults>>
  /\ \/ torn' = (torn /\ walHandle = "linked")
     \/ /\ proc.at = "append" /\ walHandle = "linked"
        /\ "tear" \in FaultKinds
        /\ torn' = TRUE
  /\ Drop

\* tryEvict: only a vault nobody is connected to, here between handlers.
Evict ==
  /\ Serving /\ Free /\ conn = {}
  /\ UNCHANGED <<store, wal, idemDisk, clients, history, bounds>>
  /\ torn' = (torn /\ walHandle = "linked")
  /\ Drop

\* Faulty: the seqs of the WAL are not accepted.
SnapshotIdem == {idemDisk}

\* What the idem cache holds after loading the snapshot and accepting the seqs
\* of the WAL (a set with one element).
ReplayedIdem ==
  {h \in [Clients -> 0..MaxSeq] : \A c \in Clients :
     LET known == {idemDisk[c]} \cup Seqs(wal[c])
     IN  h[c] \in known /\ \A n \in known : n <= h[c]}

\* hydrate up to the replay: commit what a crash left in the worktree and the
\* index, load the idem snapshot, rebuild the stages from the WAL.
Hydrate ==
  /\ up = "down"
  /\ commits' = IF wtree = HeadTree THEN commits ELSE Append(commits, wtree)
  /\ headCached' = NewHead
  /\ sizes' = Files(wtree)
  /\ idem' \in ReplayedIdem
  /\ stages' = [c \in Committers |-> IF c \in Clients THEN wal[c] ELSE << >>]
  /\ up' = "hydrating"
  /\ UNCHANGED <<wtree, walVars, idemDisk, recent, sessions, proc, clients,
                 history, bounds>>

\* flushReplayedStages has committed every replayed stage.
HydrateDone ==
  /\ up = "hydrating" /\ Free
  /\ \A c \in Clients : stages[c] = << >>
  /\ up' = "serving"
  /\ UNCHANGED <<store, walVars, idemDisk, stages, cache, sessions, proc, clients,
                 history, bounds>>
-----------------------------------------------------------------------------
ClientStep(c) == NewBatch(c) \/ Hello(c) \/ Disconnect(c)

PushStep(c) == \/ PushDuplicate(c) \/ PushRefused(c) \/ PushAccept(c)
               \/ AppendOp(c) \/ AppendFails(c) \/ PushAck(c)

CommitStep == ApplyOp \/ ApplyFails \/ GitCommit \/ TruncateClient \/ TruncateFails \/ FinishCommit

Next ==
  \/ \E c \in Clients : ClientStep(c) \/ PushStep(c) \/ BeginCommit(c)
  \/ CommitStep
  \/ \E t \in Desired : Publish(t)
  \/ Restore
  \/ \E idlers \in SUBSET Clients : IdemTick(idlers)
  \/ Crash \/ Evict
  \/ Hydrate \/ HydrateDone

Spec == Init /\ [][Next]_vars
-----------------------------------------------------------------------------
(***************************************************************************)
(* Properties                                                              *)
(***************************************************************************)
OpIds == Clients \X Nat
Logged == UNION {Ids(c, wal[c]) : c \in Clients}
Quiet == Free /\ Serving

\* Every variable keeps its type.
TypeOK ==
  /\ commits \in Seq(Trees) /\ commits # << >>
  /\ wtree \in Trees
  /\ wal \in [Clients -> Seq(Ops)] /\ torn \in BOOLEAN
  /\ walHandle \in {"linked", "orphan", "closed"} /\ log \in [Clients -> Seq(Ops)]
  /\ idemDisk \in [Clients -> Nat] /\ idem \in [Clients -> Nat]
  /\ up \in {"down", "hydrating", "serving"}
  /\ stages \in [Committers -> Seq(Ops)]
  /\ headCached \in Nat
  /\ sizes \subseteq Paths
  /\ recent \in [Clients -> [Paths -> Seq(States)]]
  /\ conn \subseteq Clients /\ told \in [Clients -> SUBSET OpIds]
  /\ proc \in [at : Phases, who : Committers, i : Nat]
  /\ proc.at = "append" => proc.who \in Clients
  /\ proc.at \in {"append", "apply"} => proc.i >= 1
  /\ sent \in [Clients -> Seq(Ops)] /\ nextSeq \in [Clients -> Nat \ {0}]
  /\ acked \subseteq OpIds /\ committed \subseteq OpIds
  /\ shadow \in Trees
  /\ crashes \in Nat /\ faults \in Nat

\* No op the server acked OK is lost: it is in the git history or in the part
\* of the WAL a replay reads, whatever fails and whenever the server crashes.
AckedDurable == acked \subseteq committed \cup Logged

\* The vault keeps what VaultLog promises.
Log == INSTANCE VaultLog WITH OpIds <- Clients \X (1..MaxSeq), logged <- Logged
KeepsPromise == Log!Spec

\* At most one client's stage holds ops for a path (the overlap check of
\* handlePushBatch, kept across commits, failed commits and WAL replays).
OneStagePerPath ==
  \A c, d \in Clients : c # d => TouchedBy(stages[c]) \cap TouchedBy(stages[d]) = {}

\* What the server would serve once every stage is committed is what the
\* accepted ops make in the order of their acceptance, although stages are
\* committed in any order and a crash may interrupt every one of them.
EffectiveContent ==
  Quiet =>
    /\ \A c \in Clients : \A p \in TouchedBy(stages[c]) :
         Overlay(stages[c], HeadTree)[p] = shadow[p]
    /\ \A p \in Paths : (\A c \in Clients : p \notin TouchedBy(stages[c]))
                          => HeadTree[p] = shadow[p]

\* A connected client misses no commit of another: it had it with its Hello,
\* was sent it since, or will be when the commit that failed half-way is retried.
AnnouncedOrPending ==
  Quiet =>
    \A d \in conn : \A id \in committed :
      id[1] # d => id \in told[d] \cup Ids(id[1], stages[id[1]])

\* What is kept beside git follows every commit: the head that acks and publishes
\* report is HEAD, the files counted against the vault's limits are those of HEAD.
CachesMatchHead == Quiet => headCached = Len(commits) /\ sizes = Files(HeadTree)

\* An op is accepted once: handlePushBatch stages no op that is in the WAL or
\* in the history already, across lost acks, evictions and hydrations.
AcceptedOnce ==
  [][\A c \in Clients :
       Appending(c) /\ stages'[c] # stages[c]
         => <<c, sent[c][proc.i].seq>> \notin committed \cup Logged]_vars

\* What a commit overwrites, deletes or moves away is what the author of the op
\* had seen there.
RespectsPreHash ==
  [][wtree' # wtree /\ proc.at = "apply" /\ proc.who \in Clients
       => PreHashMatches(stages[proc.who][proc.i], wtree)]_vars

\* The commit of a publish is one of the desired trees, to the letter.
PublishedExactly ==
  [][proc.who = Publisher /\ proc.at = "apply" /\ commits' # commits
       => commits'[Len(commits')] \in Desired]_vars

-----------------------------------------------------------------------------
(***************************************************************************)
(* Why AckedDurable and OneStagePerPath hold: the inductive invariant.  It *)
(* takes that no fault leaves the handle on an unlinked file or a partial  *)
(* frame in the log.                                                       *)
(***************************************************************************)
Durable(c, n) == <<c, n>> \in committed \/ n \in Seqs(wal[c])

\* The handle writes to the log that a replay will read.
LogIntact == ~torn /\ walHandle # "orphan" /\ (walHandle = "linked" => log = wal)

\* Seqs are drawn in ascending order, and nothing holds one not yet drawn.
SeqsDrawn ==
  \A c \in Clients :
    /\ nextSeq[c] <= MaxSeq + 1
    /\ \A i, j \in DOMAIN sent[c] : i < j => sent[c][i].seq < sent[c][j].seq
    /\ \A n \in Seqs(sent[c]) : 1 <= n /\ n < nextSeq[c]
    /\ idem[c] < nextSeq[c] /\ idemDisk[c] < nextSeq[c]
    /\ \A n \in Seqs(wal[c]) \cup Seqs(stages[c]) : 1 <= n /\ n < nextSeq[c]

\* What the idem cache, its snapshot or a replay would call a duplicate is durable.
SeenDurable ==
  \A c \in Clients : \A n \in Seqs(sent[c]) :
    (n <= idem[c] \/ n <= idemDisk[c] \/ \E m \in Seqs(wal[c]) : n <= m) => Durable(c, n)

\* While the vault is up, what the WAL holds is staged or committed.
LoggedStaged ==
  up # "down" => \A c \in Clients : \A n \in Seqs(wal[c]) :
                   n \in Seqs(stages[c]) \/ <<c, n>> \in committed

\* Once the git commit is made, the whole stage is committed.
StageCommitted ==
  proc.at \in {"truncate", "persist"} => Ids(proc.who, stages[proc.who]) \subseteq committed

\* handlePushBatch has made durable the part of the batch it is through with.
AppendedDurable ==
  proc.at = "append" =>
    /\ sent[proc.who] # << >>
    /\ \A i \in DOMAIN sent[proc.who] : i < proc.i => Durable(proc.who, sent[proc.who][i].seq)

\* Only a vault that is up runs handlers.
HandlersUp == proc.at # "idle" => up # "down"

DurableInv ==
  /\ LogIntact /\ HandlersUp /\ SeqsDrawn /\ SeenDurable /\ LoggedStaged /\ StageCommitted
  /\ AppendedDurable /\ AckedDurable

\* The seqs of a batch ascend, so everything behind a fresh op is fresh.
SentAscending ==
  \A c \in Clients : \A i, j \in DOMAIN sent[c] : i < j => sent[c][i].seq < sent[c][j].seq

\* The rest of the batch touches no other client's stage.
AppendingClear ==
  proc.at = "append" =>
    /\ sent[proc.who] # << >>
    /\ \A d \in Clients \ {proc.who} : \A i \in DOMAIN sent[proc.who] :
         i >= proc.i => Touched(sent[proc.who][i]) \cap TouchedBy(stages[d]) = {}

\* The paths of the entries that a replay or a truncation may read for c.
LoggedPaths(c) == TouchedBy(wal[c]) \cup TouchedBy(log[c])

\* Nor do the logs overlap, so a replay rebuilds stages that do not: what is
\* logged is staged, until the vault goes down.
LogsDisjoint ==
  /\ \A c, d \in Clients : c # d => LoggedPaths(c) \cap LoggedPaths(d) = {}
  /\ up # "down" => \A c \in Clients : LoggedPaths(c) \subseteq TouchedBy(stages[c])
  /\ up = "down" => log = wal
  /\ proc.at = "persist" /\ proc.who \in Clients => LoggedPaths(proc.who) = {}

\* OneStagePerPath needs no assumption about the faults.
PathInv == HandlersUp /\ SentAscending /\ OneStagePerPath /\ AppendingClear /\ LogsDisjoint

\* The inductive invariant of the proofs.
SafetyInv == DurableInv /\ PathInv
-----------------------------------------------------------------------------
(***************************************************************************)
(* Why EffectiveContent, CachesMatchHead and RespectsPreHash hold, when    *)
(* nothing crashes or fails but the snapshot and nobody restores or        *)
(* publishes over pending stages.                                          *)
(***************************************************************************)

\* The ops of a batch keep off one another's paths.
TouchOnce ==
  \A b \in Batches : \A i, j \in DOMAIN b : i # j => Touched(b[i]) \cap Touched(b[j]) = {}

\* What y deletes or moves, the earlier x leaves there.
SourceStays(x, y) ==
  y.type # "write" /\ y.path \in Touched(x) =>
    x.type = "write" \/ (x.type = "rename" /\ x.to = y.path)

SourcesStay ==
  \A b \in Batches : \A i, j \in DOMAIN b : i < j => SourceStays(b[i], b[j])

\* What op x has to find when its turn comes.
Due(x, t) == Applicable(x, t) /\ (TouchOnce => PreHashMatches(x, t))

\* What the log holds is what is staged, until it is truncated.
LogIsStages ==
  /\ log = wal /\ walHandle = "linked" /\ ~torn
  /\ stages[Publisher] = << >> /\ (proc.at # "idle" => proc.who \in Clients)
  /\ proc.at = "persist" => wal[proc.who] = << >>
  /\ up # "down" =>
       \A c \in Clients : stages[c] = wal[c] \/ (proc.at = "persist" /\ proc.who = c)

\* Left[c]: the ops of c that are not in HEAD yet.
Left == [c \in Clients |->
          IF proc.at \in {"truncate", "persist"} /\ proc.who = c THEN << >> ELSE wal[c]]

\* The worktree is HEAD, but for the part of a stage that is applied.
WorktreeInStep ==
  /\ proc.at # "apply" => wtree = HeadTree
  /\ proc.at = "apply" =>
       /\ proc.i <= Len(Left[proc.who]) + 1
       /\ wtree = Through(Left[proc.who], HeadTree)[proc.i - 1]

\* The ops of a batch are well-formed and can be made in their order.
BatchesInOrder ==
  \A c \in Clients :
    /\ \A i \in DOMAIN sent[c] : WellFormed(sent[c][i])
    /\ \A k \in DOMAIN Left[c] : WellFormed(Left[c][k])
    /\ \A i, j \in DOMAIN sent[c] : i < j =>
         /\ SourceStays(sent[c][i], sent[c][j])
         /\ TouchOnce => Touched(sent[c][i]) \cap Touched(sent[c][j]) = {}

\* When its turn comes, an op finds what it has to.
SeenInTurn ==
  \A c \in Clients : \A k \in DOMAIN Left[c] :
    Due(Left[c][k], Through(Left[c], HeadTree)[k - 1])

\* The rest of a batch under way would, too.
SeenBySent ==
  proc.at = "append" => \A i \in DOMAIN sent[proc.who] :
    i >= proc.i => Due(sent[proc.who][i], Overlay(Left[proc.who], HeadTree))

\* HEAD and what is left to commit make the accepted tree, path by path.
LeftMakesContent ==
  /\ \A c \in Clients : \A p \in TouchedBy(Left[c]) : Overlay(Left[c], HeadTree)[p] = shadow[p]
  /\ \A p \in Paths : (\A c \in Clients : p \notin TouchedBy(Left[c])) => HeadTree[p] = shadow[p]

\* The caches are those of HEAD, once the commit under way is accounted for.
CachesInStep ==
  up # "down" =>
    IF proc.at \in {"truncate", "persist"}
    THEN Files(HeadTree) = Track(stages[proc.who], sizes)
    ELSE headCached = Len(commits) /\ sizes = Files(HeadTree)

ContentInv ==
  /\ PathInv /\ LogIsStages /\ WorktreeInStep /\ BatchesInOrder /\ SeenInTurn
  /\ SeenBySent /\ LeftMakesContent /\ CachesInStep
-----------------------------------------------------------------------------
\* Requests keep coming in, handlers and the commit runner take turns, and a
\* stage is committed within MaxDelay.
Fairness ==
  /\ WF_vars(CommitStep)
  /\ \A c \in Clients : WF_vars(AppendOp(c) \/ AppendFails(c) \/ PushAck(c))
  /\ \A c \in Clients : WF_vars(BeginCommit(c))
  /\ WF_vars(Hydrate) /\ WF_vars(HydrateDone)

FairSpec == Spec /\ Fairness

\* An acked op is committed in the end, whatever fails or crashes meanwhile.
AckedCommitted ==
  \A c \in Clients : \A n \in 1..MaxSeq : <<c, n>> \in acked ~> <<c, n>> \in committed

\* A vault that crashed or was evicted serves again.
ServesAgain == up # "serving" ~> up = "serving"
=============================================================================
