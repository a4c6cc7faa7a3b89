----------------------------- MODULE VaultDaemon -----------------------------
(***************************************************************************)
(* The autosync daemon: how a change of the working tree becomes a staged  *)
(* op (internal/cli/daemon over the enqueue, reconcile and bulk guard of   *)
(* pkg/sync).                                                              *)
(*                                                                         *)
(* The kernel queues an event for what a user, a peer's change or the      *)
(* daemon itself does to a file.  The watcher reads the file and emits an  *)
(* op; a rename waits for the creation that belongs to it.  The debouncer  *)
(* keeps the ops until the vault is quiet, then the daemon stages them     *)
(* (T1) and the engine pushes.  All of that dies with the process; what    *)
(* was missed is found by the reconcile of the next session, or by the     *)
(* idle rescan.                                                            *)
(*                                                                         *)
(* SyncSession has the session in detail, conflicts included.  Here a push *)
(* and the receipt of its ack are one step, and no file is edited by the   *)
(* user and a peer at once.                                                *)
(***************************************************************************)
EXTENDS Integers, SequencesExt, FiniteSetsExt

CONSTANTS
  Paths,
  Absent,      \* the state of a path that holds no file
  MinDeletes,  \* BulkDeleteThreshold: this many deletes (10 in the code) ...
  MinPercent,  \* ... and this share of the manifest (25 in the code)
  Risks,       \* the known defects that are let loose
  MaxEdits,    \* bound: what users and peers do
  MaxEnds,     \* bound: sessions that end
  MaxMisses    \* bound: events the kernel drops

ASSUME AbsentAssumption == Absent \notin Paths \X Nat
ASSUME ThresholdAssumption == MinDeletes \in Nat \ {0} /\ MinPercent \in 0 .. 100
ASSUME RisksAssumption ==
  Risks \subseteq {"unknown", "again", "undo", "held", "burst", "stale", "rescan", "stash"}

VARIABLES
  disk, manifest, server,  \* what each path holds: vault, manifest, server
  events,                  \* file system events the watcher has not handled
  pending,                 \* renames that wait for their creation
  batch,                   \* ops emitted: watcher channel and debouncer
  staged, acked,           \* T1; the paths of the ops in T2
  live, kick,              \* a session runs; pushTrigger is full
  inbox, applying,         \* broadcasts to apply; the one being applied
  stash, marker,           \* pending-confirm.jsonl and the confirm marker
  wanted,                  \* history: what was last made of each path, by anyone
  missed,                  \* history: paths whose last event was dropped
  edits, ends, misses      \* bounds

files == <<disk, manifest, server>>
pipeline == <<events, pending, batch>>
tiers == <<staged, acked>>
session == <<live, kick, inbox, applying>>
guard == <<stash, marker>>
history == <<wanted, missed>>
bounds == <<edits, ends, misses>>
vars == <<files, pipeline, tiers, session, guard, history, bounds>>

Init ==
  /\ \E ps \in SUBSET Paths :
       disk = [p \in Paths |-> IF p \in ps THEN <<p, 0>> ELSE Absent]
  /\ manifest = disk /\ server = disk /\ wanted = disk
  /\ events = << >> /\ pending = << >> /\ batch = << >>
  /\ staged = << >> /\ acked = {}
  /\ live = FALSE /\ kick = FALSE /\ inbox = << >> /\ applying = << >>
  /\ stash = << >> /\ marker = FALSE
  /\ missed = {}
  /\ edits = 0 /\ ends = 0 /\ misses = 0
-----------------------------------------------------------------------------
(***************************************************************************)
(* Ops                                                                     *)
(***************************************************************************)
Write(p, c, pre) == [type |-> "write", path |-> p, to |-> p, data |-> c, pre |-> pre]
Delete(p, pre) == [type |-> "delete", path |-> p, to |-> p, data |-> Absent, pre |-> pre]
Rename(p, q, pre) == [type |-> "rename", path |-> p, to |-> q, data |-> Absent, pre |-> pre]

Effect(t, x) ==
  IF x.type = "rename" THEN [t EXCEPT ![x.path] = Absent, ![x.to] = t[x.path]]
                       ELSE [t EXCEPT ![x.path] = x.data]
Overlay(t, ops) == FoldLeft(Effect, t, ops)

Keys(ops) == UNION {{ops[i].path, ops[i].to} : i \in DOMAIN ops}
EventPaths == {events[i].path : i \in DOMAIN events}
Waiting == {pending[i].from : i \in DOMAIN pending}
InPipeline == EventPaths \cup Waiting \cup Keys(batch)

\* What the server accepts of a batch: ValidateOp and the pre_hashes, all of
\* them against its tree before the batch; then every op in its turn.
Accepted(t, ops) ==
  \A i \in DOMAIN ops :
    /\ ops[i].pre = t[ops[i].path]
    /\ ops[i].type # "write" =>
         Overlay(t, SubSeq(ops, 1, i - 1))[ops[i].path] # Absent

\* BulkDeleteThreshold
Bulk(deletes, size) ==
  deletes >= MinDeletes /\ size > 0 /\ deletes * 100 >= MinPercent * size
-----------------------------------------------------------------------------
(***************************************************************************)
(* The user and the peers.  An edit makes a content that was never there,  *)
(* or undoes what was edited.                                              *)
(* The guards keep the hazards out that README.md lists; each is lifted by *)
(* a member of Risks.                                                      *)
(***************************************************************************)
Event(k, p) == [kind |-> k, path |-> p]

\* The kernel queues the events, or drops them.  Nobody watches when no
\* session runs.
Notice(es) ==
  \/ /\ events' = IF live THEN events \o es ELSE events
     /\ missed' = missed \ {es[i].path : i \in DOMAIN es}
     /\ misses' = misses
  \/ /\ live /\ misses < MaxMisses
     /\ misses' = misses + 1
     /\ missed' = missed \cup {es[i].path : i \in DOMAIN es}
     /\ events' = events

\* No change of a peer at p that the client has not applied; T1 and the stash
\* hold nothing about p.
MayTouch(p) ==
  /\ edits < MaxEdits
  /\ server[p] = manifest[p] /\ \A i \in DOMAIN applying : applying[i].path # p
  /\ "held" \in Risks \/ p \notin Keys(staged)
  /\ "stash" \in Risks \/ p \notin Keys(stash)

\* p was removed, and the watcher has not told what became of it.
Leaving(p) == p \in Waiting \/ Event("rename", p) \in Range(events)

Removed(p) ==
  \/ Leaving(p) \/ Event("remove", p) \in Range(events)
  \/ \E i \in DOMAIN batch : batch[i].path = p /\ batch[i].type # "write"

MayFill(p, c) ==
  /\ MayTouch(p) /\ c # disk[p]
  /\ "again" \in Risks \/ ~Leaving(p)
  /\ "undo" \in Risks \/ c # manifest[p] \/ p \notin InPipeline

MayRemove(p) ==
  /\ MayTouch(p) /\ disk[p] # Absent
  /\ "again" \in Risks \/ ~Removed(p)
  /\ "unknown" \in Risks \/ manifest[p] # Absent

Make(tree, es) ==
  /\ disk' = tree
  /\ wanted' = [p \in Paths |-> IF tree[p] # disk[p] THEN tree[p] ELSE wanted[p]]
  /\ edits' = edits + 1
  /\ Notice(es)
  /\ UNCHANGED <<manifest, server, pending, batch, tiers, session, guard, ends>>

\* A new edit, or the one that undoes the edits since the manifest.
UserWrite(p) ==
  \E c \in {<<p, edits + 1>>, manifest[p]} \ {Absent} :
    /\ MayFill(p, c)
    /\ Make([disk EXCEPT ![p] = c], <<Event("write", p)>>)

UserDelete(p) ==
  /\ MayRemove(p)
  /\ Make([disk EXCEPT ![p] = Absent], <<Event("remove", p)>>)

UserMove(p, q) ==
  /\ p # q /\ MayRemove(p) /\ MayFill(q, disk[p])
  /\ Make([disk EXCEPT ![p] = Absent, ![q] = disk[p]],
          <<Event("rename", p), Event("write", q)>>)

\* Moved to where the daemon does not look.
UserMoveAway(p) ==
  /\ MayRemove(p)
  /\ Make([disk EXCEPT ![p] = Absent], <<Event("rename", p)>>)

\* A peer changes what the client has in step with the server.
PeerChange(p) ==
  /\ edits < MaxEdits
  /\ p \notin Keys(staged) \cup Keys(stash)
  /\ "stale" \in Risks \/ (p \notin InPipeline /\ disk[p] = server[p])
  /\ \E c \in {<<p, edits + 1>>} \cup {Absent} :
       /\ c = Absent => server[p] # Absent /\ "unknown" \in Risks
       /\ server' = [server EXCEPT ![p] = c]
       /\ wanted' = [wanted EXCEPT ![p] = c]
       /\ inbox' = IF live THEN Append(inbox, [path |-> p, data |-> c]) ELSE inbox
  /\ edits' = edits + 1
  /\ UNCHANGED <<disk, manifest, pipeline, tiers, live, kick, applying, guard,
                 missed, ends, misses>>
-----------------------------------------------------------------------------
(***************************************************************************)
(* The watcher.  It looks at the file when it handles the event.           *)
(***************************************************************************)
Handle(e) == events # << >> /\ Head(events) = e /\ events' = Tail(events)
Emit(x) == batch' = Append(batch, x)

\* Faulty: no pre_hash is looked up.
HandleRemoveBlind(p) ==
  /\ Handle(Event("remove", p))
  /\ Emit(Delete(p, Absent))
  /\ UNCHANGED <<files, pending, tiers, session, guard, history, bounds>>

HandleRemove(p) ==
  /\ Handle(Event("remove", p))
  /\ Emit(Delete(p, manifest[p]))
  /\ UNCHANGED <<files, pending, tiers, session, guard, history, bounds>>

\* startPendingRename, or a delete without pre_hash of a file that the
\* manifest does not know.
HandleRename(p) ==
  /\ Handle(Event("rename", p))
  /\ IF manifest[p] = Absent
     THEN Emit(Delete(p, Absent)) /\ pending' = pending
     ELSE /\ pending' = Append(pending, [hash |-> manifest[p], from |-> p])
          /\ batch' = batch
  /\ UNCHANGED <<files, tiers, session, guard, history, bounds>>

\* takePendingRename: the oldest that waits for this content.
Matching(c) == {i \in DOMAIN pending : pending[i].hash = c}

HandleWrite(p) ==
  /\ Handle(Event("write", p))
  /\ \/ /\ disk[p] = Absent
        /\ UNCHANGED <<pending, batch>>
     \/ /\ disk[p] # Absent /\ Matching(disk[p]) # {}
        /\ LET i == Min(Matching(disk[p])) IN
             /\ pending' = RemoveAt(pending, i)
             /\ Emit(Rename(pending[i].from, p, pending[i].hash))
     \/ /\ disk[p] # Absent /\ Matching(disk[p]) = {}
        /\ pending' = pending
        /\ batch' = IF disk[p] = manifest[p] THEN batch
                    ELSE Append(batch, Write(p, disk[p], manifest[p]))
  /\ UNCHANGED <<files, tiers, session, guard, history, bounds>>

\* renameWindow is over: what was renamed is gone.
Expire ==
  /\ \E i \in DOMAIN pending :
       /\ pending' = RemoveAt(pending, i)
       /\ Emit(Delete(pending[i].from, pending[i].hash))
  /\ UNCHANGED <<files, events, tiers, session, guard, history, bounds>>
-----------------------------------------------------------------------------
(***************************************************************************)
(* Debouncer, EnqueueOps, push                                             *)
(***************************************************************************)
\* Faulty: whatever lies between, the writes of a path become one.
CoalesceAll(ops) ==
  LET Join(out, x) ==
        IF \E y \in Range(out) : y.type = "write" /\ x.type = "write" /\ y.path = x.path
        THEN [i \in DOMAIN out |->
                IF out[i].type = "write" /\ out[i].path = x.path
                THEN [out[i] EXCEPT !.data = x.data] ELSE out[i]]
        ELSE Append(out, x)
  IN FoldLeft(Join, << >>, ops)

\* CoalesceConsecutiveWrites keeps the first pre_hash and the last content.
Coalesce(ops) ==
  LET Join(out, x) ==
        IF out # << >> /\ x.type = "write" /\ Last(out).type = "write"
             /\ Last(out).path = x.path
        THEN [out EXCEPT ![Len(out)].data = x.data]
        ELSE Append(out, x)
  IN FoldLeft(Join, << >>, ops)

\* The ops of paths that T1 does not hold; a rename has no path and is kept.
Enqueued(ops) ==
  staged \o SelectSeq(ops, LAMBDA x :
    x.type = "rename" \/ \A i \in DOMAIN staged :
                           staged[i].type = "rename" \/ staged[i].path # x.path)

\* Faulty: the engine is not told.
KickLost == kick' = kick

\* kickPush does nothing while the marker is there.
Kick == kick' = (kick \/ ~marker)

\* A debounce timer fires: `delay` after the last op, when nothing is under way,
\* or `maxDelay` after the first, whatever is.
Fire ==
  /\ live /\ batch # << >>
  /\ "burst" \in Risks \/ (events = << >> /\ pending = << >>)
  /\ staged' = Enqueued(Coalesce(batch))
  /\ batch' = << >>
  /\ Kick
  /\ UNCHANGED <<files, events, pending, acked, live, inbox, applying, guard,
                 history, bounds>>

\* The process ends.  The files stay, and so does T1.
Down ==
  /\ live' = FALSE /\ kick' = FALSE /\ inbox' = << >> /\ applying' = << >>
  /\ events' = << >> /\ pending' = << >> /\ batch' = << >>

\* pushIfNeeded.  What the server does not accept ends the session.
Push ==
  /\ live /\ kick /\ applying = << >>
  /\ \A i \in DOMAIN inbox : inbox[i].path \notin Keys(staged)
  /\ IF Accepted(server, staged)
     THEN /\ server' = Overlay(server, staged)
          /\ manifest' = Overlay(manifest, staged)
          /\ acked' = acked \cup {staged[i].path : i \in DOMAIN staged}
          /\ staged' = << >>
          /\ kick' = FALSE
          /\ UNCHANGED <<pipeline, live, inbox, applying>>
     ELSE Down /\ UNCHANGED <<manifest, server, tiers>>
  /\ UNCHANGED <<disk, guard, history, bounds>>
-----------------------------------------------------------------------------
(***************************************************************************)
(* What a broadcast or a catchup makes of the files.  The manifest is      *)
(* written before the file, so that the watcher knows its own daemon's     *)
(* writes; a deleted file is moved to the trash.                           *)
(***************************************************************************)
ApplyRecord ==
  /\ live /\ inbox # << >> /\ applying = << >>
  /\ applying' = <<Head(inbox)>> /\ inbox' = Tail(inbox)
  /\ manifest' = [manifest EXCEPT ![Head(inbox).path] = Head(inbox).data]
  /\ UNCHANGED <<disk, server, pipeline, tiers, live, kick, guard, history, bounds>>

ApplyFile ==
  /\ applying # << >>
  /\ LET x == Head(applying) IN
       /\ disk' = [disk EXCEPT ![x.path] = x.data]
       /\ events' = IF disk[x.path] = Absent /\ x.data = Absent THEN events
                    ELSE Append(events, Event(IF x.data = Absent THEN "rename" ELSE "write",
                                              x.path))
  /\ applying' = << >>
  /\ UNCHANGED <<manifest, server, pending, batch, tiers, live, kick, inbox, guard,
                 history, bounds>>
-----------------------------------------------------------------------------
(***************************************************************************)
(* ReconcileWorkingTree and the bulk guard                                 *)
(***************************************************************************)
Held == {staged[i].path : i \in DOMAIN staged} \cup acked
Drifted == {p \in Paths : disk[p] # manifest[p]}

Reconciled ==
  SetToSeq({IF disk[p] = Absent THEN Delete(p, manifest[p])
                                ELSE Write(p, disk[p], manifest[p]) : p \in Drifted \ Held})

TooMany(ops) ==
  Bulk(Cardinality({i \in DOMAIN ops : ops[i].type = "delete"}),
       Cardinality({p \in Paths : manifest[p] # Absent}))

\* A session starts: reconcile, T1, then Hello and the check of T2.  What the
\* peers did meanwhile comes as a catchup.
StartSession ==
  /\ ~live /\ ~marker /\ ~TooMany(Reconciled)
  /\ live' = TRUE /\ kick' = TRUE
  /\ staged' = Enqueued(Reconciled)
  /\ acked' = {}
  /\ missed' = {p \in Held : disk[p] # Overlay(manifest, staged')[p]}
  /\ inbox' = SetToSeq({[path |-> p, data |-> server[p]] :
                          p \in {q \in Paths : server[q] # manifest[q]}})
  /\ UNCHANGED <<files, pipeline, applying, guard, wanted, bounds>>

\* tripBulkGuard: first the stash, then the marker.  A session that starts
\* ends here.
Trip ==
  /\ TooMany(Reconciled)
  /\ stash' = Reconciled
  /\ marker' = TRUE

StartBlocked ==
  /\ ~live /\ ~marker /\ Trip
  /\ UNCHANGED <<files, pipeline, tiers, session, history, bounds>>

StartCrashes ==
  /\ ~live /\ ~marker /\ TooMany(Reconciled) /\ ends < MaxEnds
  /\ stash' = Reconciled
  /\ ends' = ends + 1
  /\ UNCHANGED <<files, pipeline, tiers, session, marker, history, edits, misses>>

\* The idle rescan, when T1 and T2 are empty and no event came for a while.
IdleRescan ==
  /\ live /\ staged = << >> /\ acked = {} /\ ~marker
  /\ events = << >> /\ pending = << >> /\ batch = << >>
  /\ "rescan" \in Risks \/ applying = << >>
  /\ Drifted # {}
  /\ \/ /\ Trip
        /\ UNCHANGED <<staged, kick>>
     \/ /\ ~TooMany(Reconciled)
        /\ staged' = Reconciled
        /\ Kick
        /\ UNCHANGED guard
  /\ missed' = {}
  /\ UNCHANGED <<files, pipeline, acked, live, inbox, applying, wanted, bounds>>

\* The connection, the server or the process is lost.
EndSession ==
  /\ live /\ applying = << >> /\ ends < MaxEnds
  /\ Down
  /\ ends' = ends + 1
  /\ UNCHANGED <<files, tiers, guard, history, edits, misses>>

\* The user stops the daemon to decide on what an idle rescan stopped at.
Stop ==
  /\ live /\ applying = << >> /\ marker
  /\ Down
  /\ UNCHANGED <<files, tiers, guard, history, bounds>>

\* leyline confirm: the stash goes to T1, the stash is removed, the marker is
\* removed.  The command may be interrupted in between.
Confirm ==
  /\ ~live /\ marker
  /\ \E done \in 1 .. 3 :
       /\ staged' = Enqueued(stash)
       /\ stash' = IF done >= 2 THEN << >> ELSE stash
       /\ marker' = (done < 3)
       /\ IF done = 3 THEN ends' = ends ELSE ends < MaxEnds /\ ends' = ends + 1
  /\ UNCHANGED <<files, pipeline, acked, session, history, edits, misses>>

\* leyline restore-local: the deleted files are made again from base/, the other
\* ops go to T1.  Nobody who has confirmed restores.
Deletions == {stash[i].path : i \in {j \in DOMAIN stash : stash[j].type = "delete"}}

RestoreLocal ==
  /\ ~live /\ marker /\ Deletions \cap Keys(staged) = {}
  /\ disk' = [p \in Paths |-> IF p \in Deletions THEN manifest[p] ELSE disk[p]]
  /\ wanted' = [p \in Paths |-> IF p \in Deletions /\ disk[p] = Absent
                             THEN manifest[p] ELSE wanted[p]]
  /\ staged' = Enqueued(SelectSeq(stash, LAMBDA x : x.type # "delete"))
  /\ stash' = << >> /\ marker' = FALSE
  /\ UNCHANGED <<manifest, server, pipeline, acked, session, missed, bounds>>
-----------------------------------------------------------------------------
Watch == \E p \in Paths : HandleRemove(p) \/ HandleRename(p) \/ HandleWrite(p)
Engine == Push \/ ApplyRecord \/ ApplyFile

Next ==
  \/ \E p \in Paths :
       \/ UserWrite(p) \/ UserDelete(p) \/ UserMoveAway(p) \/ PeerChange(p)
       \/ \E q \in Paths : UserMove(p, q)
  \/ Watch \/ Expire \/ Fire \/ Engine
  \/ StartSession \/ StartBlocked \/ StartCrashes \/ IdleRescan \/ EndSession
  \/ Stop \/ Confirm \/ RestoreLocal

Spec == Init /\ [][Next]_vars

\* Goroutines run, timers fire, the daemon is started again, and a user whose
\* vault is blocked decides.
Fairness ==
  /\ WF_vars(Watch) /\ WF_vars(Expire) /\ WF_vars(Fire)
  /\ WF_vars(Push) /\ WF_vars(ApplyRecord) /\ WF_vars(ApplyFile)
  /\ WF_vars(StartSession) /\ WF_vars(StartBlocked)
  /\ WF_vars(Stop) /\ WF_vars(Confirm \/ RestoreLocal)
FairSpec == Spec /\ Fairness
-----------------------------------------------------------------------------
Believed == Overlay(manifest, staged)

\* What a session does not know of a file is on its way to it.  Whatever order
\* events, renames, timers, batches, broadcasts and reconciles come in, no
\* difference between the vault and what T1 makes of the manifest is overlooked,
\* the events that the kernel drops and the paths that T2 hides excepted.
Accounted ==
  live => \A p \in Paths :
    \/ disk[p] = Believed[p]
    \/ p \in InPipeline \cup missed \cup {applying[i].path : i \in DOMAIN applying} \cup Keys(stash)

\* T1 as a whole is what the server accepts, whatever was captured when: no op
\* names a content that the server does not hold, none removes a file twice.  A
\* batch that is refused ends the session, and is refused again in the next one.
\* And it changes something: the writes of the daemon itself are not pushed back
\* (the server refuses an empty commit).  While the user has not decided about a
\* bulk deletion, the server keeps its files, whatever was staged and pushed since.
StagedFits ==
  /\ Accepted(manifest, staged)
  /\ staged # << >> => Believed # manifest
  /\ marker => \A p \in Deletions : server[p] # Absent

\* When the users and peers rest, vault and server get to hold what they made
\* last, through renames, restarts and the bulk guard.
Settles ==
  <>[](live => missed = {}) => <>[](disk = wanted /\ server = wanted)
=============================================================================
