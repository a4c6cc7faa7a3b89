---------------------------- MODULE SyncSession ----------------------------
(***************************************************************************)
(* One client of a vault: its working tree, its durable files and the      *)
(* engine session that keeps them with the server.                         *)
(*                                                                         *)
(* The client's files are the working tree (disk), the manifest, the base  *)
(* snapshots (bstore), the staged log T1, the acked log T2 and base.json   *)
(* (base and savedSeq); they survive a crash.  The server is what HubVault *)
(* shows it to be for one client: a linear history of trees, this client's *)
(* stage, the stage of its peers, and the highest seq accepted.            *)
(*                                                                         *)
(* The text of a file is the set of the edits it holds, so that a merge    *)
(* that drops an edit shows; 0 is the edit made by a conflict marker.      *)
(* Files are text: what a session does with binary files, and the sidecar  *)
(* files it writes, is in ConflictRules.                                 *)
(***************************************************************************)
EXTENDS Integers, SequencesExt

CONSTANTS
  Paths,
  Absent,        \* the content of a path that holds no file
  ModeSets,      \* the sets of modes a client may be used in
  UserDeletes,   \* the paths the user may delete, and none that
  PeerDeletes,   \* a peer may delete: the properties are of such sets
  CrashAt,       \* where the client may crash
  Risks,         \* the known defects that are let loose
  MaxEdits,      \* bound: edits of the user and of the peers
  MaxDrops       \* bound: crashes and lost connections

OneShot == {"sync", "pull"}
Pushing == {"sync", "autosync"}

ASSUME ModesAssumption ==
  UNION ModeSets \subseteq {"sync", "autosync", "pull", "mirror"}
ASSUME RisksAssumption == Risks \subseteq {"flush", "rush", "deletes", "key", "replay"}

VARIABLES
  disk, manifest, bstore,  \* what each path holds: working tree, manifest, base/
  staged, acked,           \* T1 and T2
  base, savedSeq,          \* base.json: the commit it names (0: none), NextSeq
  sess,                    \* the session: the engine's stack and Base.NextSeq
  online, req, chan,       \* the connection: a request under way, frames to read
  commits, mine, theirs, seen,  \* the server
  modes,                   \* the modes this client is used in
  edits, drops,            \* bounds
  reemitted                \* history: the paths of T2 ops pushed once more

files == <<disk, manifest, bstore>>
logs == <<staged, acked>>
book == <<base, savedSeq>>
net == <<online, req, chan>>
server == <<commits, mine, theirs, seen>>
bounds == <<edits, drops>>
rest == <<modes, bounds, reemitted>>
vars == <<files, logs, book, sess, net, server, rest>>
-----------------------------------------------------------------------------
(***************************************************************************)
(* Texts, changes and ops                                                  *)
(***************************************************************************)
Marker == 0

\* readBaseContent and every merge read an absent file as an empty one.
Text(c) == IF c = Absent THEN {} ELSE c

\* What a commit and a frame carry: the new content of some paths.
PathsOf(ops) == {ops[i].path : i \in DOMAIN ops}
After(tree, ops) ==
  FoldLeft(LAMBDA t, x : [t EXCEPT ![x.path] = x.data], tree, ops)
Changes(t, u) ==
  SetToSeq({[path |-> p, data |-> u[p]] : p \in {q \in Paths : t[q] # u[q]}})

\* The three-way merge: what both keep, and what either added.  Edits of both
\* sides that meet leave both versions between markers.
Merges(b, s, c) ==
  {(s \cap c) \cup (s \ b) \cup (c \ b)} \cup
    (IF b # s /\ b # c /\ s # c THEN {s \cup c \cup {Marker}} ELSE {})

HEAD == Len(commits)
HeadTree == commits[HEAD]
Effective == After(HeadTree, mine)
-----------------------------------------------------------------------------
Off == [pc |-> "off", mode |-> "sync", live |-> FALSE, nextSeq |-> 0,
        then |-> "off", todo |-> << >>, fresh |-> << >>, sent |-> << >>,
        retry |-> "none", tries |-> 0, ack |-> "none", head |-> 0, got |-> FALSE]
NoReq == [kind |-> "none"]

Init ==
  /\ \E t \in [Paths -> {Absent, {1}}] : commits = <<t>>
  /\ disk = [p \in Paths |-> Absent] /\ manifest = disk /\ bstore = disk
  /\ staged = << >> /\ acked = << >>
  /\ base = 0 /\ savedSeq = 1
  /\ sess = Off
  /\ online = FALSE /\ req = NoReq /\ chan = << >>
  /\ mine = << >> /\ theirs = << >> /\ seen = 0
  /\ modes \in ModeSets
  /\ edits = 1 /\ drops = 0
  /\ reemitted = {}
-----------------------------------------------------------------------------
(***************************************************************************)
(* The user.  A file that the user may delete is not created again.        *)
(***************************************************************************)
UserEdit(p) ==
  /\ edits < MaxEdits
  /\ disk[p] = Absent => p \notin UserDeletes
  /\ disk' = [disk EXCEPT ![p] = Text(@) \cup {edits + 1}]
  /\ edits' = edits + 1
  /\ UNCHANGED <<manifest, bstore, logs, book, sess, net, server, modes, drops, reemitted>>

UserDelete(p) ==
  /\ edits < MaxEdits
  /\ p \in UserDeletes /\ disk[p] # Absent
  /\ disk' = [disk EXCEPT ![p] = Absent]
  /\ edits' = edits + 1
  /\ UNCHANGED <<manifest, bstore, logs, book, sess, net, server, modes, drops, reemitted>>
-----------------------------------------------------------------------------
(***************************************************************************)
(* ReconcileWorkingTree and EnqueueOps                                     *)
(***************************************************************************)
Drifted == {p \in Paths : disk[p] # manifest[p]}

\* A path with an op in T1 or in T2 is skipped: that op claims it.
Reconciled == Drifted \ (PathsOf(staged) \cup PathsOf(acked))

Drift(ps) ==
  SetToSeq({[path |-> p, data |-> disk[p], pre |-> manifest[p]] : p \in ps})

\* The ops of paths that T1 does not hold yet, numbered from NextSeq.
Enqueued(ops) ==
  LET new == SelectSeq(ops, LAMBDA x : x.path \notin PathsOf(staged))
  IN [i \in DOMAIN new |->
        [path |-> new[i].path, data |-> new[i].data, pre |-> new[i].pre,
         seq |-> sess.nextSeq + i - 1, frozen |-> sess.mode \notin Pushing]]

\* The rows of T1 are appended first; base.json is written in the next step.
Enqueue(ops) ==
  /\ staged' = staged \o Enqueued(ops)
  /\ sess' = [sess EXCEPT !.pc = "save", !.nextSeq = @ + Len(Enqueued(ops))]

Goto(pc) == sess' = [sess EXCEPT !.pc = pc]

\* The files are opened, the client connects.
Start(m) ==
  /\ sess.pc = "off" /\ req = NoReq /\ m \in modes
  /\ sess' = [Off EXCEPT !.pc = "scan", !.mode = m, !.nextSeq = savedSeq,
                         !.then = "hello"]
  /\ online' = TRUE /\ chan' = << >>
  /\ UNCHANGED <<files, logs, book, req, server, rest>>

Scan ==
  /\ sess.pc = "scan"
  /\ Enqueue(Drift(Reconciled))
  /\ UNCHANGED <<files, acked, book, net, server, rest>>

\* WriteBase, the end of EnqueueOps.
Save ==
  /\ sess.pc = "save"
  /\ savedSeq' = sess.nextSeq
  /\ Goto(sess.then)
  /\ UNCHANGED <<files, logs, base, net, server, rest>>

\* The daemon stages what its watcher saw, while the engine waits for a frame.
StageEdit(p) ==
  /\ sess.mode = "autosync" /\ sess.pc \in {"live", "wantAck"}
  /\ p \in Drifted \ PathsOf(staged)
  /\ staged' = staged \o Enqueued(Drift({p}))
  /\ sess' = [sess EXCEPT !.nextSeq = @ + 1]
  /\ savedSeq' = sess'.nextSeq
  /\ UNCHANGED <<files, acked, base, net, server, rest>>
-----------------------------------------------------------------------------
(***************************************************************************)
(* The end of a session: an error, a lost connection, a crash              *)
(***************************************************************************)
Close(r) ==
  /\ sess' = Off
  /\ online' = FALSE /\ chan' = << >>
  /\ req' = r

Fail == Close(NoReq)

Waiting == {"wantHello", "wantAck", "wantCast", "live", "wantFlush"}

\* The connection is lost; a request on its way may still reach the server.
Disconnect ==
  /\ sess.pc \in Waiting /\ drops < MaxDrops
  /\ \E r \in {NoReq, req} : Close(r)
  /\ drops' = drops + 1
  /\ UNCHANGED <<files, logs, book, server, modes, edits, reemitted>>

\* Broadcasts that were put aside while a live session said hello again are
\* applied behind the catchup that holds them already: until the last of them is
\* applied the files go back to an older commit than base.json names, and T1 is
\* rebased on it, the ops of a push that the server has accepted with it.
Replayed == sess.retry = "stale" /\ sess.ack = "ok" /\ sess.got
Replaying == sess.pc \in {"replace", "rebase"} /\ sess.todo[1].head < base

Crash ==
  /\ sess.pc \in CrashAt /\ drops < MaxDrops
  /\ "replay" \in Risks \/ ~(Replaying \/ Replayed)
  /\ Close(req)
  /\ drops' = drops + 1
  /\ UNCHANGED <<files, logs, book, server, modes, edits, reemitted>>
-----------------------------------------------------------------------------
(***************************************************************************)
(* Hello                                                                   *)
(***************************************************************************)
Send(r, pc) ==
  /\ req' = r
  /\ Goto(pc)

SendHello ==
  /\ sess.pc = "hello" /\ req = NoReq
  /\ Send([kind |-> "hello", base |-> base, digest |-> manifest], "wantHello")
  /\ UNCHANGED <<files, logs, book, online, chan, server, rest>>

\* Faulty: the ops of the last commit only.
CatchupOfLast(b) == Changes(commits[IF HEAD > 1 THEN HEAD - 1 ELSE b], HeadTree)

\* WalkCatchup: the last op of every path that a commit behind the base touched.
Catchup(b) ==
  SetToSeq({[path |-> p, data |-> HeadTree[p]] :
              p \in {q \in Paths : \E i \in b + 1 .. HEAD :
                                     commits[i][q] # commits[i - 1][q]}})

\* ResolveHello.  A manifest that is not the tree at HEAD gets an empty catchup.
Resolve(b, digest) ==
  CASE b = 0 ->
         [kind |-> "bootstrap", head |-> HEAD,
          ops |-> SelectSeq(Changes([p \in Paths |-> Absent], HeadTree),
                            LAMBDA x : x.data # Absent)]
    [] b = HEAD /\ digest = HeadTree ->
         [kind |-> "up_to_date", head |-> HEAD, ops |-> << >>]
    [] b = HEAD /\ digest # HeadTree ->
         [kind |-> "catchup", head |-> HEAD, ops |-> << >>]
    [] OTHER ->
         [kind |-> "catchup", head |-> HEAD, ops |-> Catchup(b)]

\* The answer is computed, and later sent: a broadcast may get between.
ServeHello ==
  /\ req.kind = "hello"
  /\ req' = IF online THEN [kind |-> "answer", frame |-> Resolve(req.base, req.digest)]
                      ELSE NoReq
  /\ UNCHANGED <<files, logs, book, sess, online, chan, server, rest>>

AnswerHello ==
  /\ req.kind = "answer"
  /\ chan' = IF online THEN Append(chan, req.frame) ELSE chan
  /\ req' = NoReq
  /\ UNCHANGED <<files, logs, book, sess, online, server, rest>>

\* Frames the engine reads in order.  In a live session the reader puts the
\* broadcasts aside: the first frame of the other kinds is what a step sees.
Broadcasts == SelectSeq(chan, LAMBDA f : f.kind = "broadcast")
Replies == SelectSeq(chan, LAMBDA f : f.kind # "broadcast")

\* What follows a hello of RunSession or of staleBaseRetry.
AfterHello == IF sess.retry = "none" THEN "tier2" ELSE "push"

RecvHello ==
  /\ sess.pc = "wantHello" /\ chan # << >>
  /\ IF sess.live THEN Replies # << >> ELSE chan[1].kind # "broadcast"
  /\ LET f == Replies[1] IN
       /\ chan' = IF sess.live THEN Broadcasts ELSE Tail(chan)
       /\ IF f.kind # "up_to_date" /\ f.ops # << >>
          THEN /\ sess' = [sess EXCEPT !.pc = "apply", !.todo = <<f>>,
                                       !.then = AfterHello]
               /\ base' = base
          ELSE /\ base' = f.head
               /\ sess' = [sess EXCEPT
                             !.pc = IF f.kind = "catchup" THEN "scan" ELSE AfterHello,
                             !.then = AfterHello]
  /\ UNCHANGED <<files, logs, savedSeq, online, req, server, rest>>

\* A broadcast in the place of HelloOK ends a session that is not live yet.
RecvHelloFails ==
  /\ sess.pc = "wantHello" /\ ~sess.live
  /\ chan # << >> /\ chan[1].kind = "broadcast"
  /\ Fail
  /\ UNCHANGED <<files, logs, book, server, rest>>
-----------------------------------------------------------------------------
(***************************************************************************)
(* classifyAndApply: the files, then T1, then base.json                    *)
(***************************************************************************)
StagedAt(p) == {i \in DOMAIN staged : staged[i].path = p}

\* The outcomes of Classify and applyDecision for one op: what the working
\* tree holds, and the op that stays staged (none: << >>).
Outcome(disk_, op, new) == [disk |-> disk_, path |-> op.path, data |-> op.data,
                            staged |-> new]
Rebased(x, c, pre) ==
  <<[x EXCEPT !.data = c, !.pre = pre, !.frozen = sess.mode \notin Pushing]>>

\* Faulty: the replacement keeps its pre_hash.
ClassifiedUnanchored(op) ==
  IF StagedAt(op.path) = {} THEN {Outcome(op.data, op, << >>)}
  ELSE LET x == staged[CHOOSE i \in StagedAt(op.path) : TRUE] IN
       IF x.data = Absent \/ op.data = Absent
       THEN {Outcome(x.data, op, Rebased(x, x.data, op.data))}
       ELSE {Outcome(c, op, Rebased(x, c, x.pre)) :
               c \in Merges(Text(bstore[op.path]), op.data, x.data)}

Classified(op) ==
  IF StagedAt(op.path) = {} THEN {Outcome(op.data, op, << >>)}
  ELSE LET x == staged[CHOOSE i \in StagedAt(op.path) :
                         \A j \in StagedAt(op.path) : j <= i] IN
       IF x.data = Absent /\ op.data = Absent
       THEN \* both deleted it: nothing is applied, the staged delete is dropped
            {[Outcome(disk[op.path], op, << >>) EXCEPT !.data = manifest[op.path]]}
       ELSE IF x.data = Absent
       THEN \* the staged delete stays; the incoming text goes to a sidecar
            {Outcome(disk[op.path], op, Rebased(x, Absent, op.data))}
       ELSE IF op.data = Absent
       THEN \* the edit stays under a header that says who deleted the file
            LET c == x.data \cup {Marker}
            IN {Outcome(c, op, Rebased(x, c, Absent))}
       ELSE {Outcome(c, op, Rebased(x, c, op.data)) :
               c \in Merges(Text(bstore[op.path]), op.data, x.data)}

\* A broadcast op with the author and the seq of an op in T2 is taken for the echo
\* of it: it is not applied, and T2 loses its row.  The server does not send a
\* client its own ops; a second client with the same key numbers its ops from 1
\* as well, and which of the seqs meet is left open here.
Promoted(log, i) == RemoveAt(log, i)

SelfEchoes(f) ==
  IF "key" \in Risks /\ f.kind = "broadcast" THEN (DOMAIN f.ops) \X (DOMAIN acked) ELSE {}

\* Every op of the frame is classified against T1 as it was before the frame;
\* working tree, manifest and base/ are written op by op.
Applied(ops) ==
  LET outs == [i \in DOMAIN ops |-> Classified(ops[i])]
  IN \E out \in {o \in [DOMAIN ops -> UNION {outs[i] : i \in DOMAIN ops}] :
                   \A i \in DOMAIN ops : o[i] \in outs[i]} :
       /\ disk' = FoldLeft(LAMBDA t, o : [t EXCEPT ![o.path] = o.disk], disk, out)
       /\ manifest' = After(manifest, out)
       /\ bstore' = After(bstore, out)
       /\ sess' = [sess EXCEPT !.pc = "replace", !.todo[1].ops = ops,
                     !.fresh = FlattenSeq([i \in DOMAIN ops |-> out[i].staged])]

Apply ==
  /\ sess.pc = "apply"
  /\ LET f == sess.todo[1] IN
       \E echo \in SelfEchoes(f) \cup {<< >>} :
         /\ Applied(IF echo = << >> THEN f.ops ELSE RemoveAt(f.ops, echo[1]))
         /\ acked' = IF echo = << >> THEN acked ELSE Promoted(acked, echo[2])
  /\ UNCHANGED <<staged, book, net, server, rest>>

BySeq(ops) == SetToSortSeq(Range(ops), LAMBDA x, y : x.seq < y.seq)

\* Staged.Replace, sorted by seq: the replacements and the untouched rows.
Replaced(ops) ==
  BySeq(sess.fresh \o SelectSeq(staged, LAMBDA x : x.path \notin PathsOf(ops)))

Replace ==
  /\ sess.pc = "replace"
  /\ staged' = Replaced(sess.todo[1].ops)
  /\ sess' = [sess EXCEPT !.pc = "rebase", !.fresh = << >>]
  /\ UNCHANGED <<files, acked, book, net, server, rest>>

Rebase ==
  /\ sess.pc = "rebase"
  /\ base' = sess.todo[1].head
  /\ sess' = [sess EXCEPT !.todo = Tail(@),
                !.pc = IF Len(sess.todo) > 1 THEN "apply" ELSE sess.then]
  /\ UNCHANGED <<files, logs, savedSeq, net, server, rest>>
-----------------------------------------------------------------------------
(***************************************************************************)
(* reconcileT2AfterHello                                                   *)
(***************************************************************************)
\* The manifest says what the op said: its write, or its deletion.
T2Committed(x) == manifest[x.path] = x.data

\* DropBySeqs, of the committed ones and then of the others.
Dropped(log, seqs) == SelectSeq(log, LAMBDA x : x.seq \notin seqs)

DropT2 ==
  /\ sess.pc = "tier2"
  /\ LET again == SelectSeq(acked, LAMBDA x : ~T2Committed(x))
         seqs == {acked[i].seq : i \in DOMAIN acked}
     IN /\ sess' = [sess EXCEPT !.pc = IF again = << >> THEN "push" ELSE "reemit",
                                !.fresh = again]
        /\ reemitted' = reemitted \cup PathsOf(again)
        /\ acked' = Dropped(acked, seqs)
  /\ UNCHANGED <<files, staged, book, net, server, modes, bounds>>

\* With fresh seqs and the old pre_hash.
Reemit ==
  /\ sess.pc = "reemit"
  /\ LET new == Enqueued(sess.fresh) IN
       /\ staged' = staged \o [i \in DOMAIN new |-> [new[i] EXCEPT !.frozen = FALSE]]
       /\ sess' = [sess EXCEPT !.pc = "save", !.then = "push", !.fresh = << >>,
                               !.nextSeq = @ + Len(new)]
  /\ UNCHANGED <<files, acked, book, net, server, rest>>
-----------------------------------------------------------------------------
(***************************************************************************)
(* pushIfNeeded, seamlessRetry and staleBaseRetry                          *)
(***************************************************************************)
Pushable == IF sess.mode \in Pushing
            THEN SelectSeq(staged, LAMBDA x : ~x.frozen) ELSE << >>

PushBatch ==
  /\ sess.pc = "push" /\ Pushable # << >> /\ req = NoReq
  /\ req' = [kind |-> "push", ops |-> Pushable]
  /\ sess' = [sess EXCEPT !.pc = "wantAck", !.sent = Pushable]
  /\ UNCHANGED <<files, logs, book, online, chan, server, rest>>

\* Nothing to push: the daemon goes live, a one-shot session flushes.
PushDone ==
  /\ sess.pc = "push" /\ Pushable = << >>
  /\ sess' = [sess EXCEPT !.pc = IF sess.mode \in OneShot THEN "flush" ELSE "live",
                          !.live = sess.mode \notin OneShot,
                          !.retry = "none", !.tries = 0]
  /\ UNCHANGED <<files, logs, book, net, server, rest>>

\* The broadcasts that came before the ack are applied before it counts, and of
\* those behind it what the reader of a live session has put aside.
Ahead == SelectInSeq(chan, LAMBDA f : f.kind # "broadcast") - 1
Drained(n) == SubSeq(Broadcasts, 1, n)

\* Faulty: what is behind the ack is dropped with it.
UndrainedNone(n) == << >>

Undrained(n) == SubSeq(Broadcasts, n + 1, Len(Broadcasts))

RecvAck ==
  /\ sess.pc = "wantAck" /\ Replies # << >>
  /\ \E n \in Ahead .. IF sess.live THEN Len(Broadcasts) ELSE Ahead :
       /\ sess' = [sess EXCEPT !.pc = IF n = 0 THEN "acked" ELSE "apply",
                               !.then = "acked", !.todo = Drained(n), !.got = n > 0,
                               !.ack = Replies[1].kind, !.head = Replies[1].head]
       /\ chan' = Undrained(n)
  /\ UNCHANGED <<files, logs, book, online, req, server, rest>>

\* commitPushAck: base/ and the manifest, base.json, T2, T1.
AckRecord ==
  /\ sess.pc = "acked" /\ sess.ack = "ok"
  /\ manifest' = After(manifest, sess.sent)
  /\ bstore' = After(bstore, sess.sent)
  /\ Goto("advance")
  /\ UNCHANGED <<disk, logs, book, net, server, rest>>

AckAdvance ==
  /\ sess.pc = "advance"
  /\ base' = sess.head
  /\ Goto("copy")
  /\ UNCHANGED <<files, logs, savedSeq, net, server, rest>>

\* Faulty: T1 is emptied, what was staged since the push with it.
TrimmedAll == << >>

LastSent == Last(sess.sent).seq
Trimmed == SelectSeq(staged, LAMBDA x : x.seq > LastSent)

\* AppendAll: what T2 has already, from before a crash, is not appended again.
Appended(log, batch) ==
  log \o SelectSeq(batch, LAMBDA x : \A i \in DOMAIN log : log[i].seq # x.seq)

\* T1ToT2: every row of T1 up to the last seq sent goes to T2.
AckCopy ==
  /\ sess.pc = "copy"
  /\ acked' = Appended(acked, SelectSeq(staged, LAMBDA x : x.seq <= LastSent))
  /\ Goto("trim")
  /\ UNCHANGED <<files, staged, book, net, server, rest>>

AckTrim ==
  /\ sess.pc = "trim"
  /\ staged' = Trimmed
  /\ sess' = [sess EXCEPT !.pc = "push", !.retry = "none", !.tries = 0,
                          !.sent = << >>, !.ack = "none"]
  /\ UNCHANGED <<files, acked, book, net, server, rest>>

MaxRetries == 3

\* A round of retry r: the n-th attempt goes on at pc.
Round(r, n, pc) ==
  sess' = [sess EXCEPT !.pc = pc, !.retry = r, !.tries = n, !.sent = << >>,
                       !.ack = "none"]

\* stale_base with broadcasts: T1 is rebased already, push it again.
RetrySeamless ==
  /\ sess.pc = "acked" /\ sess.ack = "stale" /\ sess.got
  /\ sess.retry \in {"none", "seamless"}
  /\ LET n == IF sess.retry = "none" THEN 0 ELSE sess.tries + 1 IN
       IF n < MaxRetries THEN Round("seamless", n, "push") /\ UNCHANGED net
                         ELSE Fail
  /\ UNCHANGED <<files, logs, book, server, rest>>

\* stale_base without: say hello from the head the server named.
RetryHello ==
  /\ sess.pc = "acked" /\ sess.ack = "stale" /\ ~sess.got
  /\ sess.retry = "stale" => sess.head # base
  /\ LET n == IF sess.retry = "stale" THEN sess.tries + 1 ELSE 0 IN
       IF n < MaxRetries
       THEN Round("stale", n, "hello") /\ base' = sess.head /\ UNCHANGED net
       ELSE Fail /\ UNCHANGED base
  /\ UNCHANGED <<files, logs, savedSeq, server, rest>>

\* The head has not moved: a peer's stage is in the way.  Its commit will be
\* broadcast.
WaitForCast ==
  /\ sess.pc = "acked" /\ sess.ack = "stale" /\ ~sess.got
  /\ sess.retry = "stale" /\ sess.head = base
  /\ Goto("wantCast")
  /\ UNCHANGED <<files, logs, book, net, server, rest>>

\* A broadcast came with the ack, or the awaited one came.
RetryAfterCast ==
  /\ sess.pc = "acked" /\ sess.ack = "stale" /\ sess.got /\ sess.retry = "stale"
  /\ IF sess.tries + 1 < MaxRetries
     THEN Round("stale", sess.tries + 1, "push") /\ UNCHANGED net ELSE Fail
  /\ UNCHANGED <<files, logs, book, server, rest>>

RecvCast ==
  /\ sess.pc = "wantCast" /\ chan # << >>
  /\ \E n \in 1 .. IF sess.live THEN Len(chan) ELSE 1 :
       /\ sess' = [sess EXCEPT !.pc = "apply", !.then = "acked",
                               !.todo = Drained(n), !.got = TRUE]
       /\ chan' = Undrained(n)
  /\ UNCHANGED <<files, logs, book, online, req, server, rest>>

\* 90 s without a broadcast: no peer has a stage to commit.
CastTimeout ==
  /\ sess.pc = "wantCast" /\ chan = << >> /\ theirs = << >>
  /\ Fail
  /\ UNCHANGED <<files, logs, book, server, rest>>
-----------------------------------------------------------------------------
(***************************************************************************)
(* runLive, and the flush that ends a one-shot session                     *)
(***************************************************************************)
RecvBroadcast ==
  /\ sess.pc = "live" /\ chan # << >>
  /\ sess' = [sess EXCEPT !.pc = "apply", !.then = "live", !.todo = <<chan[1]>>]
  /\ chan' = Tail(chan)
  /\ UNCHANGED <<files, logs, book, online, req, server, rest>>

Trigger ==
  /\ sess.pc = "live" /\ Pushable # << >>
  /\ Goto("push")
  /\ UNCHANGED <<files, logs, book, net, server, rest>>

\* ctx.Done: the batch is sent, but the reader is gone and no ack is heard.
Leave ==
  /\ sess.pc = "live" /\ req = NoReq
  /\ Close(IF Pushable = << >> THEN NoReq ELSE [kind |-> "push", ops |-> Pushable])
  /\ UNCHANGED <<files, logs, book, server, rest>>

Flush ==
  /\ sess.pc = "flush" /\ req = NoReq
  /\ Send([kind |-> "flush"], "wantFlush")
  /\ UNCHANGED <<files, logs, book, online, chan, server, rest>>

\* The server's head becomes the base; broadcasts in between are not read.
Flushed == Replies[1].head

RecvFlush ==
  /\ sess.pc = "wantFlush" /\ Replies # << >>
  /\ base' = Flushed
  /\ Fail
  /\ UNCHANGED <<files, logs, savedSeq, server, rest>>
-----------------------------------------------------------------------------
(***************************************************************************)
(* The server                                                              *)
(***************************************************************************)
Reply(k, h) ==
  chan' = IF online THEN Append(chan, [kind |-> k, head |-> h, ops |-> << >>])
                    ELSE chan

Unseen(ops) == SelectSeq(ops, LAMBDA x : x.seq > seen)

\* Faulty: the pre_hash is not compared.
StaleOverlap(ops) == PathsOf(ops) \cap PathsOf(theirs) # {}

\* Another stage holds a path, or a pre_hash is not what the server has.
Stale(ops) ==
  \/ PathsOf(ops) \cap PathsOf(theirs) # {}
  \/ \E i \in DOMAIN ops : ops[i].pre # Effective[ops[i].path]

ServePush ==
  /\ req.kind = "push"
  /\ LET ops == Unseen(req.ops) IN
       IF Stale(ops)
       THEN Reply("stale", HEAD) /\ UNCHANGED <<mine, seen>>
       ELSE /\ mine' = mine \o [i \in DOMAIN ops |-> [path |-> ops[i].path, data |-> ops[i].data]]
            /\ seen' = IF ops = << >> THEN seen ELSE Last(ops).seq
            /\ Reply("ok", HEAD)
  /\ req' = NoReq
  /\ UNCHANGED <<files, logs, book, sess, online, commits, theirs, rest>>

CommitMine ==
  IF mine = << >> THEN UNCHANGED commits ELSE commits' = Append(commits, Effective)

ServeFlush ==
  /\ req.kind = "flush"
  /\ CommitMine /\ mine' = << >>
  /\ Reply("flushed", Len(commits'))
  /\ req' = NoReq
  /\ UNCHANGED <<files, logs, book, sess, online, theirs, seen, rest>>

\* The stage scheduler commits; the author of the ops gets no broadcast.
OwnCommit ==
  /\ mine # << >>
  /\ CommitMine /\ mine' = << >>
  /\ UNCHANGED <<files, logs, book, sess, net, theirs, seen, rest>>

\* Accepted, but the client has not heard so.
Unheard == {staged[i].path : i \in {j \in DOMAIN staged : staged[j].seq <= seen}}

\* Two things a deletion by a peer does that no other change does.  A bootstrap
\* brings no deletions: what is deleted before an interrupted bootstrap is run
\* again stays with the client.  And a path that is absent once more matches the
\* pre_hash of an op that is still on its way.
PeerMayDelete(p) ==
  /\ p \in PeerDeletes /\ HeadTree[p] # Absent
  /\ \/ "deletes" \in Risks
     \/ base > 0 /\ \A i \in 1 .. HEAD : commits[i][p] # Absent

\* A peer that is up to date edits or deletes a file.
PeerStage(p) ==
  /\ edits < MaxEdits
  /\ p \notin PathsOf(mine) \cup PathsOf(theirs)
  /\ "rush" \in Risks \/ p \notin Unheard
  /\ \E c \in {Text(HeadTree[p]) \cup {edits + 1}}
                \cup {d \in {Absent} : PeerMayDelete(p)} :
       theirs' = Append(theirs, [path |-> p, data |-> c])
  /\ edits' = edits + 1
  /\ UNCHANGED <<files, logs, book, sess, net, commits, mine, seen, modes, drops, reemitted>>

\* A one-shot session that will read no more broadcasts.
Deaf ==
  /\ sess.pc # "off" /\ sess.mode \in OneShot
  /\ req.kind \notin {"hello", "push"} /\ sess.pc # "wantCast"

PeerCommit ==
  /\ theirs # << >>
  /\ "flush" \in Risks \/ ~Deaf
  /\ commits' = Append(commits, After(HeadTree, theirs))
  /\ chan' = IF online
             THEN Append(chan, [kind |-> "broadcast", head |-> HEAD + 1, ops |-> theirs])
             ELSE chan
  /\ theirs' = << >>
  /\ UNCHANGED <<files, logs, book, sess, online, req, mine, seen, rest>>
-----------------------------------------------------------------------------
ClientStep ==
  \/ Scan \/ Save \/ SendHello \/ RecvHello \/ RecvHelloFails
  \/ Apply \/ Replace \/ Rebase \/ DropT2 \/ Reemit
  \/ PushBatch \/ PushDone \/ RecvAck
  \/ AckRecord \/ AckAdvance \/ AckCopy \/ AckTrim
  \/ RetrySeamless \/ RetryHello \/ WaitForCast \/ RetryAfterCast \/ RecvCast
  \/ CastTimeout \/ RecvBroadcast \/ Trigger \/ Flush \/ RecvFlush
ServerStep ==
  \/ ServeHello \/ AnswerHello \/ ServePush \/ ServeFlush \/ OwnCommit \/ PeerCommit

Next ==
  \/ ClientStep \/ ServerStep
  \/ \E m \in modes : Start(m)
  \/ Leave \/ Disconnect \/ Crash
  \/ \E p \in Paths : UserEdit(p) \/ UserDelete(p) \/ StageEdit(p) \/ PeerStage(p)

Spec == Init /\ [][Next]_vars

\* The engine and the server work; a stage is committed in the end (HubVault);
\* the daemon connects again.
FairSpec ==
  /\ Spec
  /\ WF_vars(ClientStep)
  /\ WF_vars(ServeHello \/ AnswerHello \/ ServePush \/ ServeFlush)
  /\ WF_vars(OwnCommit) /\ WF_vars(PeerCommit)
  /\ WF_vars(Start("autosync"))
-----------------------------------------------------------------------------
\* What the manifest says of p is what the server had at the base, or later.
AtBase(p) ==
  \/ manifest[p] = Effective[p]
  \/ \E i \in base .. HEAD : manifest[p] = commits[i][p]

\* A T2 op is pushed once more when the manifest is not what it says, which is so
\* of each op before another of its path: an edit comes back that a deletion of
\* the user's has undone, or the deletion of a file that a peer made anew.
Redeleted == reemitted \cap UserDeletes

\* No file is left behind the base.  The server sends what changed after the
\* base and nothing else, so a file that is older than base.json says stays so
\* until someone edits it again.  Whatever order acks, broadcasts, retries,
\* crashes and the flush come in, base.json must not get ahead of the manifest.
\* (Ops whose ack is still to be heard are left out, so are the deletions pushed
\* once more, and the steps in which an older broadcast is on disk and not yet in
\* base.json.)
FilesAtBase ==
  base > 0 /\ ~Replaying =>
    \A p \in Paths \ (Unheard \cup Redeleted) : disk[p] # Absent => AtBase(p)

\* A live session with nothing to read and nothing staged has the server's
\* files: no interleaving of pushes and broadcasts leaves one out of date.
QuietMeansSame ==
  sess.pc = "live" /\ chan = << >> /\ staged = << >> =>
    \A p \in Paths \ Redeleted : disk[p] # Absent => manifest[p] = Effective[p]

\* No step of the client makes the server drop an edit that it holds, except
\* by deleting the file: a push that would was made on a tree that the client
\* has merged.  The T2 ops pushed once more, with the pre_hash they had, are not
\* held to it.
NoSilentOverwrite ==
  [][\A p \in Paths :
       Effective'[p] = Absent \/ Text(Effective[p]) \subseteq Text(Effective'[p])
       \/ reemitted # {}]_vars

EditsOf(ops) ==
  UNION {Text(ops[i].data) : i \in {j \in DOMAIN ops : ~ops[j].frozen}}
EditsAtServer ==
  UNION {UNION {Text(commits[i][p]) : p \in Paths} : i \in DOMAIN commits}
  \cup UNION {Text(Effective[p]) : p \in Paths}

\* An edit that was staged is never lost: it is in T1, in T2, in a stage or in
\* the history of the server, through every merge, retry and crash.  (An edit
\* that the user's deletion undid and that was pushed once more may go again.)
StagedEditsKept ==
  [][EditsOf(SelectSeq(staged, LAMBDA x : x.path \notin Redeleted))
       \subseteq EditsOf(staged') \cup EditsOf(acked')
                                \cup EditsAtServer']_vars

\* T1 is emptied over and over: lost acks, stale bases and peers that hold the
\* path delay a push and do not stop it.  What the server refuses for ever is
\* left out: a deletion that it has already, and a T2 op pushed once more.
Refused == reemitted # {} \/ \E i \in DOMAIN staged : staged[i].data = Absent
Held == \E i \in DOMAIN staged : staged[i].frozen

StagedIsPushed == <>[](~Refused /\ ~Held) => []<>(staged = << >>)
=============================================================================
