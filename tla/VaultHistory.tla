---------------------------- MODULE VaultHistory ----------------------------
(***************************************************************************)
(* The history of one vault: tag, review, revert, restore, publish and the *)
(* deletion of tags, log and diff, beside clients that push.               *)
(*                                                                         *)
(* Every request has a goroutine of its own, an element of calls.  What    *)
(* changes history goes through commitCh to runVaultCommitLoop and is done *)
(* there in one go under fileMu; only publish takes fileMu itself, and its *)
(* tag is a second request.  A user who is told "timed out" does not end   *)
(* the goroutine, and asking again starts another; so there are just calls.*)
(*                                                                         *)
(* A text is a number and 0 is no file.  Edits of one text never merge.    *)
(***************************************************************************)
EXTENDS Integers, SequencesExt, FiniteSetsExt

CONSTANTS
  Notes, Peers,   \* the files of the vault, the clients that are connected
  Names,          \* the names of tags
  Reviews,        \* the names of reviews, by attempt, all within one second
  MaxText,        \* bound: texts
  MaxAcks,        \* bound: ops that clients push
  MaxCommits,     \* bound: commits
  MaxCalls,       \* bound: requests
  PageSize,       \* the limit of a log request
  Gaps            \* the known defects that are let loose

NoName == ""   \* no path, no name, no tag

ASSUME GapsAssumption == Gaps \subseteq {"beside", "flush", "unknown"}
ASSUME ReviewsAssumption == Reviews \in Seq(STRING) /\ Len(Reviews) > 0
ASSUME NamesAssumption ==
  NoName \notin Notes \cup Names \cup Range(Reviews) /\ "nobody" \notin Peers
ASSUME HistoryBoundsAssumption == MaxText \in Nat /\ PageSize \in Nat \ {0}

VARIABLES
  commits,   \* git: the tree of each commit and the acked ops that it brought
  tags,      \* refs/tags: the commit of each name, or 0
  pending,   \* the stage of each client: at most one op, acked, not committed
  frames,    \* the broadcasts that a client has not read
  view,      \* the files of each client
  calls,     \* the requests, in the order they came
  queue,     \* commitCh
  acks       \* history: how many ops were acked

pushing == <<pending, acks>>
clients == <<frames, view>>
historyVars == <<commits, tags, pushing, clients, calls, queue>>

Texts == 0 .. MaxText
Trees == [Notes -> Texts]
EmptyTree == [p \in Notes |-> 0]
Unknown == -1   \* a commit that is not in the repository
NoPending == [path |-> NoName, text |-> 0, id |-> 0]
RefNames == Names \cup Range(Reviews)

HeadIndex == Len(commits)
HeadOf(cs) == Last(cs).tree
OpsUpTo(i) == UNION {commits[j].ops : j \in 1 .. i}

\* name: what is asked for, or the name of the attempt; commit: asked for or
\* answered, 0 for HEAD; ref: the tag that the answer names and nobody has
\* deleted since; upTo: the ops acked before the request; todo: the stages still
\* to flush; shown: the commits a log has shown.
Call(kind, at, name, commit) ==
  [kind |-> kind, at |-> at, name |-> name, commit |-> commit, pinned |-> commit # 0,
   ref |-> NoName, tree |-> EmptyTree, upTo |-> acks, todo |-> {}, shown |-> << >>, tries |-> 1]

HistoryInit ==
  /\ commits = <<[tree |-> EmptyTree, ops |-> {}]>>
  /\ tags = [n \in RefNames |-> 0]
  /\ pending = [c \in Peers |-> NoPending]
  /\ frames = [c \in Peers |-> << >>]
  /\ view = [c \in Peers |-> EmptyTree]
  /\ calls = << >> /\ queue = << >> /\ acks = 0
-----------------------------------------------------------------------------
(***************************************************************************)
(* Diffs, commits and what the clients hear of them                        *)
(***************************************************************************)
Overlaid(tree, changes) ==
  [p \in Notes |-> IF p \in DOMAIN changes THEN changes[p] ELSE tree[p]]

\* Faulty: what the new commit no longer has is left out.
ChangesNoDelete(from, to) == [p \in {q \in Notes : from[q] # to[q] /\ to[q] # 0} |-> to[p]]
Changes(from, to) == [p \in {q \in Notes : from[q] # to[q]} |-> to[p]]

Announce(changes, except) ==
  frames' = [c \in Peers |-> IF c = except THEN frames[c] ELSE Append(frames[c], changes)]

\* broadcastReverted: everyone hears of it, whoever asked.
Move(tree) ==
  /\ commits' = Append(commits, [tree |-> tree, ops |-> {}])
  /\ Announce(Changes(HeadOf(commits), tree), "nobody")

\* The stage of c becomes a commit, which c itself is not told of.
CommitPending(c) ==
  LET op == pending[c]
      changes == [p \in {op.path} |-> op.text]
      tree == Overlaid(HeadOf(commits), changes) IN
  IF op = NoPending THEN UNCHANGED <<commits, pending, frames>>
  ELSE /\ commits' = IF tree = HeadOf(commits)
                     THEN [commits EXCEPT ![HeadIndex].ops = @ \cup {op.id}]
                     ELSE Append(commits, [tree |-> tree, ops |-> {op.id}])
       /\ pending' = [pending EXCEPT ![c] = NoPending]
       /\ Announce(changes, c)

PushOp(c, p, text) ==
  /\ acks < MaxAcks /\ HeadIndex + Cardinality({d \in Peers : pending[d] # NoPending}) < MaxCommits
  /\ frames[c] = << >> /\ pending[c] = NoPending
  /\ \A d \in Peers : pending[d].path # p
  /\ view[c][p] = HeadOf(commits)[p] /\ text # view[c][p]
  /\ acks' = acks + 1
  /\ pending' = [pending EXCEPT ![c] = [path |-> p, text |-> text, id |-> acks + 1]]
  /\ view' = [view EXCEPT ![c][p] = text]
  /\ UNCHANGED <<commits, tags, frames, calls, queue>>

CommitStage(c) ==
  /\ pending[c] # NoPending
  /\ CommitPending(c)
  /\ UNCHANGED <<tags, acks, view, calls, queue>>

Recv(c) ==
  /\ frames[c] # << >>
  /\ view' = [view EXCEPT ![c] = Overlaid(@, Head(frames[c]))]
  /\ frames' = [frames EXCEPT ![c] = Tail(@)]
  /\ UNCHANGED <<commits, tags, pushing, calls, queue>>
-----------------------------------------------------------------------------
(***************************************************************************)
(* The requests that change history                                        *)
(***************************************************************************)
Submit(call) ==
  /\ Len(calls) < MaxCalls
  /\ calls' = Append(calls, call)
  /\ queue' = Append(queue, Len(calls) + 1)
  /\ UNCHANGED <<commits, tags, pushing, clients>>

KnownCommits == 1 .. HeadIndex
Listed(name) == tags[name] \in KnownCommits
Targets == {0} \cup KnownCommits \cup (IF "unknown" \in Gaps THEN {Unknown} ELSE {})

SubmitTag == \E n \in Names, k \in Targets : Submit(Call("tag", "queued", n, k))
SubmitReview == \E k \in Targets : Submit(Call("review", "queued", Reviews[1], k))
SubmitRevert == \E k \in KnownCommits : Submit(Call("revert", "queued", NoName, k))
SubmitRestore == \E k \in KnownCommits : Submit(Call("restore", "queued", NoName, k))
SubmitDeleteTag == \E n \in RefNames : Submit(Call("untag", "queued", n, 0))
SubmitDeleteTagsByCommit == \E k \in KnownCommits : Submit(Call("untag", "queued", NoName, k))

\* What was answered, for call i, of which the queue is rid.
Answer(i, call) ==
  /\ calls' = [calls EXCEPT ![i] = call]
  /\ queue' = Tail(queue)

\* GitStore.Tag: a name that is taken by another commit stays there.
\* Faulty: it is moved.
TaggedAnyway(name, k) == TRUE
Taggable(name, k) == tags[name] \in {0, k}

HandleTag(i) ==
  LET call == calls[i]
      k == IF call.commit = 0 THEN HeadIndex ELSE call.commit IN
  /\ call.kind \in {"tag", "review"}
  /\ "flush" \in Gaps \/ call.pinned \/ \A c \in Peers : pending[c] = NoPending
  /\ IF Taggable(call.name, k)
     THEN /\ tags' = [tags EXCEPT ![call.name] = k]
          /\ Answer(i, [call EXCEPT !.at = "told", !.ref = call.name, !.commit = k])
     ELSE /\ UNCHANGED tags   \* handleReview tries the name of the next second
          /\ Answer(i, IF call.kind = "review" /\ call.tries < Len(Reviews)
                       THEN [call EXCEPT !.at = "again", !.tries = @ + 1,
                                         !.name = Reviews[call.tries + 1]]
                       ELSE [call EXCEPT !.at = "refused"])
  /\ UNCHANGED <<commits, pushing, clients>>

\* The next attempt of a review, and the tag of what a publish has committed.
Resubmit(i) ==
  /\ calls[i].at = "again"
  /\ calls' = [calls EXCEPT ![i].at = "queued", ![i].kind = IF @ = "publish" THEN "tag" ELSE @]
  /\ queue' = Append(queue, i)
  /\ UNCHANGED <<commits, tags, pushing, clients>>

\* DeleteTag and DeleteTagsAtCommit.
Removed(call) ==
  {n \in RefNames : /\ tags[n] # 0
                    /\ IF call.name # NoName THEN n = call.name ELSE tags[n] = call.commit}

HandleUntag(i) ==
  LET call == calls[i]
      removed == Removed(call) IN
  /\ call.kind = "untag"
  /\ tags' = [n \in RefNames |-> IF n \in removed THEN 0 ELSE tags[n]]
  /\ calls' = [j \in DOMAIN calls |->
                 IF j = i THEN [call EXCEPT !.at = "told"]
                 ELSE IF calls[j].ref \in removed THEN [calls[j] EXCEPT !.ref = NoName]
                                                  ELSE calls[j]]
  /\ queue' = Tail(queue)
  /\ UNCHANGED <<commits, pushing, clients>>

\* git revert: the change from the parent to k is taken out of HEAD.
ParentTree(k) == IF k = 1 THEN EmptyTree ELSE commits[k - 1].tree
Undone(k) == Changes(commits[k].tree, ParentTree(k))
RevertConflicts(k) ==
  {p \in DOMAIN Undone(k) : HeadOf(commits)[p] \notin {commits[k].tree[p], ParentTree(k)[p]}}
Reverted(k) == Overlaid(HeadOf(commits), Undone(k))

\* That nothing is pending for a path whose content moves away under it.
NothingBeside(tree) ==
  "beside" \in Gaps \/
    \A c \in Peers : pending[c].path \notin DOMAIN Changes(HeadOf(commits), tree)

HandleRevert(i) ==
  LET call == calls[i]
      tree == Reverted(call.commit) IN
  /\ call.kind = "revert"
  /\ IF RevertConflicts(call.commit) # {} \/ tree = HeadOf(commits)   \* "nothing to commit"
     THEN /\ Answer(i, [call EXCEPT !.at = "refused"])
          /\ UNCHANGED <<commits, frames>>
     ELSE /\ HeadIndex < MaxCommits /\ NothingBeside(tree)
          /\ Move(tree)
          /\ Answer(i, [call EXCEPT !.at = "told"])
  /\ UNCHANGED <<tags, pushing, view>>

\* git read-tree; git commit --allow-empty.
Restored(k) == commits[k].tree

HandleRestore(i) ==
  LET call == calls[i]
      tree == Restored(call.commit) IN
  /\ call.kind = "restore"
  /\ HeadIndex < MaxCommits /\ NothingBeside(tree)
  /\ Move(tree)
  /\ Answer(i, [call EXCEPT !.at = "told"])
  /\ UNCHANGED <<tags, pushing, view>>

\* handleCommitRequest, for the request at the head of commitCh.
HandleCommitRequest ==
  /\ queue # << >>
  /\ LET i == Head(queue) IN
     HandleTag(i) \/ HandleUntag(i) \/ HandleRevert(i) \/ HandleRestore(i)

\* The commit that a publish tags is the one it has made ...
\* Faulty: ... is left to the commit loop.
PublishedNow(commit) == 0
Published(commit) == commit

\* hub.Publish: the ops from HEAD to the tree, if there are any, are committed.
PublishTree(tree) ==
  IF tree = HeadOf(commits)
  THEN UNCHANGED <<commits, frames>>
  ELSE HeadIndex < MaxCommits /\ NothingBeside(tree) /\ Move(tree)

Publish ==
  \E tree \in Trees, name \in Names \cup {NoName} :
    LET commit == IF tree = HeadOf(commits) THEN HeadIndex ELSE HeadIndex + 1
        call == Call("publish", IF name = NoName THEN "told" ELSE "again", name, Published(commit)) IN
    /\ Len(calls) < MaxCalls
    /\ PublishTree(tree)
    /\ calls' = Append(calls, [call EXCEPT !.tree = tree, !.pinned = TRUE])
    /\ UNCHANGED <<tags, pushing, view, queue>>
-----------------------------------------------------------------------------
(***************************************************************************)
(* The requests that read history: the stages are flushed one by one, with *)
(* fileMu free in between, and then git is read.                           *)
(***************************************************************************)
Read(kind) ==
  /\ Len(calls) < MaxCalls
  /\ calls' = Append(calls, [Call(kind, "flush", NoName, 0) EXCEPT !.todo = Peers])
  /\ UNCHANGED <<commits, tags, pushing, clients, queue>>

FlushOne(i) ==
  /\ calls[i].at = "flush"
  /\ \E c \in calls[i].todo :
       /\ CommitPending(c)
       /\ calls' = [calls EXCEPT ![i].todo = @ \ {c}]
  /\ UNCHANGED <<tags, acks, view, queue>>

\* The page of a log behind the last commit that was shown.
Page(shown) ==
  LET top == IF shown = << >> THEN HeadIndex ELSE Last(shown) - 1 IN
  [j \in 1 .. Min({PageSize, top}) |-> top + 1 - j]

\* The user goes on until a page is not full; each is a request of its own.
Log(i) ==
  LET page == Page(calls[i].shown) IN
  /\ calls[i].kind = "log" /\ calls[i].at = "flush" /\ calls[i].todo = {}
  /\ calls' = [calls EXCEPT ![i].shown = @ \o page,
                            ![i].at = IF Len(page) < PageSize THEN "told" ELSE @,
                            ![i].todo = IF Len(page) < PageSize THEN {} ELSE Peers]
  /\ UNCHANGED <<commits, tags, pushing, clients, queue>>

\* From the review of the latest commit, or the first commit, to HEAD.
Diff(i) ==
  LET reviewed == {tags[n] : n \in {m \in Range(Reviews) : Listed(m)}} IN
  /\ calls[i].kind = "diff" /\ calls[i].at = "flush" /\ calls[i].todo = {}
  /\ calls' = [calls EXCEPT ![i].at = "told",
                 ![i].shown = <<HeadIndex, IF reviewed = {} THEN 1 ELSE Max(reviewed)>>]
  /\ UNCHANGED <<commits, tags, pushing, clients, queue>>
-----------------------------------------------------------------------------
Request ==
  \/ SubmitTag \/ SubmitReview \/ SubmitRevert \/ SubmitRestore
  \/ SubmitDeleteTag \/ SubmitDeleteTagsByCommit
  \/ Publish \/ Read("log") \/ Read("diff")
ClientStep(c) ==
  \/ \E p \in Notes, text \in Texts : PushOp(c, p, text)
  \/ CommitStage(c) \/ Recv(c)
HistoryNext ==
  \/ Request
  \/ HandleCommitRequest
  \/ \E i \in DOMAIN calls : Resubmit(i) \/ FlushOne(i) \/ Log(i) \/ Diff(i)
  \/ \E c \in Peers : ClientStep(c)

HistorySpec == HistoryInit /\ [][HistoryNext]_historyVars
-----------------------------------------------------------------------------
(***************************************************************************)
(* Correctness                                                             *)
(***************************************************************************)

\* What HEAD and the stage of the client make of the file.
Due(c, p) == IF p = pending[c].path THEN pending[c].text ELSE HeadOf(commits)[p]

\* The frames under way that say something of the file; the last one counts.
News(c, p) == {i \in DOMAIN frames[c] : p \in DOMAIN frames[c][i]}
Follows(c, p) ==
  IF News(c, p) = {} THEN view[c][p] = Due(c, p)
  ELSE \A i \in News(c, p) :
         (\A j \in News(c, p) : j <= i) => frames[c][i][p] = Due(c, p)

\* Once a client has read its frames, its files are what HEAD and its own stage
\* make: it hears of every commit that is not its own, from whomever it comes.
ViewsFollowHead == \A c \in Peers, p \in Notes : Follows(c, p)

\* What was answered holds.  A tag is listed, at the commit that was answered,
\* until it is deleted; that commit is the one asked for: the publish's own, or a
\* HEAD with all that was acked before the request.  A log that was read page by
\* page has every commit up to its first, once and in order, and with a diff it
\* has all that was acked before the request.
TagHolds(call) ==
  LET k == tags[call.ref] IN
  /\ Listed(call.ref) /\ k = call.commit
  /\ call.tree # EmptyTree => commits[k].tree = call.tree
  /\ ~call.pinned => 1 .. call.upTo \subseteq OpsUpTo(k)
LogHolds(call) ==
  /\ 1 .. call.upTo \subseteq OpsUpTo(call.shown[1])
  /\ call.kind = "log" =>
       call.shown = [j \in 1 .. call.shown[1] |-> call.shown[1] + 1 - j]
AnswersHold ==
  \A i \in DOMAIN calls :
    /\ calls[i].ref # NoName => TagHolds(calls[i])
    /\ calls[i].kind \in {"log", "diff"} /\ calls[i].at = "told" => LogHolds(calls[i])
-----------------------------------------------------------------------------
(***************************************************************************)
(* Why: HistoryInv is the inductive invariant                              *)
(***************************************************************************)
Commits == [tree : Trees, ops : SUBSET Nat]
StagedOps == [path : Notes \cup {NoName}, text : Texts, id : Nat]
Frames == UNION {[S -> Texts] : S \in SUBSET Notes}
Calls ==
  [kind : {"tag", "review", "revert", "restore", "untag", "publish", "log", "diff"},
   at : {"queued", "again", "flush", "told", "refused"},
   name : RefNames \cup {NoName}, commit : Nat, pinned : BOOLEAN,
   ref : RefNames \cup {NoName}, tree : Trees, upTo : Nat, todo : SUBSET Peers,
   shown : Seq(Nat), tries : Nat \ {0}]

HistoryTypeOK ==
  /\ commits \in Seq(Commits) /\ commits # << >>
  /\ tags \in [RefNames -> Nat] /\ acks \in Nat
  /\ pending \in [Peers -> StagedOps]
  /\ frames \in [Peers -> Seq(Frames)] /\ view \in [Peers -> Trees]
  /\ calls \in Seq(Calls)
  /\ queue \in Seq(Nat) /\ \A n \in DOMAIN queue : queue[n] \in DOMAIN calls

\* An acked op is committed or the only one that is pending for its file.
AckedOnce ==
  /\ \A c \in Peers : pending[c] # NoPending =>
       /\ pending[c].path \in Notes /\ pending[c].id \in 1 .. acks
       /\ \A d \in Peers \ {c} : pending[d].path # pending[c].path
  /\ \A n \in 1 .. acks :
       n \in OpsUpTo(HeadIndex) \/ \E c \in Peers : pending[c].id = n

\* A commit that a call names exists, has the tree that was published and, if it
\* was HEAD to the call, what was acked before; the tag of the call is at it.
NamesCommit(i) ==
  LET call == calls[i] IN
  /\ call.commit <= HeadIndex /\ call.upTo <= acks
  /\ call.kind \in {"tag", "review"} \/ call.at = "again" => call.name # NoName
  /\ call.kind \in {"revert", "restore"} => call.commit # 0
  /\ call.tree # EmptyTree => call.commit # 0 /\ commits[call.commit].tree = call.tree
  /\ ~call.pinned /\ call.commit # 0 => 1 .. call.upTo \subseteq OpsUpTo(call.commit)
  /\ call.ref # NoName => /\ call.kind \in {"tag", "review"}
                         /\ call.commit # 0 /\ tags[call.ref] = call.commit

\* A reader has still to flush the stages with ops from before it.  What a log has
\* shown is a part of history that begins with all that was acked before.
ShowsHistory(i) ==
  LET call == calls[i]
      shown == call.shown IN
  call.kind \in {"log", "diff"} =>
    /\ call.at \in {"flush", "told"}
    /\ call.at = "flush" /\ shown = << >> =>
         \A c \in Peers : pending[c].id \in 1 .. call.upTo => c \in call.todo
    /\ shown # << >> => /\ shown[1] \in 1 .. HeadIndex
                       /\ 1 .. call.upTo \subseteq OpsUpTo(shown[1])
    /\ call.kind = "log" /\ shown # << >> =>
         /\ Len(shown) <= shown[1]
         /\ \A j \in 1 .. Len(shown) : shown[j] = shown[1] + 1 - j
    /\ call.at = "told" =>
         shown # << >> /\ (call.kind = "log" => Len(shown) = shown[1])

HistoryInv ==
  /\ HistoryTypeOK /\ AckedOnce /\ ViewsFollowHead
  /\ \A i \in DOMAIN calls : NamesCommit(i) /\ ShowsHistory(i)
=============================================================================
