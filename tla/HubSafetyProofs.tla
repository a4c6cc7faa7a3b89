-------------------------- MODULE HubSafetyProofs --------------------------
(***************************************************************************)
(* The other safety properties of a vault, each for every choice of the    *)
(* constants:                                                              *)
(*   - at most one client's stage holds ops for a path, whatever fails     *)
(*     (PathInv is the inductive invariant: a stage also contains what the *)
(*     log holds for its client, so that the stages a replay rebuilds are  *)
(*     parts of ones that did not overlap);                                *)
(*   - nobody connected misses a commit, whatever fails (HeardInv);        *)
(*   - an op is accepted once, as long as the idempotency cache keeps up   *)
(*     with the log (OnceInv);                                             *)
(*   - a publish commits the tree it was asked for, whatever fails         *)
(*     (PublishInv).                                                       *)
(***************************************************************************)
EXTENDS HubDurabilityProofs

\* The paths of a sequence of ops that grows by one.
LEMMA TouchedAppend ==
  ASSUME NEW s \in Seq(Ops), NEW x \in Ops
  PROVE  TouchedBy(Append(s, x)) = TouchedBy(s) \cup Touched(x)
<1>1. /\ Len(Append(s, x)) = Len(s) + 1 /\ Append(s, x)[Len(s) + 1] = x
      /\ \A i \in 1..Len(s) : Append(s, x)[i] = s[i]
      /\ DOMAIN Append(s, x) = 1..(Len(s) + 1) /\ DOMAIN s = 1..Len(s) /\ Len(s) \in Nat
  BY AppendProperties, LenProperties
<1>2. 1..(Len(s) + 1) = 1..Len(s) \cup {Len(s) + 1}
  BY <1>1
<1>3. \A q : q \in TouchedBy(Append(s, x)) <=> q \in TouchedBy(s) \/ q \in Touched(x)
  BY <1>1, <1>2 DEF TouchedBy
<1> QED
  BY <1>3

\* No path is in no op.
LEMMA TouchedEmpty == TouchedBy(<< >>) = {}
BY DEF TouchedBy

\* The paths of an op are among those of the sequence it is in.
LEMMA TouchedMember ==
  ASSUME NEW s, NEW i \in DOMAIN s
  PROVE  Touched(s[i]) \subseteq TouchedBy(s)
BY DEF TouchedBy
-----------------------------------------------------------------------------
\* The batch on the wire keeps its order.
LEMMA AscendingStep ==
  ASSUME TypeOK, SentAscending, [Next]_vars
  PROVE  SentAscending'
<1> SUFFICES ASSUME NEW c \in Clients
             PROVE  \A i, j \in DOMAIN sent'[c] : i < j => sent'[c][i].seq < sent'[c][j].seq
  BY DEF SentAscending
<1>1. CASE sent'[c] = sent[c]
  BY <1>1 DEF SentAscending
<1>2. CASE sent'[c] = << >>
  BY <1>2
<1>3. CASE NewBatch(c)
  BY <1>3, NewBatchSeqs
<1> QED
  BY <1>1, <1>2, <1>3, SentStep

\* What a step does to a client's stage and, at the same time, to the paths
\* the log holds for it: one op of the batch goes to the stage and at most to
\* the log; the stage stays and the log loses entries; the stage is reset at
\* the end of its commit; the vault goes down; a replay.
Grows(c) ==
  /\ Appending(c) /\ up' = up
  /\ stages' = [stages EXCEPT ![c] = Append(@, sent[c][proc.i])]
  /\ LoggedPaths(c)' \subseteq LoggedPaths(c) \cup Touched(sent[c][proc.i])

Keeps(c) ==
  /\ stages'[c] = stages[c] /\ (up' # "down" => up # "down")
  /\ LoggedPaths(c)' \subseteq LoggedPaths(c)

Resets(c) ==
  /\ proc.at = "persist" /\ proc.who = c
  /\ stages'[c] = << >> /\ LoggedPaths(c)' = LoggedPaths(c)

Loses(c) ==
  /\ up' = "down" /\ stages'[c] = << >>
  /\ LoggedPaths(c)' \subseteq LoggedPaths(c)

Replays(c) ==
  /\ Hydrate /\ stages'[c] = wal[c] /\ LoggedPaths(c)' = LoggedPaths(c)

LEMMA PathStep ==
  ASSUME TypeOK, HandlersUp, [Next]_vars, NEW c \in Clients
  PROVE  Grows(c) \/ Keeps(c) \/ Resets(c) \/ Loses(c) \/ Replays(c)
<1> USE DEF store, walVars, cache, sessions, clients, history, bounds, LoggedPaths
<1>1. c \in Committers /\ c # Publisher
  BY ClientsAssumption DEF Committers
<1>2. ASSUME NEW d \in Clients,
             NewBatch(d) \/ Hello(d) \/ Disconnect(d) \/ PushDuplicate(d) \/ PushRefused(d)
             \/ PushAccept(d) \/ PushAck(d) \/ BeginCommit(d)
      PROVE  Keeps(c)
  BY <1>2 DEF NewBatch, Hello, Disconnect, PushDuplicate, PushRefused, PushAccept, PushAck,
              BeginCommit, Keeps
<1>3. ASSUME NEW d \in Clients, AppendOp(d) \/ AppendFails(d)
      PROVE  Grows(c) \/ Keeps(c)
  <2>1. /\ Appending(d) /\ up' = up
        /\ stages' = [stages EXCEPT ![d] = Append(@, sent[d][proc.i])]
    BY <1>3 DEF AppendOp, AppendFails
  <2>2. sent[d][proc.i] \in Ops /\ wal[d] \in Seq(Ops) /\ log[d] \in Seq(Ops)
    BY <2>1, AppendingType DEF TypeOK
  <2>3. WalAppend(d, sent[d][proc.i]) \/ UNCHANGED <<wal, log>>
    BY <1>3 DEF AppendOp, AppendFails
  <2>4. CASE d = c
    <3>1. /\ log'[c] \in {log[c], Append(log[c], sent[c][proc.i])}
          /\ wal'[c] \in {wal[c], log'[c]}
      BY <2>3, <2>4 DEF WalAppend, TypeOK
    <3>2. TouchedBy(Append(log[c], sent[c][proc.i]))
            = TouchedBy(log[c]) \cup Touched(sent[c][proc.i])
      BY <2>2, <2>4, TouchedAppend
    <3>3. LoggedPaths(c)' \subseteq LoggedPaths(c) \cup Touched(sent[c][proc.i])
      BY <3>1, <3>2
    <3> QED
      BY <2>1, <2>4, <3>3 DEF Grows
  <2>5. CASE d # c
    <3>1. log'[c] = log[c] /\ wal'[c] \in {wal[c], log'[c]}
      BY <2>3, <2>5 DEF WalAppend, TypeOK
    <3>2. stages'[c] = stages[c]
      BY <1>1, <2>1, <2>5 DEF TypeOK
    <3> QED
      BY <2>1, <3>1, <3>2 DEF Keeps
  <2> QED
    BY <2>4, <2>5
<1>4. CASE \/ ApplyOp \/ GitCommit \/ Restore \/ (UNCHANGED vars)
           \/ (\E idlers \in SUBSET Clients : IdemTick(idlers))
  BY <1>4 DEF ApplyOp, GitCommit, Restore, IdemTick, vars, Keeps
<1>5. CASE HydrateDone
  BY <1>5 DEF HydrateDone, Keeps
<1>6. ASSUME NEW t \in Desired, Publish(t) PROVE Keeps(c)
  BY <1>1, <1>6 DEF Publish, Keeps, TypeOK
<1>7. ASSUME NEW k \in Committers
      PROVE  TouchedBy(Kept(k)[c]) \subseteq TouchedBy(log[c])
  BY <1>7, TouchedEmpty DEF Kept, TypeOK
<1>8. CASE TruncateClient
  <2>1. wal' = Kept(proc.who) /\ log' = wal' /\ UNCHANGED <<stages, up>>
    BY <1>8 DEF TruncateClient
  <2>2. proc.who \in Committers
    BY DEF TypeOK
  <2> QED
    BY <1>7, <2>1, <2>2 DEF Keeps
<1>9. ASSUME NEW h, Abandon(h), wal' = wal \/ wal' = Kept(proc.who), proc.at # "idle"
      PROVE  Keeps(c) \/ Loses(c)
  <2>1. TouchedBy(wal'[c]) \subseteq LoggedPaths(c)
    BY <1>7, <1>9 DEF TypeOK
  <2>2. CASE up = "hydrating"
    BY <1>1, <1>9, <2>1, <2>2 DEF Abandon, Drop, Loses
  <2>3. CASE up # "hydrating"
    <3>1. log' = log /\ up' = up /\ stages'[c] = stages[c]
      BY <1>1, <1>9, <2>3 DEF Abandon, TypeOK
    <3> QED
      BY <2>1, <3>1 DEF Keeps
  <2> QED
    BY <2>2, <2>3
<1>10. CASE ApplyFails \/ TruncateFails
  <2>1. proc.at # "idle" /\ (wal' = wal \/ wal' = Kept(proc.who)) /\ \E h : Abandon(h)
    BY <1>10 DEF ApplyFails, TruncateFails
  <2> QED
    BY <1>9, <2>1
<1>11. CASE FinishCommit
  <2>1. /\ proc.at = "persist" /\ wal' = wal /\ log' = log /\ up' = up
        /\ stages' = [stages EXCEPT ![proc.who] = << >>]
    BY <1>11 DEF FinishCommit
  <2> QED
    BY <1>1, <2>1 DEF Keeps, Resets, TypeOK
<1>12. CASE Crash \/ Evict
  BY <1>1, <1>12 DEF Crash, Evict, Drop, Loses
<1>13. CASE Hydrate
  BY <1>1, <1>13 DEF Hydrate, Replays
<1> QED
  BY <1>2, <1>3, <1>4, <1>5, <1>6, <1>8, <1>10, <1>11, <1>12, <1>13
  DEF Next, ClientStep, PushStep, CommitStep

\* What the log holds for a client stays part of its stage while the vault is
\* up, and two clients' logs keep apart.
LEMMA LoggedStep ==
  ASSUME TypeOK, PathInv, [Next]_vars, OneStagePerPath'
  PROVE  LogsDisjoint'
<1> USE DEF PathInv
<1>1. ASSUME NEW c \in Clients, up' # "down"
      PROVE  LoggedPaths(c)' \subseteq TouchedBy(stages'[c])
  <2>1. CASE Grows(c)
    <3>1. up # "down" /\ c \in Committers /\ sent[c][proc.i] \in Ops
      BY <2>1, AppendingType DEF Grows, HandlersUp, Appending, Committers
    <3>2. stages[c] \in Seq(Ops) /\ stages'[c] = Append(stages[c], sent[c][proc.i])
      BY <2>1, <3>1 DEF Grows, TypeOK
    <3>3. LoggedPaths(c) \subseteq TouchedBy(stages[c])
      BY <3>1 DEF LogsDisjoint
    <3> QED
      BY <2>1, <3>1, <3>2, <3>3, TouchedAppend DEF Grows
  <2>2. CASE Keeps(c)
    BY <1>1, <2>2 DEF Keeps, LogsDisjoint
  <2>3. CASE Resets(c)
    BY <2>3 DEF Resets, LogsDisjoint
  <2>4. CASE Loses(c)
    BY <1>1, <2>4 DEF Loses
  <2>5. CASE Replays(c)
    <3>1. LoggedPaths(c) = TouchedBy(wal[c])
      BY <2>5 DEF Replays, Hydrate, LogsDisjoint, LoggedPaths
    <3> QED
      BY <2>5, <3>1 DEF Replays
  <2> QED
    BY <2>1, <2>2, <2>3, <2>4, <2>5, PathStep
<1>2. ASSUME NEW c \in Clients, NEW d \in Clients, c # d
      PROVE  LoggedPaths(c)' \cap LoggedPaths(d)' = {}
  <2>1. CASE up' # "down"
    <3>1. TouchedBy(stages'[c]) \cap TouchedBy(stages'[d]) = {}
      BY <1>2 DEF OneStagePerPath
    <3> QED
      BY <1>1, <2>1, <3>1
  <2>2. CASE up' = "down"
    <3>1. ASSUME NEW e \in Clients PROVE LoggedPaths(e)' \subseteq LoggedPaths(e)
      <4>1. ~Grows(e)
        BY <2>2 DEF Grows, Appending, HandlersUp
      <4> QED
        BY <4>1, PathStep DEF Keeps, Resets, Loses, Replays
    <3>2. LoggedPaths(c) \cap LoggedPaths(d) = {}
      BY <1>2 DEF LogsDisjoint
    <3> QED
      BY <3>1, <3>2
  <2> QED
    BY <2>1, <2>2
<1>3. up' = "down" => log' = wal'
  <2> USE DEF store, walVars, cache, sessions, clients, history, bounds
  <2>1. ASSUME NEW c \in Clients,
               NewBatch(c) \/ Hello(c) \/ Disconnect(c) \/ PushDuplicate(c) \/ PushRefused(c)
               \/ PushAccept(c) \/ PushAck(c) \/ BeginCommit(c)
        PROVE  UNCHANGED <<up, log, wal>>
    BY <2>1 DEF NewBatch, Hello, Disconnect, PushDuplicate, PushRefused, PushAccept, PushAck,
                BeginCommit
  <2>2. ASSUME NEW c \in Clients, AppendOp(c) \/ AppendFails(c)
        PROVE  up' # "down"
    BY <2>2 DEF AppendOp, AppendFails, Appending, HandlersUp
  <2>3. CASE \/ ApplyOp \/ GitCommit \/ Restore \/ FinishCommit \/ (UNCHANGED vars)
             \/ (\E t \in Desired : Publish(t))
             \/ (\E idlers \in SUBSET Clients : IdemTick(idlers))
    BY <2>3 DEF ApplyOp, GitCommit, Restore, FinishCommit, Publish, IdemTick, vars,
                LogsDisjoint
  <2>4. CASE ApplyFails \/ TruncateFails
    <3>1. proc.at # "idle" /\ \E h : Abandon(h)
      BY <2>4 DEF ApplyFails, TruncateFails
    <3> QED
      BY <3>1 DEF Abandon, Drop, HandlersUp
  <2>5. CASE TruncateClient \/ Hydrate \/ HydrateDone \/ Crash \/ Evict
    BY <2>5 DEF TruncateClient, Hydrate, HydrateDone, Crash, Evict, Drop
  <2> QED
    BY <2>1, <2>2, <2>3, <2>4, <2>5 DEF Next, ClientStep, PushStep, CommitStep, LogsDisjoint
<1>4. proc'.at = "persist" /\ proc'.who \in Clients
        => TouchedBy(wal'[proc'.who]) \cup TouchedBy(log'[proc'.who]) = {}
  <2> USE DEF store, walVars, cache, sessions, clients, history, bounds, At, Idle
  <2>1. ASSUME NEW c \in Clients,
               NewBatch(c) \/ Hello(c) \/ Disconnect(c) \/ PushDuplicate(c) \/ PushRefused(c)
        PROVE  UNCHANGED <<proc, log, wal>>
    BY <2>1 DEF NewBatch, Hello, Disconnect, PushDuplicate, PushRefused
  <2>2. ASSUME NEW c \in Clients,
               PushAccept(c) \/ AppendOp(c) \/ AppendFails(c) \/ PushAck(c) \/ BeginCommit(c)
        PROVE  proc'.at # "persist"
    <3>1. CASE PushAccept(c)
      BY <3>1 DEF PushAccept
    <3>2. CASE AppendOp(c)
      BY <3>2 DEF AppendOp
    <3>3. CASE AppendFails(c) \/ PushAck(c) \/ BeginCommit(c)
      BY <3>3 DEF AppendFails, PushAck, BeginCommit
    <3> QED
      BY <2>2, <3>1, <3>2, <3>3
  <2>3. CASE \/ ApplyOp \/ ApplyFails \/ GitCommit \/ TruncateFails \/ FinishCommit \/ Crash
             \/ Evict \/ (\E t \in Desired : Publish(t))
    BY <2>3 DEF ApplyOp, ApplyFails, GitCommit, TruncateFails, Abandon, Drop, FinishCommit,
                Crash, Evict, Publish
  <2>4. CASE TruncateClient
    <3>1. proc'.who = proc.who /\ wal' = Kept(proc.who) /\ log' = wal'
      BY <2>4 DEF TruncateClient
    <3> QED
      BY <3>1, TouchedEmpty DEF Kept, TypeOK
  <2>5. CASE \/ Restore \/ Hydrate \/ HydrateDone \/ (UNCHANGED vars)
             \/ (\E idlers \in SUBSET Clients : IdemTick(idlers))
    <3>1. UNCHANGED <<proc, log, wal>>
      BY <2>5 DEF Restore, Hydrate, HydrateDone, IdemTick, vars
    <3> QED
      BY <3>1 DEF LogsDisjoint, LoggedPaths
  <2> QED
    BY <2>1, <2>2, <2>3, <2>4, <2>5
    DEF Next, ClientStep, PushStep, CommitStep, LogsDisjoint, LoggedPaths
<1> QED
  BY <1>1, <1>2, <1>3, <1>4 DEF LogsDisjoint, LoggedPaths

\* A batch is appended to one stage at a time, clear of all others.
LEMMA OneStageStep ==
  ASSUME TypeOK, PathInv, [Next]_vars
  PROVE  OneStagePerPath'
<1> USE DEF PathInv
<1> SUFFICES ASSUME NEW c \in Clients, NEW d \in Clients, c # d
             PROVE  TouchedBy(stages'[c]) \cap TouchedBy(stages'[d]) = {}
  BY DEF OneStagePerPath
<1>1. CASE Replays(c) \/ Replays(d)
  <2>1. ASSUME NEW e \in Clients PROVE stages'[e] = wal[e]
    <3>1. Hydrate /\ e \in Committers
      BY <1>1 DEF Replays, Committers
    <3> QED
      BY <3>1 DEF Hydrate
  <2>2. LoggedPaths(c) \cap LoggedPaths(d) = {}
    BY DEF LogsDisjoint
  <2> QED
    BY <2>1, <2>2 DEF LoggedPaths
<1>2. CASE ~Replays(c) /\ ~Replays(d)
  <2>1. ASSUME NEW e \in Clients, ~Replays(e)
        PROVE  \/ TouchedBy(stages'[e]) \subseteq TouchedBy(stages[e])
               \/ /\ Appending(e)
                  /\ TouchedBy(stages'[e])
                       = TouchedBy(stages[e]) \cup Touched(sent[e][proc.i])
    <3>1. CASE Grows(e)
      <4>1. stages[e] \in Seq(Ops) /\ stages'[e] = Append(stages[e], sent[e][proc.i])
        BY <3>1 DEF Grows, TypeOK, Committers
      <4>2. sent[e][proc.i] \in Ops /\ Appending(e)
        BY <3>1, AppendingType DEF Grows
      <4> QED
        BY <4>1, <4>2, TouchedAppend
    <3> QED
      BY <2>1, <3>1, PathStep, TouchedEmpty DEF Keeps, Resets, Loses
  <2>2. TouchedBy(stages[c]) \cap TouchedBy(stages[d]) = {}
    BY DEF OneStagePerPath
  <2>3. ASSUME NEW e \in Clients, NEW f \in Clients, e # f, Appending(e)
        PROVE  ~Appending(f) /\ Touched(sent[e][proc.i]) \cap TouchedBy(stages[f]) = {}
    <3>1. proc.at = "append" /\ proc.who = e /\ proc.i \in DOMAIN sent[e] /\ proc.i \in Nat
      BY <2>3, AppendingType, LenProperties DEF Appending, TypeOK
    <3>2. \A i \in DOMAIN sent[e] :
            i >= proc.i => Touched(sent[e][i]) \cap TouchedBy(stages[f]) = {}
      BY <2>3, <3>1 DEF AppendingClear
    <3>3. proc.i >= proc.i
      BY <3>1
    <3>4. ~Appending(f)
      BY <2>3, <3>1 DEF Appending
    <3> QED
      BY <3>1, <3>2, <3>3, <3>4
  <2> QED
    BY <1>2, <2>1, <2>2, <2>3
<1> QED
  BY <1>1, <1>2

\* handlePushBatch checks the whole of what it will append, and while it
\* appends no other stage grows.
LEMMA ClearStep ==
  ASSUME TypeOK, PathInv, [Next]_vars
  PROVE  AppendingClear'
<1> USE DEF PathInv, store, walVars, cache, sessions, clients, history, bounds, At, Idle
<1> DEFINE Clear(c, k) ==
      /\ sent'[c] # << >>
      /\ \A d \in Clients \ {c} : \A i \in DOMAIN sent'[c] :
           i >= k => Touched(sent'[c][i]) \cap TouchedBy(stages'[d]) = {}
<1> SUFFICES ASSUME proc'.at = "append" PROVE Clear(proc'.who, proc'.i)
  BY DEF AppendingClear
<1>1. ASSUME NEW c \in Clients, PushAccept(c)
      PROVE  Clear(proc'.who, proc'.i)
  <2>1. PICK k \in DOMAIN sent[c] :
          IsFirstNew(k, sent[c], idem[c]) /\ proc' = At("append", c, k)
    BY <1>1 DEF PushAccept
  <2>2. sent' = sent /\ stages' = stages /\ ~Overlaps(c) /\ sent[c] # << >>
    BY <1>1 DEF PushAccept, PushPending, Refusable
  <2>3. sent[c] \in Seq(Ops) /\ idem[c] \in Nat
    BY DEF TypeOK
  <2>4. \A i \in DOMAIN sent[c] : sent[c][i] \in Ops
    BY <2>3
  <2>5. ASSUME NEW d \in Clients \ {c}, NEW i \in DOMAIN sent[c], i >= k
        PROVE  Touched(sent[c][i]) \cap TouchedBy(stages[d]) = {}
    <3>1. sent[c][i].seq >= sent[c][k].seq
      <4>1. i \in Nat /\ k \in Nat /\ sent[c][i].seq \in Nat /\ sent[c][k].seq \in Nat
        BY <2>3, <2>4, LenProperties DEF Ops
      <4>2. CASE k = i
        BY <4>1, <4>2
      <4>3. CASE k < i
        BY <4>1, <4>3 DEF SentAscending
      <4> QED
        BY <2>5, <4>1, <4>2, <4>3
    <3>2. sent[c][i].seq > idem[c]
      <4>1. sent[c][i].seq \in Nat /\ sent[c][k].seq \in Nat
        BY <2>4 DEF Ops
      <4>2. sent[c][k].seq > idem[c]
        BY <2>1 DEF IsFirstNew
      <4> QED
        BY <2>3, <3>1, <4>1, <4>2
    <3>3. sent[c][i] \in FreshOps(c)
      BY <3>2 DEF FreshOps, Unseen, Range
    <3> QED
      BY <2>2, <3>3 DEF Overlaps
  <2> QED
    BY <2>1, <2>2, <2>5
<1>2. ASSUME NEW c \in Clients, AppendOp(c)
      PROVE  Clear(proc'.who, proc'.i)
  <2>1. /\ proc' = At("append", c, proc.i + 1) /\ sent' = sent
        /\ stages' = [stages EXCEPT ![c] = Append(@, sent[c][proc.i])]
        /\ proc.at = "append" /\ proc.who = c
    BY <1>2 DEF AppendOp, Appending
  <2>2. sent[c] \in Seq(Ops) /\ proc.i \in Nat
    BY DEF TypeOK
  <2>3. ASSUME NEW d \in Clients \ {c}, NEW i \in DOMAIN sent[c], i >= proc.i + 1
        PROVE  Touched(sent[c][i]) \cap TouchedBy(stages'[d]) = {}
    <3>1. stages'[d] = stages[d]
      BY <2>1 DEF TypeOK, Committers
    <3>2. i \in Nat /\ i >= proc.i
      BY <2>2, <2>3, LenProperties
    <3> QED
      BY <2>1, <3>1, <3>2 DEF AppendingClear
  <2>4. sent[c] # << >>
    BY <2>1 DEF AppendingClear
  <2> QED
    BY <2>1, <2>3, <2>4
<1>3. ASSUME \/ Restore \/ HydrateDone \/ (UNCHANGED vars)
             \/ (\E idlers \in SUBSET Clients : IdemTick(idlers))
             \/ (\E c \in Clients : Hello(c) \/ Disconnect(c))
      PROVE  Clear(proc'.who, proc'.i)
  <2>1. proc' = proc /\ sent' = sent /\ stages' = stages
    BY <1>3 DEF Restore, HydrateDone, IdemTick, vars, Hello, Disconnect
  <2> QED
    BY <2>1 DEF AppendingClear
<1>4. ASSUME NEW c \in Clients, NewBatch(c)
      PROVE  Clear(proc'.who, proc'.i)
  <2>1. proc' = proc /\ stages' = stages /\ sent[c] = << >>
    BY <1>4 DEF NewBatch
  <2>2. proc.who # c /\ proc.who \in Clients
    BY <2>1 DEF AppendingClear, TypeOK
  <2>3. sent'[proc.who] = sent[proc.who]
    BY <1>4, <2>2, NewBatchSeqs
  <2> QED
    BY <2>1, <2>3 DEF AppendingClear
<1>5. CASE Hydrate
  BY <1>5 DEF Hydrate, HandlersUp
<1>6. ASSUME NEW c \in Clients,
             \/ PushDuplicate(c) \/ PushRefused(c) \/ AppendFails(c) \/ PushAck(c)
             \/ BeginCommit(c)
      PROVE  FALSE
  BY <1>6 DEF PushDuplicate, PushRefused, PushPending, Free, AppendFails, PushAck, BeginCommit
<1>7. ASSUME \/ ApplyOp \/ ApplyFails \/ GitCommit \/ TruncateClient \/ TruncateFails
             \/ FinishCommit \/ Crash \/ Evict
             \/ (\E t \in Desired : Publish(t))
      PROVE  FALSE
  BY <1>7 DEF ApplyOp, ApplyFails, Abandon, Drop, GitCommit, TruncateClient, TruncateFails,
              FinishCommit, Crash, Evict, Publish
<1> QED
  BY <1>1, <1>2, <1>3, <1>4, <1>5, <1>6, <1>7 DEF Next, ClientStep, PushStep, CommitStep
-----------------------------------------------------------------------------
\* Before the first push no path is staged, sent or logged.
LEMMA PathInit == Init => PathInv
<1> SUFFICES ASSUME Init PROVE PathInv
  OBVIOUS
<1>1. proc.at = "idle" /\ up = "serving"
  BY DEF Init, Idle, At
<1>2. \A c \in Clients : /\ wal[c] = << >> /\ log[c] = << >> /\ sent[c] = << >>
                         /\ stages[c] = << >>
  BY DEF Init, Committers
<1> QED
  BY <1>1, <1>2, TouchedEmpty
  DEF PathInv, HandlersUp, SentAscending, OneStagePerPath, AppendingClear, LogsDisjoint,
      LoggedPaths

\* Every step keeps PathInv.
LEMMA PathInvStep == TypeOK /\ PathInv /\ [Next]_vars => PathInv'
<1> SUFFICES ASSUME TypeOK, PathInv, [Next]_vars PROVE PathInv'
  OBVIOUS
<1>1. HandlersUp' /\ SentAscending'
  BY HandlersStep, AscendingStep DEF PathInv
<1>2. OneStagePerPath' /\ AppendingClear'
  BY OneStageStep, ClearStep
<1>3. LogsDisjoint'
  BY <1>2, LoggedStep
<1> QED
  BY <1>1, <1>2, <1>3 DEF PathInv

\* At most one client's stage holds ops for a path, whatever fails and
\* whenever the vault goes down and is replayed.
THEOREM PathsHaveOneStage == Spec => []OneStagePerPath
<1>1. Init => TypeOK /\ PathInv
  BY TypeInit, PathInit
<1>2. TypeOK /\ PathInv /\ [Next]_vars => (TypeOK /\ PathInv)'
  BY TypeStep, PathInvStep
<1>3. PathInv => OneStagePerPath
  BY DEF PathInv
<1> QED
  BY <1>1, <1>2, <1>3, PTL DEF Spec

\* The whole invariant of a vault whose log stays readable behind its handle:
\* acked ops are durable, nothing durable is accepted anew, the stages of two
\* clients keep apart (the invariant of the run hub_faults).
THEOREM VaultSafe ==
  ASSUME NoLoss
  PROVE  Spec => []SafetyInv
<1>1. Init => TypeOK /\ SafetyInv
  BY TypeInit, DurableInit, PathInit DEF SafetyInv
<1>2. TypeOK /\ SafetyInv /\ [Next]_vars => (TypeOK /\ SafetyInv)'
  BY TypeStep, DurableStep, PathInvStep DEF SafetyInv
<1> QED
  BY <1>1, <1>2, PTL DEF Spec
-----------------------------------------------------------------------------
(***************************************************************************)
(* Nobody connected misses a commit.                                       *)
(***************************************************************************)
\* What the broadcasts keep true at every moment, also half-way through a commit.
HeardInv ==
  /\ up # "serving" => conn = {}
  /\ \A d \in conn : \A id \in committed :
       id[1] # d => id \in told[d] \cup Ids(id[1], stages[id[1]])

\* A stage that grows keeps the ids it had.
LEMMA IdsGrow ==
  ASSUME NEW c \in Clients, NEW s \in Seq(Ops), NEW x \in Ops
  PROVE  Ids(c, s) \subseteq Ids(c, Append(s, x))
BY SeqsAppend, ClientsAssumption DEF Ids

\* A Hello tells of every commit so far, a broadcast of the stage it resets,
\* and to lose a stage is to lose the connections.
LEMMA HeardStep ==
  ASSUME TypeOK, HandlersUp, HeardInv, [Next]_vars
  PROVE  HeardInv'
<1> USE DEF store, walVars, cache, sessions, clients, history, bounds
<1> DEFINE Heard == \A d \in conn' : \A id \in committed' :
                      id[1] # d => id \in told'[d] \cup Ids(id[1], stages'[id[1]])
<1> SUFFICES (up' # "serving" => conn' = {}) /\ Heard
  BY DEF HeardInv
<1>1. \A id \in committed : id[1] \in Clients /\ id[1] \in Committers
  BY DEF TypeOK, OpIds, Committers
<1>2. ASSUME UNCHANGED <<up, conn, told, committed, stages>>
      PROVE  (up' # "serving" => conn' = {}) /\ Heard
  BY <1>2 DEF HeardInv
<1>3. ASSUME NEW c \in Clients,
             NewBatch(c) \/ PushDuplicate(c) \/ PushRefused(c) \/ PushAccept(c) \/ PushAck(c)
             \/ BeginCommit(c)
      PROVE  UNCHANGED <<up, conn, told, committed, stages>>
  BY <1>3 DEF NewBatch, PushDuplicate, PushRefused, PushAccept, PushAck, BeginCommit
<1>4. ASSUME NEW c \in Clients, Hello(c)
      PROVE  (up' # "serving" => conn' = {}) /\ Heard
  BY <1>4 DEF Hello, Serving, HeardInv, TypeOK
<1>5. ASSUME NEW c \in Clients, Disconnect(c)
      PROVE  (up' # "serving" => conn' = {}) /\ Heard
  BY <1>5 DEF Disconnect, HeardInv, TypeOK
<1>6. ASSUME NEW c \in Clients, AppendOp(c) \/ AppendFails(c)
      PROVE  (up' # "serving" => conn' = {}) /\ Heard
  <2>1. /\ UNCHANGED <<up, conn, told, committed>> /\ Appending(c)
        /\ stages' = [stages EXCEPT ![c] = Append(@, sent[c][proc.i])]
    BY <1>6 DEF AppendOp, AppendFails
  <2>2. sent[c][proc.i] \in Ops
    BY <2>1, AppendingType
  <2>3. \A e \in Clients : Ids(e, stages[e]) \subseteq Ids(e, stages'[e])
    BY <2>1, <2>2, IdsGrow DEF TypeOK, Committers
  <2> QED
    BY <1>1, <2>1, <2>3 DEF HeardInv
<1>7. CASE \/ ApplyOp \/ TruncateClient \/ Restore \/ (UNCHANGED vars)
           \/ (\E idlers \in SUBSET Clients : IdemTick(idlers))
  BY <1>2, <1>7 DEF ApplyOp, TruncateClient, Restore, IdemTick, vars
<1>8. ASSUME NEW t \in Desired, Publish(t)
      PROVE  (up' # "serving" => conn' = {}) /\ Heard
  <2>1. /\ UNCHANGED <<up, conn, told, committed>>
        /\ \A e \in Clients : stages'[e] = stages[e]
    BY <1>8, ClientsAssumption DEF Publish, TypeOK, Committers
  <2> QED
    BY <1>1, <2>1 DEF HeardInv
<1>9. CASE ApplyFails \/ TruncateFails
  <2>1. committed' = committed /\ \E h : Abandon(h)
    BY <1>9 DEF ApplyFails, TruncateFails
  <2>2. CASE up = "hydrating"
    BY <2>1, <2>2 DEF Abandon, Drop
  <2>3. CASE up # "hydrating"
    <3>1. /\ UNCHANGED <<up, conn, told, committed>>
          /\ \A e \in Clients : stages'[e] = stages[e]
      BY <2>1, <2>3, ClientsAssumption DEF Abandon, TypeOK, Committers
    <3> QED
      BY <1>1, <3>1 DEF HeardInv
  <2> QED
    BY <2>2, <2>3
<1>10. CASE GitCommit
  <2>1. /\ UNCHANGED <<up, conn, told, stages>>
        /\ committed' = committed \cup Ids(proc.who, stages[proc.who])
    BY <1>10 DEF GitCommit
  <2>2. \A id \in Ids(proc.who, stages[proc.who]) : id[1] = proc.who
    BY DEF Ids
  <2> QED
    BY <2>1, <2>2 DEF HeardInv
<1>11. CASE FinishCommit
  <2>1. /\ UNCHANGED <<up, conn, committed>>
        /\ told' = Broadcast(proc.who, stages[proc.who])
        /\ stages' = [stages EXCEPT ![proc.who] = << >>]
    BY <1>11 DEF FinishCommit
  <2>2. ASSUME NEW d \in conn, NEW id \in committed, id[1] # d
        PROVE  id \in told'[d] \cup Ids(id[1], stages'[id[1]])
    <3>1. id \in told[d] \cup Ids(id[1], stages[id[1]])
      BY <2>2 DEF HeardInv
    <3>2. d \in Clients /\ told[d] \subseteq told'[d]
      BY <2>1 DEF Broadcast, TypeOK
    <3>3. CASE id[1] = proc.who
      <4>1. told'[d] = told[d] \cup Ids(proc.who, stages[proc.who])
        BY <2>1, <2>2, <3>2, <3>3 DEF Broadcast
      <4> QED
        BY <3>1, <3>3, <4>1
    <3>4. CASE id[1] # proc.who
      <4>1. stages'[id[1]] = stages[id[1]]
        BY <1>1, <2>1, <3>4 DEF TypeOK
      <4> QED
        BY <3>1, <3>2, <4>1
    <3> QED
      BY <3>3, <3>4
  <2> QED
    BY <2>1, <2>2 DEF HeardInv
<1>12. CASE Crash \/ Evict
  BY <1>12 DEF Crash, Evict, Drop
<1>13. CASE Hydrate \/ HydrateDone
  BY <1>13 DEF Hydrate, HydrateDone, HeardInv
<1> QED
  BY <1>2, <1>3, <1>4, <1>5, <1>6, <1>7, <1>8, <1>9, <1>10, <1>11, <1>12, <1>13
  DEF Next, ClientStep, PushStep, CommitStep

\* A connected client misses no commit of another, whatever fails: it had it
\* with its Hello, was sent it since, or will be when the commit is retried.
THEOREM EveryoneHears == Spec => []AnnouncedOrPending
<1>1. Init => TypeOK /\ HandlersUp /\ HeardInv
  <2>1. Init => HandlersUp /\ HeardInv
    BY DEF Init, HandlersUp, HeardInv, Idle, At
  <2> QED
    BY <2>1, TypeInit
<1>2. TypeOK /\ HandlersUp /\ HeardInv /\ [Next]_vars => (TypeOK /\ HandlersUp /\ HeardInv)'
  BY TypeStep, HandlersStep, HeardStep
<1>3. HeardInv => AnnouncedOrPending
  BY DEF HeardInv, AnnouncedOrPending
<1> QED
  BY <1>1, <1>2, <1>3, PTL DEF Spec
-----------------------------------------------------------------------------
(***************************************************************************)
(* An op is accepted once.  It takes that the idempotency cache keeps up   *)
(* with the log: a crash between the truncation of the WAL and the         *)
(* snapshot of the cache, a failure of either behind the commit, or the    *)
(* pruning of a client loses what the cache knew.                          *)
(***************************************************************************)
KeepsUp == FaultKinds \subseteq {"apply", "truncate"} /\ ~Pruning /\ MaxCrashes = 0

\* c's commit is between the truncation of the WAL and the snapshot.
Trimming(c) == proc.at = "persist" /\ proc.who = c

HandleLinked == walHandle = "linked" /\ ~torn /\ log = wal

\* The cache has seen all that is durable,
DurableSeen ==
  up # "down" => \A c \in Clients : \A n \in Nat : Durable(c, n) => n <= idem[c]

\* and a hydration learns of it from the snapshot and the WAL.
CommittedKnown ==
  \A c \in Clients : \A n \in Nat :
    <<c, n>> \in committed => n <= idemDisk[c] \/ n \in Seqs(wal[c]) \/ Trimming(c)

StagedLogged == \A c \in Clients : Seqs(stages[c]) \subseteq Seqs(wal[c]) \/ Trimming(c)

\* The rest of the batch is new to the cache.
RestFresh ==
  proc.at = "append" =>
    \A i \in DOMAIN sent[proc.who] : i >= proc.i => sent[proc.who][i].seq > idem[proc.who]

OnceInv == HandleLinked /\ DurableSeen /\ CommittedKnown /\ StagedLogged /\ RestFresh

\* An op of the batch that is appended is behind all that was accepted before.
LEMMA OnceAppend ==
  ASSUME KeepsUp, TypeOK, PathInv, OnceInv, NEW c \in Clients, AppendOp(c)
  PROVE  /\ <<c, sent[c][proc.i].seq>> \notin committed \cup Logged
         /\ OnceInv'
<1> DEFINE x == sent[c][proc.i]
<1> USE DEF OnceInv
<1>1. /\ proc.at = "append" /\ proc.who = c /\ up # "down" /\ up' = up
      /\ proc' = At("append", c, proc.i + 1) /\ sent' = sent /\ idemDisk' = idemDisk
      /\ committed' = committed /\ torn' = torn /\ walHandle' = walHandle
      /\ stages' = [stages EXCEPT ![c] = Append(@, x)]
      /\ idem' = [idem EXCEPT ![c] = IF x.seq > @ THEN x.seq ELSE @]
      /\ wal' = [wal EXCEPT ![c] = Append(@, x)] /\ log' = wal'
  BY DEF AppendOp, Appending, WalAppend, HandleLinked, PathInv, HandlersUp, clients
<1>2. /\ x \in Ops /\ x.seq \in Nat /\ proc.i \in DOMAIN sent[c] /\ proc.i \in Nat
      /\ sent[c] \in Seq(Ops) /\ idem[c] \in Nat
      /\ \A i \in DOMAIN sent[c] : i \in Nat /\ sent[c][i].seq \in Nat
  <2>1. x \in Ops /\ proc.i \in 1..Len(sent[c])
    BY AppendingType DEF AppendOp
  <2>2. sent[c] \in Seq(Ops) /\ idem[c] \in Nat
    BY DEF TypeOK
  <2>3. \A i \in DOMAIN sent[c] : sent[c][i] \in Ops
    BY <2>2
  <2> QED
    BY <2>1, <2>2, <2>3, LenProperties DEF Ops
<1>3. x.seq > idem[c]
  BY <1>1, <1>2 DEF RestFresh
<1>4. <<c, x.seq>> \notin committed \cup Logged
  <2>1. ~Durable(c, x.seq)
    BY <1>1, <1>2, <1>3 DEF DurableSeen
  <2> QED
    BY <2>1, LoggedDurable DEF Durable
<1>5. /\ Seqs(wal'[c]) = Seqs(wal[c]) \cup {x.seq}
      /\ Seqs(stages'[c]) = Seqs(stages[c]) \cup {x.seq}
      /\ idem'[c] = x.seq
      /\ \A d \in Clients \ {c} : wal'[d] = wal[d] /\ stages'[d] = stages[d] /\ idem'[d] = idem[d]
  <2>1. wal[c] \in Seq(Ops) /\ stages[c] \in Seq(Ops)
    BY DEF TypeOK, Committers
  <2>2. wal'[c] = Append(wal[c], x) /\ stages'[c] = Append(stages[c], x) /\ idem'[c] = x.seq
    BY <1>1, <1>3 DEF TypeOK, Committers
  <2>3. \A d \in Clients \ {c} : wal'[d] = wal[d] /\ stages'[d] = stages[d] /\ idem'[d] = idem[d]
    BY <1>1 DEF TypeOK, Committers
  <2> HIDE DEF x
  <2> QED
    BY <1>2, <2>1, <2>2, <2>3, SeqsAppend
<1> HIDE DEF x
<1>6. HandleLinked'
  BY <1>1 DEF HandleLinked
<1>7. DurableSeen'
  BY <1>1, <1>2, <1>3, <1>5 DEF DurableSeen, Durable
<1>8. CommittedKnown' /\ StagedLogged'
  BY <1>1, <1>5 DEF CommittedKnown, StagedLogged, Trimming
<1>9. RestFresh'
  <2> SUFFICES ASSUME NEW i \in DOMAIN sent[c], i >= proc.i + 1
               PROVE  sent[c][i].seq > x.seq
    BY <1>1, <1>5 DEF RestFresh, At
  <2>1. proc.i < i
    BY <1>2
  <2> QED
    BY <1>2, <2>1 DEF PathInv, SentAscending, x
<1> QED
  BY <1>4, <1>6, <1>7, <1>8, <1>9 DEF x

\* Every other step keeps what the cache, the snapshot and the WAL know.
LEMMA OnceStep ==
  ASSUME KeepsUp, TypeOK, PathInv, OnceInv, [Next]_vars
  PROVE  OnceInv'
<1> USE DEF store, walVars, cache, sessions, clients, history, bounds, OnceInv
<1>1. ASSUME NEW c \in Clients, AppendOp(c) PROVE OnceInv'
  BY <1>1, OnceAppend
<1>2. ASSUME NEW c \in Clients, AppendFails(c) PROVE FALSE
  BY <1>2 DEF AppendFails, Fault, KeepsUp, HandleLinked
<1>3. ASSUME UNCHANGED <<walVars, up, idem, idemDisk, committed, stages>>,
             \A c \in Clients : Trimming(c) => Trimming(c)',
             RestFresh'
      PROVE  OnceInv'
  BY <1>3 DEF HandleLinked, DurableSeen, CommittedKnown, StagedLogged, Durable
<1>4. ASSUME NEW c \in Clients,
             Hello(c) \/ Disconnect(c) \/ PushDuplicate(c) \/ PushRefused(c) \/ PushAck(c)
             \/ BeginCommit(c)
      PROVE  OnceInv'
  <2>1. CASE Hello(c) \/ Disconnect(c)
    <3>1. UNCHANGED <<walVars, up, idem, idemDisk, committed, stages, proc, sent>>
      BY <2>1 DEF Hello, Disconnect
    <3> QED
      BY <1>3, <3>1 DEF RestFresh, Trimming
  <2>2. CASE PushDuplicate(c) \/ PushRefused(c) \/ PushAck(c) \/ BeginCommit(c)
    <3>1. /\ UNCHANGED <<walVars, up, idem, idemDisk, committed, stages>>
          /\ proc.at # "persist" /\ proc'.at # "append"
      BY <2>2 DEF PushDuplicate, PushRefused, PushPending, PushAck, BeginCommit, Free, Idle, At
    <3> QED
      BY <1>3, <3>1 DEF RestFresh, Trimming
  <2> QED
    BY <1>4, <2>1, <2>2
<1>5. ASSUME NEW c \in Clients, NewBatch(c) PROVE OnceInv'
  <2>1. UNCHANGED <<walVars, up, idem, idemDisk, committed, stages, proc>> /\ sent[c] = << >>
    BY <1>5 DEF NewBatch
  <2>2. proc.at = "append" => sent'[proc.who] = sent[proc.who]
    BY <1>5, <2>1, NewBatchSeqs DEF PathInv, AppendingClear, TypeOK
  <2> QED
    BY <1>3, <2>1, <2>2 DEF RestFresh, Trimming
<1>6. ASSUME NEW c \in Clients, PushAccept(c) PROVE OnceInv'
  <2>1. PICK k \in DOMAIN sent[c] :
          IsFirstNew(k, sent[c], idem[c]) /\ proc' = At("append", c, k)
    BY <1>6 DEF PushAccept
  <2>2. UNCHANGED <<walVars, up, idem, idemDisk, committed, stages, sent>> /\ proc.at = "idle"
    BY <1>6 DEF PushAccept, PushPending, Free, Idle, At
  <2>3. /\ sent[c] \in Seq(Ops) /\ idem[c] \in Nat
        /\ \A i \in DOMAIN sent[c] : i \in Nat /\ sent[c][i].seq \in Nat
    <3>1. sent[c] \in Seq(Ops) /\ idem[c] \in Nat
      BY DEF TypeOK
    <3>2. \A i \in DOMAIN sent[c] : sent[c][i] \in Ops
      BY <3>1
    <3> QED
      BY <3>1, <3>2, LenProperties DEF Ops
  <2>4. \A i \in DOMAIN sent[c] : k < i => sent[c][k].seq < sent[c][i].seq
    BY DEF PathInv, SentAscending
  <2>5. \A i \in DOMAIN sent[c] : i >= k => sent[c][i].seq > idem[c]
    BY <2>1, <2>3, <2>4 DEF IsFirstNew
  <2> QED
    BY <1>3, <2>1, <2>2, <2>5 DEF RestFresh, Trimming, At
<1>7. CASE ApplyOp \/ Restore \/ HydrateDone
  <2>1. CASE ApplyOp \/ Restore
    <3>1. /\ UNCHANGED <<walVars, up, idem, idemDisk, committed, stages>>
          /\ proc.at # "persist" /\ proc'.at # "append"
      BY <2>1 DEF ApplyOp, Applying, Restore, Free, Idle, At
    <3> QED
      BY <1>3, <3>1 DEF RestFresh, Trimming
  <2>2. CASE HydrateDone
    <3>1. /\ UNCHANGED <<walVars, idem, idemDisk, committed, stages, proc>> /\ up # "down"
          /\ proc.at = "idle"
      BY <2>2 DEF HydrateDone, Free, Idle, At
    <3> QED
      BY <3>1 DEF RestFresh, Trimming, HandleLinked, DurableSeen, CommittedKnown, StagedLogged,
                  Durable
  <2> QED
    BY <1>7, <2>1, <2>2
<1>8. ASSUME NEW idlers \in SUBSET Clients, IdemTick(idlers) PROVE OnceInv'
  <2>1. /\ UNCHANGED <<walVars, up, committed, stages, proc, sent>> /\ idlers = {}
        /\ up # "down" /\ idem' = [c \in Clients |-> idem[c]] /\ idemDisk' = idem'
        /\ proc.at = "idle"
    BY <1>8 DEF IdemTick, KeepsUp, Serving, Free, Idle, At
  <2>2. \A c \in Clients : idem'[c] = idem[c] /\ idemDisk'[c] = idem[c]
    BY <2>1
  <2> QED
    BY <2>1, <2>2 DEF RestFresh, Trimming, HandleLinked, DurableSeen, CommittedKnown,
                      StagedLogged, Durable
<1>9. ASSUME NEW t \in Desired, Publish(t) PROVE OnceInv'
  <2>1. /\ UNCHANGED <<walVars, up, idem, idemDisk, committed>>
        /\ proc.at = "idle" /\ proc'.at = "apply"
        /\ \A c \in Clients : stages'[c] = stages[c]
    BY <1>9, ClientsAssumption DEF Publish, Free, Idle, At, TypeOK, Committers
  <2> QED
    BY <2>1 DEF RestFresh, Trimming, HandleLinked, DurableSeen, CommittedKnown, StagedLogged,
                Durable
<1>10. ASSUME NEW h, Abandon(h), h = walHandle, wal' = wal, torn' = torn,
              committed' = committed, idemDisk' = idemDisk, proc.at \in {"apply", "truncate"}
       PROVE  OnceInv'
  <2>1. CASE up = "hydrating"
    <3>1. /\ up' = "down" /\ walHandle' = "linked" /\ log' = wal' /\ proc'.at = "idle"
          /\ \A c \in Clients : stages'[c] = << >>
      BY <1>10, <2>1 DEF Abandon, Drop, Idle, At, Committers
    <3> QED
      BY <1>10, <3>1, SeqsEmpty
      DEF RestFresh, Trimming, HandleLinked, DurableSeen, CommittedKnown, StagedLogged, Durable
  <2>2. CASE up # "hydrating"
    <3>1. /\ UNCHANGED <<up, log, idem>> /\ walHandle' = walHandle /\ proc'.at = "idle"
          /\ \A c \in Clients : stages'[c] = stages[c]
      BY <1>10, <2>2, ClientsAssumption DEF Abandon, Idle, At, TypeOK, Committers
    <3> QED
      BY <1>10, <3>1
      DEF RestFresh, Trimming, HandleLinked, DurableSeen, CommittedKnown, StagedLogged, Durable
  <2> QED
    BY <2>1, <2>2
<1>11. CASE ApplyFails \/ TruncateFails
  <2>1. /\ Abandon(walHandle) /\ wal' = wal /\ torn' = torn
        /\ committed' = committed /\ idemDisk' = idemDisk /\ proc.at \in {"apply", "truncate"}
    BY <1>11 DEF ApplyFails, TruncateFails, Fault, KeepsUp, HandleLinked
  <2> QED
    BY <1>10, <2>1
<1>12. CASE GitCommit
  <2>1. /\ UNCHANGED <<walVars, up, idem, idemDisk, stages>>
        /\ committed' = committed \cup Ids(proc.who, stages[proc.who])
        /\ proc.at = "apply" /\ proc'.at = "truncate"
    BY <1>12 DEF GitCommit, At
  <2>2. \A c \in Clients : \A n \in Nat :
          <<c, n>> \in committed' => <<c, n>> \in committed \/ n \in Seqs(wal[c])
    BY <2>1, IdsMember DEF StagedLogged, Trimming, TypeOK
  <2> QED
    BY <2>1, <2>2 DEF RestFresh, Trimming, HandleLinked, DurableSeen, CommittedKnown,
                      StagedLogged, Durable
<1>13. CASE TruncateClient
  <2>1. /\ UNCHANGED <<up, idem, idemDisk, committed, stages>> /\ wal' = Kept(proc.who)
        /\ log' = wal' /\ torn' = FALSE /\ walHandle' = "linked"
        /\ proc.at = "truncate" /\ proc'.at = "persist" /\ proc'.who = proc.who
    BY <1>13 DEF TruncateClient, At
  <2>2. \A c \in Clients : \/ wal'[c] = wal[c]
                           \/ c = proc.who /\ Seqs(wal'[c]) = {}
    BY <2>1, SeqsEmpty DEF Kept, HandleLinked, TypeOK
  <2> QED
    BY <2>1, <2>2 DEF RestFresh, Trimming, HandleLinked, DurableSeen, CommittedKnown,
                      StagedLogged, Durable
<1>14. CASE FinishCommit
  <2>1. /\ UNCHANGED <<walVars, up, idem, committed>> /\ proc.at = "persist"
        /\ idemDisk' = idem /\ proc'.at = "idle" /\ up # "down"
        /\ stages' = [stages EXCEPT ![proc.who] = << >>]
    BY <1>14 DEF FinishCommit, Fault, KeepsUp, Idle, At, PathInv, HandlersUp
  <2>2. \A c \in Clients : \/ stages'[c] = stages[c] /\ c # proc.who
                           \/ Seqs(stages'[c]) = {}
    BY <2>1, SeqsEmpty DEF TypeOK, Committers
  <2> QED
    BY <2>1, <2>2 DEF RestFresh, Trimming, HandleLinked, DurableSeen, CommittedKnown,
                      StagedLogged, Durable
<1>15. CASE Crash
  BY <1>15, BoundsAssumption DEF Crash, KeepsUp, TypeOK
<1>16. CASE Evict
  <2>1. /\ up' = "down" /\ walHandle' = "linked" /\ wal' = wal /\ log' = wal' /\ ~torn'
        /\ proc'.at = "idle" /\ proc.at = "idle" /\ committed' = committed
        /\ idemDisk' = idemDisk
        /\ \A c \in Clients : stages'[c] = << >>
    BY <1>16 DEF Evict, Drop, Free, Idle, At, HandleLinked, Committers
  <2> QED
    BY <2>1, SeqsEmpty
    DEF RestFresh, Trimming, HandleLinked, DurableSeen, CommittedKnown, StagedLogged
<1>17. CASE Hydrate
  <2>1. /\ UNCHANGED <<walVars, idemDisk, committed, proc, sent>>
        /\ proc.at = "idle" /\ idem' \in ReplayedIdem
        /\ \A c \in Clients : stages'[c] = wal[c]
    BY <1>17 DEF Hydrate, PathInv, HandlersUp, Committers
  <2>2. \A c \in Clients : idemDisk[c] <= idem'[c] /\ \A n \in Seqs(wal[c]) : n <= idem'[c]
    BY <2>1 DEF ReplayedIdem
  <2>3. \A c \in Clients : idemDisk[c] \in Nat /\ idem'[c] \in Nat
    BY <2>1 DEF ReplayedIdem, TypeOK
  <2>4. DurableSeen'
    BY <2>1, <2>2, <2>3 DEF DurableSeen, Durable, CommittedKnown, Trimming
  <2> QED
    BY <2>1, <2>4 DEF RestFresh, Trimming, HandleLinked, CommittedKnown, StagedLogged
<1>18. CASE UNCHANGED vars
  <2>1. UNCHANGED <<walVars, up, idem, idemDisk, committed, stages, proc, sent>>
    BY <1>18 DEF vars
  <2> QED
    BY <1>3, <2>1 DEF RestFresh, Trimming
<1> QED
  BY <1>1, <1>2, <1>4, <1>5, <1>6, <1>7, <1>8, <1>9, <1>11, <1>12, <1>13, <1>14, <1>15, <1>16,
     <1>17, <1>18
  DEF Next, ClientStep, PushStep, CommitStep

\* handlePushBatch stages no op that is in the WAL or in the history already,
\* across lost acks, failed commits, evictions and hydrations.
THEOREM OpsAcceptedOnce ==
  ASSUME KeepsUp
  PROVE  Spec => AcceptedOnce
<1> DEFINE Inv == TypeOK /\ PathInv /\ OnceInv
           Once == \A c \in Clients : Appending(c) /\ stages'[c] # stages[c]
                     => <<c, sent[c][proc.i].seq>> \notin committed \cup Logged
<1>1. Init => Inv
  <2> SUFFICES ASSUME Init PROVE OnceInv
    BY TypeInit, PathInit
  <2>1. \A c \in Clients : Seqs(wal[c]) = {} /\ Seqs(stages[c]) = {}
    BY SeqsEmpty DEF Init, Committers
  <2>2. /\ committed = {} /\ walHandle = "linked" /\ ~torn /\ log = wal
        /\ proc.at = "idle"
    BY DEF Init, Idle, At
  <2> QED
    BY <2>1, <2>2
    DEF OnceInv, HandleLinked, DurableSeen, CommittedKnown, StagedLogged, RestFresh, Durable
<1>2. Inv /\ [Next]_vars => Inv'
  BY TypeStep, PathInvStep, OnceStep
<1>3. Inv /\ [Next]_vars => Once
  <2> SUFFICES ASSUME Inv, [Next]_vars, NEW c \in Clients, Appending(c), stages'[c] # stages[c]
               PROVE  <<c, sent[c][proc.i].seq>> \notin committed \cup Logged
    OBVIOUS
  <2> USE DEF store, walVars, cache, sessions, clients, history, bounds
  <2>1. proc.at = "append" /\ proc.who = c /\ c \in Committers /\ up # "down"
    BY DEF Appending, Committers, PathInv, HandlersUp
  <2>2. ASSUME NEW d \in Clients, AppendOp(d) PROVE c = d
    BY <2>1, <2>2 DEF AppendOp, Appending
  <2>3. ASSUME NEW d \in Clients PROVE ~AppendFails(d)
    BY DEF AppendFails, Fault, KeepsUp, OnceInv, HandleLinked
  <2>4. ASSUME NEW d \in Clients,
               NewBatch(d) \/ Hello(d) \/ Disconnect(d) \/ PushDuplicate(d) \/ PushRefused(d)
               \/ PushAccept(d) \/ PushAck(d) \/ BeginCommit(d)
        PROVE  FALSE
    BY <2>4 DEF NewBatch, Hello, Disconnect, PushDuplicate, PushRefused, PushAccept, PushAck,
                BeginCommit
  <2>5. ~CommitStep
    BY <2>1 DEF CommitStep, ApplyOp, Applying, ApplyFails, GitCommit, TruncateClient,
                TruncateFails, FinishCommit
  <2>6. ~(\E t \in Desired : Publish(t)) /\ ~Evict /\ ~HydrateDone /\ ~Restore
    BY <2>1 DEF Publish, Evict, HydrateDone, Restore, Free, Idle, At
  <2>7. ~(\E idlers \in SUBSET Clients : IdemTick(idlers)) /\ ~Hydrate /\ ~(UNCHANGED vars)
    BY <2>1 DEF IdemTick, Hydrate, vars
  <2>8. ~Crash
    BY BoundsAssumption DEF Crash, KeepsUp, TypeOK
  <2>9. AppendOp(c)
    BY <2>2, <2>3, <2>4, <2>5, <2>6, <2>7, <2>8 DEF Next, ClientStep, PushStep
  <2> QED
    BY <2>9, OnceAppend
<1>4. Inv /\ [Next]_vars => [Once]_vars
  BY <1>3
<1> QED
  BY <1>1, <1>2, <1>4, PTL DEF Spec, AcceptedOnce
-----------------------------------------------------------------------------
(***************************************************************************)
(* The commit of a publish.                                                *)
(***************************************************************************)
\* The ops write or delete, and as t has it.
Towards(t, ops) ==
  \A i \in DOMAIN ops :
    /\ ops[i].type \in {"write", "delete"} /\ ops[i].data = t[ops[i].path]
    /\ ops[i].type = "delete" => ops[i].data = Absent

\* Where the worktree is not t, one of the ops to come is about the path.
Leads(t, ops, k) ==
  \A p \in Paths : wtree[p] # t[p] => \E i \in DOMAIN ops : i >= k /\ ops[i].path = p

\* A publish under way goes towards a tree that was asked for.
PublishInv ==
  proc.at = "apply" /\ proc.who = Publisher =>
    \E t \in Desired : Towards(t, stages[Publisher]) /\ Leads(t, stages[Publisher], proc.i)

\* The members of a finite set are all in the sequence made of it.
LEMMA SetToSeqHasAll ==
  ASSUME NEW S, IsFiniteSet(S)
  PROVE  /\ \A i \in DOMAIN SetToSeq(S) : SetToSeq(S)[i] \in S
         /\ \A x \in S : \E i \in DOMAIN SetToSeq(S) : SetToSeq(S)[i] = x
<1>1. Cardinality(S) \in Nat /\ ExistsBijection(1..Cardinality(S), S)
  BY FS_CardinalityType
<1>2. PICK f : f \in Bijection(1..Cardinality(S), S)
  BY <1>1 DEF ExistsBijection
<1>3. f \in [1..Cardinality(S) -> S] /\ IsInjective(f)
  BY <1>2 DEF Bijection, Injection, IsInjective
<1>4. SetToSeq(S) \in [1..Cardinality(S) -> S] /\ IsInjective(SetToSeq(S))
  BY <1>3 DEF SetToSeq
<1>5. SetToSeq(S) \in Injection(1..Cardinality(S), S)
  BY <1>4 DEF Injection, IsInjective
<1>6. IsFiniteSet(1..Cardinality(S)) /\ Cardinality(1..Cardinality(S)) = Cardinality(S)
  BY <1>1, FS_Interval
<1>7. SetToSeq(S) \in Surjection(1..Cardinality(S), S)
  BY <1>5, <1>6, FS_Injection
<1> QED
  BY <1>4, <1>7 DEF Surjection

\* What a publish stages turns the worktree into the desired tree.
LEMMA PublishingLeads ==
  ASSUME NEW t \in Trees, wtree \in Trees
  PROVE  Towards(t, Publishing(t)) /\ Leads(t, Publishing(t), 1)
<1> DEFINE W == {q \in Paths : t[q] # Absent /\ t[q] # wtree[q]}
           D == {q \in Paths : t[q] = Absent /\ wtree[q] # Absent}
           WOps == {Op(1, Write(p, Absent, t[p])) : p \in W}
           DOps == {Op(1, Delete(p, wtree[p])) : p \in D}
           ws == SetToSeq(WOps)
           ds == SetToSeq(DOps)
<1>1. IsFiniteSet(W) /\ IsFiniteSet(D)
  BY PathsAssumption, FS_Subset
<1>2. IsFiniteSet(WOps)
  <2> DEFINE f == [p \in W |-> Op(1, Write(p, Absent, t[p]))]
  <2>1. f \in Surjection(W, WOps)
    BY DEF Surjection
  <2> QED BY <1>1, <2>1, FS_Surjection
<1>3. IsFiniteSet(DOps)
  <2> DEFINE f == [p \in D |-> Op(1, Delete(p, wtree[p]))]
  <2>1. f \in Surjection(D, DOps)
    BY DEF Surjection
  <2> QED BY <1>1, <2>1, FS_Surjection
<1>4. \A x \in WOps : x.type = "write" /\ x.path \in W /\ x.data = t[x.path]
  BY DEF Op, Write
<1>5. \A x \in DOps : x.type = "delete" /\ x.path \in D /\ x.data = Absent /\ x.data = t[x.path]
  BY DEF Op, Delete
<1>6. \A p \in W : \E x \in WOps : x.path = p
  <2> TAKE p \in W
  <2>1. Op(1, Write(p, Absent, t[p])) \in WOps
    OBVIOUS
  <2>2. Op(1, Write(p, Absent, t[p])).path = p
    BY DEF Op, Write
  <2> QED BY <2>1, <2>2
<1>7. \A p \in D : \E x \in DOps : x.path = p
  <2> TAKE p \in D
  <2>1. Op(1, Delete(p, wtree[p])) \in DOps
    OBVIOUS
  <2>2. Op(1, Delete(p, wtree[p])).path = p
    BY DEF Op, Delete
  <2> QED BY <2>1, <2>2
<1>8. ws \in Seq(WOps) /\ ds \in Seq(DOps)
  BY <1>2, <1>3, SetToSeqType
<1>9. /\ \A i \in DOMAIN ws : ws[i] \in WOps
      /\ \A x \in WOps : \E i \in DOMAIN ws : ws[i] = x
  BY <1>2, SetToSeqHasAll
<1>10. /\ \A i \in DOMAIN ds : ds[i] \in DOps
       /\ \A x \in DOps : \E i \in DOMAIN ds : ds[i] = x
  BY <1>3, SetToSeqHasAll
<1> HIDE DEF WOps, DOps, ws, ds
<1>11. /\ Publishing(t) = ws \o ds
       /\ DOMAIN Publishing(t) = 1..(Len(ws) + Len(ds))
       /\ Len(ws) \in Nat /\ Len(ds) \in Nat /\ DOMAIN ws = 1..Len(ws) /\ DOMAIN ds = 1..Len(ds)
       /\ \A i \in 1..Len(ws) : Publishing(t)[i] = ws[i]
       /\ \A i \in 1..Len(ds) : Publishing(t)[Len(ws) + i] = ds[i]
  <2>1. Publishing(t) = ws \o ds
    BY DEF Publishing, ws, ds, WOps, DOps
  <2>2. Len(ws) \in Nat /\ Len(ds) \in Nat /\ DOMAIN ws = 1..Len(ws) /\ DOMAIN ds = 1..Len(ds)
    BY <1>8, LenProperties
  <2>3. ws \in Seq(WOps \cup DOps) /\ ds \in Seq(WOps \cup DOps)
    BY <1>8
  <2> QED BY <2>1, <2>2, <2>3, ConcatProperties
<1>12. \A i \in DOMAIN Publishing(t) : Publishing(t)[i] \in WOps \cup DOps
  <2> TAKE i \in DOMAIN Publishing(t)
  <2>1. CASE i <= Len(ws)
    BY <1>9, <1>11, <2>1
  <2>2. CASE i > Len(ws)
    <3>1. i - Len(ws) \in DOMAIN ds /\ Len(ws) + (i - Len(ws)) = i
      BY <1>11, <2>2
    <3>2. Publishing(t)[i] = ds[i - Len(ws)]
      BY <1>11, <3>1
    <3> QED BY <1>10, <3>1, <3>2
  <2> QED BY <1>11, <2>1, <2>2
<1>13. Towards(t, Publishing(t))
  BY <1>4, <1>5, <1>12 DEF Towards
<1>14. ASSUME NEW p \in Paths, wtree[p] # t[p]
       PROVE  \E i \in DOMAIN Publishing(t) : i >= 1 /\ Publishing(t)[i].path = p
  <2>1. CASE p \in W
    <3>1. PICK i \in DOMAIN ws : ws[i].path = p
      BY <1>6, <1>9, <2>1
    <3> QED BY <1>11, <3>1
  <2>2. CASE p \in D
    <3>1. PICK i \in DOMAIN ds : ds[i].path = p
      BY <1>7, <1>10, <2>2
    <3>2. Len(ws) + i \in DOMAIN Publishing(t) /\ Len(ws) + i >= 1
      BY <1>11, <3>1
    <3> QED BY <1>11, <3>1, <3>2
  <2> QED BY <1>14, <2>1, <2>2
<1> QED BY <1>13, <1>14 DEF Leads

\* An op that is done brings its path to t.
LEMMA LeadsOn ==
  ASSUME TypeOK, NEW t \in Trees, NEW ops \in Seq(Ops), NEW k \in 1..Len(ops),
         Towards(t, ops), Leads(t, ops, k), wtree' = Effect(ops[k], wtree)
  PROVE  Leads(t, ops, k + 1)'
<1>1. DOMAIN ops = 1..Len(ops) /\ ops[k] \in Ops /\ wtree \in Trees
  BY DEF TypeOK
<1>2. wtree' = [wtree EXCEPT ![ops[k].path] = t[ops[k].path]]
  BY <1>1 DEF Towards, Effect
<1>3. ASSUME NEW p \in Paths, wtree'[p] # t[p]
      PROVE  \E i \in DOMAIN ops : i >= k + 1 /\ ops[i].path = p
  <2>1. p # ops[k].path /\ wtree[p] # t[p]
    BY <1>1, <1>2, <1>3 DEF Trees, Ops
  <2>2. PICK i \in DOMAIN ops : i >= k /\ ops[i].path = p
    BY <2>1 DEF Leads
  <2> QED BY <1>1, <2>1, <2>2
<1> QED BY <1>3 DEF Leads

\* Nobody else writes to the worktree or to the publisher's stage meanwhile.
LEMMA PublishStep ==
  ASSUME TypeOK, HandlersUp, PublishInv, [Next]_vars
  PROVE  PublishInv'
<1> USE DEF store, walVars, cache, sessions, clients, history, bounds, At, Idle
<1>1. CASE proc' = proc /\ stages' = stages /\ wtree' = wtree
  BY <1>1 DEF PublishInv, Towards, Leads
<1>2. CASE proc'.at # "apply" \/ proc'.who # Publisher
  BY <1>2 DEF PublishInv
<1>3. ASSUME NEW t \in Desired, Publish(t) PROVE PublishInv'
  <2>1. /\ stages'[Publisher] = Publishing(t) /\ proc'.i = 1 /\ wtree' = wtree
        /\ wtree \in Trees /\ t \in Trees
    BY <1>3, TreesAssumption DEF Publish, TypeOK, Committers
  <2>2. Towards(t, Publishing(t)) /\ Leads(t, Publishing(t), 1)
    BY <2>1, PublishingLeads
  <2>3. PICK ops : ops = Publishing(t)
    OBVIOUS
  <2>4. Towards(t, ops)' /\ Leads(t, ops, 1)'
    BY <2>1, <2>2, <2>3 DEF Towards, Leads
  <2> QED BY <2>1, <2>3, <2>4 DEF PublishInv
<1>4. CASE ApplyOp /\ proc.who = Publisher
  <2>1. /\ proc.at = "apply" /\ stages' = stages /\ proc'.i = proc.i + 1
        /\ proc.i \in 1..Len(stages[Publisher]) /\ stages[Publisher] \in Seq(Ops)
        /\ wtree' = Effect(stages[Publisher][proc.i], wtree)
    BY <1>4, LenProperties DEF ApplyOp, Applying, TypeOK, Committers
  <2>2. PICK t \in Desired : Towards(t, stages[Publisher]) /\ Leads(t, stages[Publisher], proc.i)
    BY <1>4, <2>1 DEF PublishInv
  <2>3. PICK ops, k : ops = stages[Publisher] /\ k = proc.i
    OBVIOUS
  <2>4. t \in Trees
    BY TreesAssumption
  <2>5. Leads(t, ops, k + 1)'
    BY <2>1, <2>2, <2>3, <2>4, LeadsOn
  <2> QED BY <2>1, <2>2, <2>3, <2>5 DEF PublishInv, Towards
<1>5. ASSUME NEW c \in Clients,
             NewBatch(c) \/ Hello(c) \/ Disconnect(c) \/ PushDuplicate(c) \/ PushRefused(c)
             \/ PushAccept(c) \/ AppendOp(c) \/ AppendFails(c) \/ PushAck(c) \/ BeginCommit(c)
      PROVE  PublishInv'
  <2>1. c # Publisher
    BY ClientsAssumption
  <2>2. CASE NewBatch(c) \/ Hello(c) \/ Disconnect(c) \/ PushDuplicate(c) \/ PushRefused(c)
    BY <1>1, <2>2 DEF NewBatch, Hello, Disconnect, PushDuplicate, PushRefused
  <2>3. CASE PushAccept(c) \/ AppendOp(c) \/ AppendFails(c) \/ PushAck(c)
    <3>1. CASE PushAck(c) \/ AppendOp(c)
      <4>1. CASE PushAck(c)
        BY <1>2, <4>1 DEF PushAck
      <4>2. CASE AppendOp(c)
        <5>1. proc' = [at |-> "append", who |-> c, i |-> proc.i + 1]
          BY <4>2, Zenon DEF AppendOp
        <5> QED BY <1>2, <5>1
      <4> QED BY <3>1, <4>1, <4>2
    <3>2. CASE PushAccept(c)
      <4>1. PICK k \in DOMAIN sent[c] : proc' = [at |-> "append", who |-> c, i |-> k]
        BY <3>2 DEF PushAccept
      <4> QED BY <1>2, <4>1
    <3>3. CASE AppendFails(c)
      <4>1. proc'.at = "idle"
        BY <3>3 DEF AppendFails
      <4> QED BY <1>2, <4>1
    <3> QED BY <2>3, <3>1, <3>2, <3>3
  <2>4. CASE BeginCommit(c)
    BY <1>2, <2>1, <2>4 DEF BeginCommit
  <2> QED BY <1>5, <2>2, <2>3, <2>4
<1>6. CASE \/ (ApplyOp /\ proc.who # Publisher) \/ ApplyFails \/ GitCommit \/ TruncateClient
           \/ TruncateFails \/ FinishCommit
  BY <1>2, <1>6 DEF ApplyOp, ApplyFails, GitCommit, TruncateClient, TruncateFails, Abandon,
     Drop, FinishCommit
<1>7. CASE \/ Restore \/ Hydrate \/ HydrateDone \/ Crash \/ Evict
           \/ (\E idlers \in SUBSET Clients : IdemTick(idlers))
  <2>1. CASE Crash \/ Evict
    BY <1>2, <2>1 DEF Crash, Evict, Drop
  <2>2. CASE HydrateDone \/ (\E idlers \in SUBSET Clients : IdemTick(idlers))
    BY <1>1, <2>2 DEF HydrateDone, IdemTick
  <2>3. CASE Restore
    BY <1>2, <2>3 DEF Restore, Free
  <2>4. CASE Hydrate
    BY <1>2, <2>4 DEF Hydrate, HandlersUp
  <2> QED BY <1>7, <2>1, <2>2, <2>3, <2>4
<1>8. CASE UNCHANGED vars
  BY <1>1, <1>8 DEF vars
<1> QED
  BY <1>3, <1>4, <1>5, <1>6, <1>7, <1>8 DEF Next, ClientStep, PushStep, CommitStep

\* The commit of a publish is one of the desired trees, to the letter, whatever
\* the worktree held, whatever fails, and whatever is staged beside it.
THEOREM PublishesAreExact == Spec => PublishedExactly
<1> USE DEF store, walVars, cache, sessions, clients, history, bounds
<1>1. Init => TypeOK /\ HandlersUp /\ PublishInv
  <2>1. Init => HandlersUp /\ PublishInv
    BY DEF Init, HandlersUp, PublishInv, Idle, At
  <2> QED BY <2>1, TypeInit
<1>2. TypeOK /\ HandlersUp /\ PublishInv /\ [Next]_vars => (TypeOK /\ HandlersUp /\ PublishInv)'
  BY TypeStep, HandlersStep, PublishStep
<1>3. TypeOK /\ HandlersUp /\ PublishInv /\ [Next]_vars =>
        [proc.who = Publisher /\ proc.at = "apply" /\ commits' # commits
           => commits'[Len(commits')] \in Desired]_vars
  <2> SUFFICES ASSUME TypeOK, HandlersUp, PublishInv, Next,
                      proc.who = Publisher, proc.at = "apply", commits' # commits
               PROVE  commits'[Len(commits')] \in Desired
    OBVIOUS
  <2>1. GitCommit
    <3>1. ~Restore /\ ~Hydrate
      BY DEF Restore, Free, Idle, At, Hydrate, HandlersUp
    <3>2. ASSUME NEW c \in Clients
          PROVE  ~(ClientStep(c) \/ PushStep(c) \/ BeginCommit(c))
      BY DEF ClientStep, PushStep, NewBatch, Hello, Disconnect, PushDuplicate, PushRefused,
         PushAccept, PushAck, AppendOp, AppendFails, BeginCommit
    <3>3. ~(ApplyOp \/ ApplyFails \/ TruncateClient \/ TruncateFails \/ FinishCommit)
      BY DEF ApplyOp, ApplyFails, TruncateClient, TruncateFails, FinishCommit
    <3>4. ~(Crash \/ Evict \/ HydrateDone) /\ \A idlers \in SUBSET Clients : ~IdemTick(idlers)
      BY DEF Crash, Evict, HydrateDone, IdemTick
    <3>5. \A t \in Desired : ~Publish(t)
      BY DEF Publish
    <3> QED BY <3>1, <3>2, <3>3, <3>4, <3>5 DEF Next, CommitStep
  <2>2. PICK t \in Desired : Towards(t, stages[Publisher]) /\ Leads(t, stages[Publisher], proc.i)
    BY DEF PublishInv
  <2>3. /\ wtree \in Trees /\ t \in Trees /\ commits \in Seq(Trees) /\ proc.i \in Nat
        /\ stages[Publisher] \in Seq(Ops) /\ ~(proc.i <= Len(stages[Publisher]))
    BY <2>1, TreesAssumption DEF GitCommit, Applying, TypeOK, Committers
  <2>4. \A p \in Paths : wtree[p] = t[p]
    <3> TAKE p \in Paths
    <3>1. ~\E i \in DOMAIN stages[Publisher] : i >= proc.i
      BY <2>3, LenProperties
    <3> QED BY <2>2, <3>1 DEF Leads
  <2>5. wtree = t
    BY <2>3, <2>4 DEF Trees
  <2>6. commits' = Append(commits, wtree)
    BY <2>1 DEF GitCommit
  <2> QED BY <2>3, <2>5, <2>6, AppendProperties
<1> QED
  BY <1>1, <1>2, <1>3, PTL DEF Spec, PublishedExactly
=============================================================================
