------------------------ MODULE HubDurabilityProofs -------------------------
(***************************************************************************)
(* The type invariant of HubVault and what no crash takes from it, for     *)
(* every set of clients, paths, contents and batches and every bound.      *)
(*                                                                         *)
(* TypeOK is inductive on its own.  No acked op is lost (AckedDurable), as *)
(* long as no fault is of a kind that tears a frame of the log or moves    *)
(* the log away from its handle.  DurableInv is the inductive invariant;   *)
(* each of its parts has a lemma that says every step keeps it.  From it   *)
(* the vault implements VaultLog, the promise to its clients.              *)
(***************************************************************************)
EXTENDS HubVault, FiniteSetTheorems, SequenceTheorems, TLAPS

\* An op built from an intent is an op, and making an op of a tree gives a tree.
LEMMA OpType ==
  ASSUME NEW x \in Intents, NEW n \in Nat
  PROVE  Op(n, x) \in Ops
BY DEF Op, Ops, Intents

LEMMA EffectType ==
  ASSUME NEW x \in Ops, NEW t \in Trees
  PROVE  Effect(x, t) \in Trees
<1>1. CASE x.type = "write"
  BY <1>1 DEF Effect, Ops, OpTypes, Trees
<1>2. CASE x.type = "delete"
  BY <1>2 DEF Effect, Ops, OpTypes, Trees, States
<1>3. CASE x.type = "rename"
  BY <1>3 DEF Effect, Ops, OpTypes, Trees, States
<1> QED
  BY <1>1, <1>2, <1>3 DEF Ops, OpTypes

\* A batch, as its client numbers it, is a sequence of ops.
LEMMA BatchType ==
  ASSUME NEW b \in Batches, NEW n \in Nat, n >= 1
  PROVE  [i \in DOMAIN b |-> Op(n + i - 1, b[i])] \in Seq(Ops)
<1>1. b \in Seq(Intents)
  BY BatchesAssumption
<1>2. \A i \in 1..Len(b) : b[i] \in Intents /\ n + i - 1 \in Nat
  BY <1>1
<1>3. \A i \in 1..Len(b) : Op(n + i - 1, b[i]) \in Ops
  BY <1>2, OpType
<1>4. DOMAIN b = 1..Len(b) /\ Len(b) \in Nat
  BY <1>1
<1> DEFINE s == [i \in 1..Len(b) |-> Op(n + i - 1, b[i])]
<1>5. s \in [1..Len(b) -> Ops]
  BY <1>3
<1>6. s \in Seq(Ops)
  BY <1>4, <1>5
<1> QED
  BY <1>4, <1>6

\* The elements of a finite set, in some order.
LEMMA SetToSeqType ==
  ASSUME NEW S, IsFiniteSet(S)
  PROVE  SetToSeq(S) \in Seq(S)
<1>1. Cardinality(S) \in Nat /\ ExistsBijection(1..Cardinality(S), S)
  BY FS_CardinalityType
<1>2. PICK f : f \in Bijection(1..Cardinality(S), S)
  BY <1>1 DEF ExistsBijection
<1>3. f \in [1..Cardinality(S) -> S] /\ IsInjective(f)
  BY <1>2 DEF Bijection, Injection, IsInjective
<1>4. SetToSeq(S) \in [1..Cardinality(S) -> S]
  BY <1>3 DEF SetToSeq
<1> QED
  BY <1>1, <1>4

\* What a publish stages is a sequence of ops.
LEMMA PublishingType ==
  ASSUME NEW t \in Trees, wtree \in Trees
  PROVE  Publishing(t) \in Seq(Ops)
<1> DEFINE W == {q \in Paths : t[q] # Absent /\ t[q] # wtree[q]}
           D == {q \in Paths : t[q] = Absent /\ wtree[q] # Absent}
           WOps == {Op(1, Write(p, Absent, t[p])) : p \in W}
           DOps == {Op(1, Delete(p, wtree[p])) : p \in D}
<1>1. IsFiniteSet(W) /\ IsFiniteSet(D)
  BY PathsAssumption, FS_Subset
<1>2. IsFiniteSet(WOps) /\ WOps \subseteq Ops
  <2> DEFINE f == [p \in W |-> Op(1, Write(p, Absent, t[p]))]
  <2>1. f \in Surjection(W, WOps)
    BY DEF Surjection
  <2>2. \A p \in W : Write(p, Absent, t[p]) \in Intents
    BY DEF Write, Intents, OpTypes, Trees, States
  <2> QED
    BY <1>1, <2>1, <2>2, FS_Surjection, OpType
<1>3. IsFiniteSet(DOps) /\ DOps \subseteq Ops
  <2> DEFINE f == [p \in D |-> Op(1, Delete(p, wtree[p]))]
  <2>1. f \in Surjection(D, DOps)
    BY DEF Surjection
  <2>2. \A p \in D : Delete(p, wtree[p]) \in Intents
    BY DEF Delete, Intents, OpTypes, Trees, States
  <2> QED
    BY <1>1, <2>1, <2>2, FS_Surjection, OpType
<1>4. SetToSeq(WOps) \in Seq(WOps) /\ SetToSeq(DOps) \in Seq(DOps)
  BY <1>2, <1>3, SetToSeqType
<1>5. SetToSeq(WOps) \in Seq(Ops) /\ SetToSeq(DOps) \in Seq(Ops)
  <2> HIDE DEF WOps, DOps
  <2> QED BY <1>2, <1>3, <1>4, SeqMonotonic
<1>6. Publishing(t) = SetToSeq(WOps) \o SetToSeq(DOps)
  BY DEF Publishing
<1> HIDE DEF WOps, DOps
<1> QED
  BY <1>5, <1>6
-----------------------------------------------------------------------------
(***************************************************************************)
(* Type correctness                                                        *)
(***************************************************************************)
\* The holder of fileMu.
ProcStates == [at : Phases, who : Committers, i : Nat]

LEMMA AtType ==
  ASSUME NEW ph \in Phases, NEW c \in Committers, NEW n \in Nat
  PROVE  At(ph, c, n) \in ProcStates /\ Idle \in ProcStates
BY DEF At, Idle, ProcStates, Phases, Committers

\* The initial state is typed.
LEMMA TypeInit == Init => TypeOK
<1> SUFFICES ASSUME Init PROVE TypeOK
  OBVIOUS
<1>1. [p \in Paths |-> Absent] \in Trees
  BY DEF Trees, States
<1>2. commits \in Seq(Trees) /\ commits # << >>
  BY <1>1 DEF Init
<1>3. NoRings \in [Clients -> [Paths -> Seq(States)]]
  BY EmptySeq DEF NoRings
<1>4. Idle \in ProcStates
  BY AtType DEF Phases, Committers
<1>5. [c \in Clients |-> << >>] \in [Clients -> Seq(Ops)]
  BY EmptySeq
<1>6. [c \in Committers |-> << >>] \in [Committers -> Seq(Ops)]
  BY EmptySeq
<1>7. /\ wtree \in Trees /\ shadow \in Trees
      /\ wal \in [Clients -> Seq(Ops)] /\ log \in [Clients -> Seq(Ops)]
      /\ sent \in [Clients -> Seq(Ops)] /\ stages \in [Committers -> Seq(Ops)]
  BY <1>1, <1>5, <1>6 DEF Init
<1>8. idem \in [Clients -> Nat] /\ idemDisk \in [Clients -> Nat] /\ nextSeq \in [Clients -> Nat \ {0}]
  BY DEF Init
<1>9. told \in [Clients -> SUBSET OpIds]
  BY DEF Init
<1>10. Idle.at = "idle"
  BY DEF Idle, At
<1>11. torn \in BOOLEAN
  BY Zenon DEF Init
<1> QED
  BY <1>2, <1>3, <1>4, <1>7, <1>8, <1>9, <1>10, <1>11 DEF Init, TypeOK, ProcStates

\* The ops of a client are known by its id and their seqs.
LEMMA IdsType ==
  ASSUME NEW c \in Committers, NEW s \in Seq(Ops)
  PROVE  Ids(c, s) \subseteq OpIds
<1>1. \A i \in DOMAIN s : s[i] \in Ops
  OBVIOUS
<1>2. Seqs(s) \subseteq Nat
  BY <1>1 DEF Seqs, Ops
<1> QED
  BY <1>2 DEF Ids, OpIds, Committers

\* A stuck-file ring.
LEMMA RingType ==
  ASSUME NEW r \in Seq(States)
  PROVE  Ring(r) \in Seq(States)
BY BoundsAssumption DEF Ring

\* Losing the in-memory state keeps it typed.
LEMMA DropType ==
  ASSUME Drop, wal' \in [Clients -> Seq(Ops)]
  PROVE  /\ stages' \in [Committers -> Seq(Ops)]
         /\ walHandle' = "linked" /\ log' \in [Clients -> Seq(Ops)]
         /\ idem' \in [Clients -> Nat]
         /\ up' = "down" /\ headCached' = 0 /\ sizes' = {}
         /\ recent' \in [Clients -> [Paths -> Seq(States)]]
         /\ conn' = {} /\ told' \in [Clients -> SUBSET OpIds]
         /\ proc' \in ProcStates
<1>1. NoRings \in [Clients -> [Paths -> Seq(States)]]
  BY EmptySeq DEF NoRings
<1>2. Idle \in ProcStates
  BY AtType DEF Phases, Committers
<1>3. [c \in Committers |-> << >>] \in [Committers -> Seq(Ops)]
  BY EmptySeq
<1> QED
  BY <1>1, <1>2, <1>3 DEF Drop

\* So does giving up a commit.
LEMMA AbandonType ==
  ASSUME TypeOK, wal' \in [Clients -> Seq(Ops)],
         NEW h \in {"linked", "orphan", "closed"}, Abandon(h)
  PROVE  /\ stages' \in [Committers -> Seq(Ops)]
         /\ walHandle' \in {"linked", "orphan", "closed"}
         /\ log' \in [Clients -> Seq(Ops)]
         /\ idem' \in [Clients -> Nat]
         /\ up' \in {"down", "hydrating", "serving"}
         /\ headCached' \in Nat /\ sizes' \subseteq Paths
         /\ recent' \in [Clients -> [Paths -> Seq(States)]]
         /\ conn' \subseteq Clients /\ told' \in [Clients -> SUBSET OpIds]
         /\ proc' \in ProcStates
<1>1. CASE up = "hydrating"
  BY <1>1, DropType DEF Abandon
<1>2. CASE up # "hydrating"
  <2>1. Idle \in ProcStates
    BY AtType DEF Phases, Committers
  <2>2. [stages EXCEPT ![Publisher] = << >>] \in [Committers -> Seq(Ops)]
    BY EmptySeq DEF TypeOK
  <2> QED
    BY <1>2, <2>1, <2>2 DEF Abandon, TypeOK, cache, sessions
<1> QED
  BY <1>1, <1>2

\* The batch on the wire stays or is done with.
LEMMA ReplyType ==
  ASSUME TypeOK, NEW c \in Clients, Reply(c)
  PROVE  sent' \in [Clients -> Seq(Ops)]
<1>1. << >> \in Seq(Ops)
  BY EmptySeq
<1> QED
  BY <1>1 DEF Reply, TypeOK

\* The op being appended.
LEMMA AppendingType ==
  ASSUME TypeOK, NEW c \in Clients, Appending(c)
  PROVE  proc.i \in 1..Len(sent[c]) /\ sent[c][proc.i] \in Ops
<1>1. sent[c] \in Seq(Ops) /\ proc.i \in Nat /\ proc.i >= 1
  BY DEF TypeOK, Appending
<1>2. proc.i \in 1..Len(sent[c])
  BY <1>1 DEF Appending
<1> QED
  BY <1>1, <1>2, ElementOfSeq

\* The op being applied.
LEMMA ApplyingType ==
  ASSUME TypeOK, Applying
  PROVE  /\ proc.i \in 1..Len(stages[proc.who])
         /\ stages[proc.who][proc.i] \in Ops
<1>1. stages[proc.who] \in Seq(Ops) /\ proc.i \in Nat /\ proc.i >= 1
  BY DEF TypeOK, Applying
<1>2. proc.i \in 1..Len(stages[proc.who])
  BY <1>1 DEF Applying
<1> QED
  BY <1>1, <1>2, ElementOfSeq

\* A logged frame is an op.
LEMMA WalAppendType ==
  ASSUME TypeOK, NEW c \in Clients, NEW x \in Ops, WalAppend(c, x)
  PROVE  wal' \in [Clients -> Seq(Ops)] /\ log' \in [Clients -> Seq(Ops)]
<1>1. log[c] \in Seq(Ops) /\ log \in [Clients -> Seq(Ops)] /\ wal \in [Clients -> Seq(Ops)]
  BY DEF TypeOK
<1>2. Append(log[c], x) \in Seq(Ops)
  BY <1>1, AppendProperties
<1>3. log' \in [Clients -> Seq(Ops)]
  BY <1>1, <1>2 DEF WalAppend
<1> QED
  BY <1>1, <1>3 DEF WalAppend

\* A stage that grows by an op.
LEMMA StageAppendType ==
  ASSUME TypeOK, NEW c \in Clients, NEW x \in Ops,
         stages' = [stages EXCEPT ![c] = Append(@, x)]
  PROVE  stages' \in [Committers -> Seq(Ops)]
<1>1. stages \in [Committers -> Seq(Ops)] /\ stages[c] \in Seq(Ops)
  BY DEF TypeOK, Committers
<1>2. Append(stages[c], x) \in Seq(Ops)
  BY <1>1, AppendProperties
<1> QED
  BY <1>1, <1>2

\* Truncation keeps a log.
LEMMA KeptType ==
  ASSUME TypeOK, NEW c
  PROVE  Kept(c) \in [Clients -> Seq(Ops)]
<1>1. << >> \in Seq(Ops)
  BY EmptySeq
<1> QED
  BY <1>1 DEF Kept, TypeOK

\* The current head is one of the trees, and a history that grows stays one.
LEMMA HeadType ==
  ASSUME TypeOK
  PROVE  /\ HeadTree \in Trees /\ Len(commits) \in Nat
         /\ \A t \in Trees : Append(commits, t) \in Seq(Trees) /\ Append(commits, t) # << >>
<1>1. commits \in Seq(Trees) /\ commits # << >>
  BY DEF TypeOK
<1>2. Len(commits) \in Nat \ {0}
  BY <1>1, EmptySeq
<1>3. \A t \in Trees : Append(commits, t) \in Seq(Trees) /\ Append(commits, t) # << >>
  BY <1>1, AppendProperties
<1> QED
  BY <1>1, <1>2, <1>3 DEF HeadTree

\* Every step keeps TypeOK.
LEMMA TypeStep == TypeOK /\ [Next]_vars => TypeOK'
<1> SUFFICES ASSUME TypeOK, [Next]_vars PROVE TypeOK'
  OBVIOUS
<1> USE DEF store, walVars, cache, sessions, clients, history, bounds
<1>a. Publisher \in Committers /\ \A c \in Clients : c \in Committers
  BY DEF Committers
<1>b. Idle \in ProcStates /\ Idle.at = "idle"
  BY AtType DEF Idle, At, Phases, Committers
<1>c. << >> \in Seq(Ops)
  BY EmptySeq
<1>1. ASSUME NEW c \in Clients, NewBatch(c) PROVE TypeOK'
  <2>1. PICK b \in Batches :
          /\ sent' = [sent EXCEPT ![c] = [i \in DOMAIN b |-> Op(nextSeq[c] + i - 1, b[i])]]
          /\ nextSeq' = [nextSeq EXCEPT ![c] = @ + Len(b)]
    BY <1>1 DEF NewBatch
  <2>2. nextSeq[c] \in Nat /\ nextSeq[c] >= 1
    BY DEF TypeOK
  <2>3. [i \in DOMAIN b |-> Op(nextSeq[c] + i - 1, b[i])] \in Seq(Ops)
    BY <2>2, BatchType
  <2>4. Len(b) \in Nat
    BY BatchesAssumption, LenProperties
  <2>5. sent' \in [Clients -> Seq(Ops)]
    BY <2>1, <2>3 DEF TypeOK
  <2>6. nextSeq' \in [Clients -> Nat \ {0}]
    BY <2>1, <2>2, <2>4 DEF TypeOK
  <2> QED
    BY <1>1, <2>5, <2>6 DEF TypeOK, NewBatch
<1>2. ASSUME NEW c \in Clients, Hello(c) PROVE TypeOK'
  BY <1>2 DEF TypeOK, Hello
<1>3. ASSUME NEW c \in Clients, Disconnect(c) PROVE TypeOK'
  BY <1>3 DEF TypeOK, Disconnect
<1>4. ASSUME NEW c \in Clients, PushDuplicate(c) PROVE TypeOK'
  <2>1. sent' \in [Clients -> Seq(Ops)]
    BY <1>4, ReplyType DEF PushDuplicate
  <2>2. acked' \subseteq OpIds
    BY <1>4, <1>a, IdsType DEF PushDuplicate, TypeOK
  <2> QED
    BY <1>4, <2>1, <2>2 DEF TypeOK, PushDuplicate
<1>5. ASSUME NEW c \in Clients, PushRefused(c) PROVE TypeOK'
  BY <1>5, <1>c DEF TypeOK, PushRefused
<1>6. ASSUME NEW c \in Clients, PushAccept(c) PROVE TypeOK'
  <2>1. PICK k \in DOMAIN sent[c] : proc' = At("append", c, k)
    BY <1>6 DEF PushAccept
  <2>2. k \in Nat /\ k >= 1
    BY DEF TypeOK
  <2>3. proc' \in ProcStates /\ proc'.who = c /\ proc'.i = k
    BY <1>a, <2>1, <2>2, AtType DEF Phases, At
  <2> QED
    BY <1>6, <2>2, <2>3 DEF TypeOK, PushAccept, ProcStates
<1>7. ASSUME NEW c \in Clients, AppendOp(c) PROVE TypeOK'
  <2> DEFINE x == sent[c][proc.i]
  <2>1. x \in Ops /\ proc.i + 1 \in Nat /\ proc.i + 1 >= 1
    BY <1>7, AppendingType DEF AppendOp, TypeOK
  <2>2. stages' \in [Committers -> Seq(Ops)]
    BY <1>7, <2>1, StageAppendType DEF AppendOp
  <2>3. wal' \in [Clients -> Seq(Ops)] /\ log' \in [Clients -> Seq(Ops)]
    BY <1>7, <2>1, WalAppendType DEF AppendOp
  <2>4. idem' \in [Clients -> Nat]
    BY <1>7, <2>1 DEF AppendOp, TypeOK, Ops
  <2>5. recent' \in [Clients -> [Paths -> Seq(States)]]
    <3> DEFINE r == recent[c][x.path]
    <3>1. x.path \in Paths /\ x.data \in States
      BY <2>1 DEF Ops
    <3>2. r \in Seq(States)
      BY <3>1 DEF TypeOK
    <3>3. Append(Ring(r), x.data) \in Seq(States)
      BY <3>1, <3>2, RingType, AppendProperties
    <3>4. recent' = [recent EXCEPT ![c][x.path] = Append(Ring(r), x.data)]
      BY <1>7 DEF AppendOp
    <3> HIDE DEF x, r
    <3> QED
      BY <3>1, <3>3, <3>4 DEF TypeOK
  <2>6. shadow' \in Trees
    BY <1>7, <2>1, EffectType DEF AppendOp, TypeOK
  <2>7. proc' \in ProcStates /\ proc'.who = c /\ proc'.i = proc.i + 1
    BY <1>7, <1>a, <2>1, AtType DEF AppendOp, Phases, At
  <2> HIDE DEF x
  <2> QED
    BY <1>7, <2>1, <2>2, <2>3, <2>4, <2>5, <2>6, <2>7 DEF TypeOK, AppendOp, ProcStates
<1>8. ASSUME NEW c \in Clients, AppendFails(c) PROVE TypeOK'
  <2> DEFINE x == sent[c][proc.i]
  <2>1. x \in Ops
    BY <1>8, AppendingType DEF AppendFails
  <2>2. stages' \in [Committers -> Seq(Ops)]
    BY <1>8, <2>1, StageAppendType DEF AppendFails
  <2>3. /\ wal' \in [Clients -> Seq(Ops)] /\ log' \in [Clients -> Seq(Ops)]
        /\ torn' \in BOOLEAN /\ faults' \in Nat
    <3>1. \/ UNCHANGED <<wal, log>>
          \/ WalAppend(c, x)
      BY <1>8 DEF AppendFails
    <3>2. faults' = faults \/ faults' = faults + 1
      BY <1>8 DEF AppendFails, Fault
    <3>3. torn' = torn \/ torn' = TRUE
      BY <1>8 DEF AppendFails
    <3>4. torn' \in BOOLEAN
      BY <3>3, Zenon DEF TypeOK
    <3>5. wal' \in [Clients -> Seq(Ops)] /\ log' \in [Clients -> Seq(Ops)]
      BY <2>1, <3>1, WalAppendType DEF TypeOK
    <3>6. faults' \in Nat
      BY <3>2 DEF TypeOK
    <3> QED
      BY <3>4, <3>5, <3>6
  <2>4. sent' \in [Clients -> Seq(Ops)]
    BY <1>8, ReplyType DEF AppendFails
  <2>5. proc' = Idle
    BY <1>8 DEF AppendFails
  <2> HIDE DEF x
  <2> QED
    BY <1>8, <1>b, <2>2, <2>3, <2>4, <2>5 DEF TypeOK, AppendFails, ProcStates
<1>9. ASSUME NEW c \in Clients, PushAck(c) PROVE TypeOK'
  <2>1. sent' \in [Clients -> Seq(Ops)]
    BY <1>9, ReplyType DEF PushAck
  <2>2. acked' \subseteq OpIds
    BY <1>9, <1>a, IdsType DEF PushAck, TypeOK
  <2>3. proc' = Idle
    BY <1>9 DEF PushAck
  <2> QED
    BY <1>9, <1>b, <2>1, <2>2, <2>3 DEF TypeOK, PushAck, ProcStates
<1>10. ASSUME NEW c \in Clients, BeginCommit(c) PROVE TypeOK'
  <2>1. proc' \in ProcStates /\ proc'.at = "apply" /\ proc'.i = 1
    BY <1>10, <1>a, AtType DEF BeginCommit, Phases, At
  <2> QED
    BY <1>10, <2>1 DEF TypeOK, BeginCommit, ProcStates
<1>11. ASSUME NEW t \in Desired, Publish(t) PROVE TypeOK'
  <2>1. Publishing(t) \in Seq(Ops)
    BY PublishingType, TreesAssumption DEF TypeOK
  <2>2. stages' \in [Committers -> Seq(Ops)]
    BY <1>11, <2>1 DEF Publish, TypeOK
  <2>3. proc' \in ProcStates /\ proc'.at = "apply" /\ proc'.i = 1
    BY <1>11, <1>a, AtType DEF Publish, Phases, At
  <2> QED
    BY <1>11, <2>2, <2>3 DEF TypeOK, Publish, ProcStates
<1>12. CASE ApplyOp
  <2> DEFINE x == stages[proc.who][proc.i]
  <2>1. x \in Ops /\ proc.i + 1 \in Nat /\ proc.i + 1 >= 1 /\ proc.who \in Committers
    BY <1>12, ApplyingType DEF ApplyOp, TypeOK
  <2>2. wtree' \in Trees
    BY <1>12, <2>1, EffectType DEF ApplyOp, TypeOK
  <2>3. proc' \in ProcStates /\ proc'.at = "apply" /\ proc'.i = proc.i + 1
    BY <1>12, <2>1, AtType DEF ApplyOp, Phases, At
  <2> HIDE DEF x
  <2> QED
    BY <1>12, <2>1, <2>2, <2>3 DEF TypeOK, ApplyOp, ProcStates
<1>13. CASE ApplyFails
  <2>1. walHandle \in {"linked", "orphan", "closed"} /\ wal' \in [Clients -> Seq(Ops)]
    BY <1>13 DEF TypeOK, ApplyFails
  <2>2. Abandon(walHandle)
    BY <1>13 DEF ApplyFails
  <2>3. faults' \in Nat
    BY <1>13 DEF ApplyFails, Fault, TypeOK
  <2>4. proc' = Idle
    BY <2>2 DEF Abandon, Drop
  <2> QED
    BY <1>13, <1>b, <2>1, <2>2, <2>3, <2>4, AbandonType DEF TypeOK, ApplyFails, ProcStates
<1>14. CASE GitCommit
  <2>1. commits' \in Seq(Trees) /\ commits' # << >>
    BY <1>14, HeadType DEF GitCommit, TypeOK
  <2>2. stages[proc.who] \in Seq(Ops) /\ proc.who \in Committers
    BY DEF TypeOK
  <2>3. committed' \subseteq OpIds
    BY <1>14, <2>2, IdsType DEF GitCommit, TypeOK
  <2>4. proc' \in ProcStates /\ proc'.at = "truncate"
    BY <1>14, <2>2, AtType DEF GitCommit, Phases, At
  <2> QED
    BY <1>14, <2>1, <2>3, <2>4 DEF TypeOK, GitCommit, ProcStates
<1>15. CASE TruncateClient
  <2>1. proc.who \in Committers
    BY DEF TypeOK
  <2>2. wal' \in [Clients -> Seq(Ops)] /\ log' \in [Clients -> Seq(Ops)]
    BY <1>15, KeptType DEF TruncateClient
  <2>3. proc' \in ProcStates /\ proc'.at = "persist"
    BY <1>15, <2>1, AtType DEF TruncateClient, Phases, At
  <2> QED
    BY <1>15, <2>2, <2>3 DEF TypeOK, TruncateClient, ProcStates
<1>16. CASE TruncateFails
  <2>1. PICK h \in {"linked", "orphan", "closed"} : Abandon(h)
    BY <1>16 DEF TruncateFails, TypeOK
  <2>2. wal' \in [Clients -> Seq(Ops)]
    <3>1. wal' = wal \/ wal' = Kept(proc.who)
      BY <1>16 DEF TruncateFails
    <3>2. wal \in [Clients -> Seq(Ops)]
      BY DEF TypeOK
    <3> QED
      BY <3>1, <3>2, KeptType
  <2>3. faults' \in Nat
    <3>1. faults' = faults \/ faults' = faults + 1
      BY <1>16 DEF TruncateFails, Fault
    <3>2. faults \in Nat
      BY DEF TypeOK
    <3> QED
      BY <3>1, <3>2
  <2>4. torn' \in BOOLEAN
    <3>1. torn' = torn \/ torn' = FALSE \/ torn' = (torn /\ Serving)
      BY <1>16, Zenon DEF TruncateFails
    <3> QED
      BY <3>1, Zenon DEF TypeOK
  <2>5. proc' = Idle
    BY <2>1 DEF Abandon, Drop
  <2> QED
    BY <1>16, <1>b, <2>1, <2>2, <2>3, <2>4, <2>5, AbandonType DEF TypeOK, TruncateFails, ProcStates
<1>17. CASE FinishCommit
  <2>1. stages[proc.who] \in Seq(Ops) /\ proc.who \in Committers
    BY DEF TypeOK
  <2>2. told' \in [Clients -> SUBSET OpIds]
    BY <1>17, <2>1, IdsType DEF FinishCommit, Broadcast, TypeOK
  <2>3. recent' \in [Clients -> [Paths -> Seq(States)]]
    BY <1>17, EmptySeq DEF FinishCommit, TypeOK
  <2>4. headCached' \in Nat
    BY <1>17, HeadType DEF FinishCommit, NewHead
  <2>5. sizes' \subseteq Paths
    BY <1>17 DEF FinishCommit, Track
  <2>6. stages' \in [Committers -> Seq(Ops)]
    BY <1>17, <1>c DEF FinishCommit, TypeOK
  <2>7. idemDisk' \in [Clients -> Nat] /\ faults' \in Nat
    BY <1>17 DEF FinishCommit, Fault, TypeOK
  <2>8. proc' = Idle
    BY <1>17 DEF FinishCommit
  <2> QED
    BY <1>17, <1>b, <2>2, <2>3, <2>4, <2>5, <2>6, <2>7, <2>8
    DEF TypeOK, FinishCommit, ProcStates
<1>18. CASE Restore
  <2>1. PICK k \in DOMAIN commits :
          commits' = Append(commits, commits[k]) /\ wtree' = commits[k]
    BY <1>18 DEF Restore
  <2>2. commits[k] \in Trees
    BY DEF TypeOK
  <2>3. commits' \in Seq(Trees) /\ commits' # << >>
    BY <2>1, <2>2, HeadType
  <2>4. headCached' \in Nat
    BY <1>18, <2>3, LenProperties DEF Restore, NewHead
  <2> QED
    BY <1>18, <2>1, <2>2, <2>3, <2>4 DEF TypeOK, Restore
<1>19. ASSUME NEW idlers \in SUBSET Clients, IdemTick(idlers) PROVE TypeOK'
  BY <1>19 DEF TypeOK, IdemTick
<1>20. CASE Crash
  <2>1. wal' \in [Clients -> Seq(Ops)] /\ crashes' \in Nat
    BY <1>20 DEF Crash, TypeOK
  <2>2. torn' \in BOOLEAN
    BY <1>20, Zenon DEF Crash, TypeOK
  <2>3. Drop
    BY <1>20 DEF Crash
  <2>4. proc' = Idle
    BY <2>3 DEF Drop
  <2> QED
    BY <1>20, <1>b, <2>1, <2>2, <2>3, <2>4, DropType DEF TypeOK, Crash, ProcStates
<1>21. CASE Evict
  <2>1. wal' \in [Clients -> Seq(Ops)] /\ torn' \in BOOLEAN
    BY <1>21 DEF Evict, TypeOK
  <2>2. Drop
    BY <1>21 DEF Evict
  <2>3. proc' = Idle
    BY <2>2 DEF Drop
  <2> QED
    BY <1>21, <1>b, <2>1, <2>2, <2>3, DropType DEF TypeOK, Evict, ProcStates
<1>22. CASE Hydrate
  <2>1. commits' \in Seq(Trees) /\ commits' # << >>
    BY <1>22, HeadType DEF Hydrate, TypeOK
  <2>2. headCached' \in Nat
    BY <1>22, <2>1, LenProperties DEF Hydrate, NewHead
  <2>3. idem' \in [Clients -> Nat]
    BY <1>22, BoundsAssumption DEF Hydrate, ReplayedIdem
  <2>4. stages' \in [Committers -> Seq(Ops)]
    BY <1>22, <1>c DEF Hydrate, TypeOK
  <2>5. sizes' \subseteq Paths
    BY <1>22 DEF Hydrate, Files
  <2> QED
    BY <1>22, <2>1, <2>2, <2>3, <2>4, <2>5 DEF TypeOK, Hydrate
<1>23. CASE HydrateDone
  BY <1>23 DEF TypeOK, HydrateDone
<1>24. CASE UNCHANGED vars
  BY <1>24 DEF TypeOK, vars
<1> QED
  BY <1>1, <1>2, <1>3, <1>4, <1>5, <1>6, <1>7, <1>8, <1>9, <1>10, <1>11, <1>12,
     <1>13, <1>14, <1>15, <1>16, <1>17, <1>18, <1>19, <1>20, <1>21, <1>22, <1>23, <1>24
  DEF Next, ClientStep, PushStep, CommitStep

\* Every variable keeps its type, for every choice of the constants.
THEOREM TypeCorrect == Spec => []TypeOK
BY TypeInit, TypeStep, PTL DEF Spec
-----------------------------------------------------------------------------
(***************************************************************************)
(* No acked op is lost                                                     *)
(***************************************************************************)
\* The faults the WAL survives.
NoLoss == "tear" \notin FaultKinds /\ "dirsync" \notin FaultKinds

\* The seqs of a sequence of ops that grows by one.
LEMMA SeqsAppend ==
  ASSUME NEW s \in Seq(Ops), NEW x \in Ops
  PROVE  Seqs(Append(s, x)) = Seqs(s) \cup {x.seq}
<1>1. /\ Len(Append(s, x)) = Len(s) + 1 /\ Append(s, x)[Len(s) + 1] = x
      /\ \A i \in 1..Len(s) : Append(s, x)[i] = s[i]
      /\ DOMAIN Append(s, x) = 1..(Len(s) + 1) /\ DOMAIN s = 1..Len(s) /\ Len(s) \in Nat
  BY AppendProperties, LenProperties
<1>2. 1..(Len(s) + 1) = 1..Len(s) \cup {Len(s) + 1}
  BY <1>1
<1> QED
  BY <1>1, <1>2 DEF Seqs

\* No seq is in no op.
LEMMA SeqsEmpty == Seqs(<< >>) = {}
BY DEF Seqs

\* Seqs are numbers.
LEMMA SeqsType ==
  ASSUME NEW s \in Seq(Ops)
  PROVE  Seqs(s) \subseteq Nat
<1>1. \A i \in DOMAIN s : s[i] \in Ops
  OBVIOUS
<1> QED
  BY <1>1 DEF Seqs, Ops

\* The id of an op names its client.
LEMMA IdsMember ==
  ASSUME NEW c \in Clients, NEW d \in Committers, NEW s, NEW n
  PROVE  <<c, n>> \in Ids(d, s) <=> c = d /\ n \in Seqs(s)
BY ClientsAssumption DEF Ids, Committers
-----------------------------------------------------------------------------
\* The handle stays on the log that a replay reads.
LEMMA IntactStep ==
  ASSUME NoLoss, TypeOK, LogIntact, [Next]_vars
  PROVE  LogIntact'
<1> USE DEF store, walVars, cache, sessions, clients, history, bounds, LogIntact
<1>1. ASSUME NEW c \in Clients,
             NewBatch(c) \/ Hello(c) \/ Disconnect(c) \/ PushDuplicate(c) \/ PushRefused(c)
             \/ PushAccept(c) \/ PushAck(c) \/ BeginCommit(c)
      PROVE  LogIntact'
  BY <1>1 DEF NewBatch, Hello, Disconnect, PushDuplicate, PushRefused, PushAccept, PushAck,
              BeginCommit
<1>2. ASSUME NEW c \in Clients, AppendOp(c) PROVE LogIntact'
  BY <1>2 DEF AppendOp, WalAppend
<1>3. ASSUME NEW c \in Clients, AppendFails(c) PROVE LogIntact'
  BY <1>3 DEF AppendFails, WalAppend, Fault, NoLoss
<1>4. CASE \/ ApplyOp \/ GitCommit \/ FinishCommit \/ Restore \/ Hydrate \/ HydrateDone
           \/ (\E t \in Desired : Publish(t))
           \/ (\E idlers \in SUBSET Clients : IdemTick(idlers))
  BY <1>4 DEF ApplyOp, GitCommit, FinishCommit, Restore, Hydrate, HydrateDone, Publish, IdemTick
<1>5. CASE ApplyFails
  BY <1>5 DEF ApplyFails, Abandon, Drop
<1>6. CASE TruncateClient
  BY <1>6 DEF TruncateClient
<1>7. CASE TruncateFails
  BY <1>7 DEF TruncateFails, Abandon, Drop, Fault, NoLoss
<1>8. CASE Crash \/ Evict
  BY <1>8 DEF Crash, Evict, Drop, NoLoss
<1>9. CASE UNCHANGED vars
  BY <1>9 DEF vars
<1> QED
  BY <1>1, <1>2, <1>3, <1>4, <1>5, <1>6, <1>7, <1>8, <1>9
  DEF Next, ClientStep, PushStep, CommitStep

\* What a step does to the WAL: log one op of the batch being appended, drop
\* the entries of the client being committed, or nothing.
Logs(c) ==
  /\ Appending(c)
  /\ wal' = [wal EXCEPT ![c] = Append(@, sent[c][proc.i])]
  /\ stages' = [stages EXCEPT ![c] = Append(@, sent[c][proc.i])]
  /\ UNCHANGED <<committed, up>>

Trims ==
  /\ proc.at = "truncate"
  /\ proc.who \in Clients
  /\ wal' = [wal EXCEPT ![proc.who] = << >>]
  /\ UNCHANGED committed

LEMMA WalStep ==
  ASSUME NoLoss, TypeOK, LogIntact, [Next]_vars
  PROVE  wal' = wal \/ (\E c \in Clients : Logs(c)) \/ Trims
<1> USE DEF store, walVars, cache, sessions, clients, history, bounds, LogIntact
<1>1. ASSUME NEW c \in Clients,
             NewBatch(c) \/ Hello(c) \/ Disconnect(c) \/ PushDuplicate(c) \/ PushRefused(c)
             \/ PushAccept(c) \/ PushAck(c) \/ BeginCommit(c)
      PROVE  wal' = wal
  BY <1>1 DEF NewBatch, Hello, Disconnect, PushDuplicate, PushRefused, PushAccept, PushAck,
              BeginCommit
<1>2. ASSUME NEW c \in Clients, AppendOp(c) PROVE Logs(c)
  BY <1>2 DEF AppendOp, WalAppend, Logs, TypeOK
<1>3. ASSUME NEW c \in Clients, AppendFails(c) PROVE wal' = wal \/ Logs(c)
  BY <1>3 DEF AppendFails, WalAppend, Logs, TypeOK
<1>4. CASE \/ ApplyOp \/ ApplyFails \/ GitCommit \/ FinishCommit \/ Restore \/ Hydrate
           \/ HydrateDone \/ Crash \/ Evict
           \/ (\E t \in Desired : Publish(t))
           \/ (\E idlers \in SUBSET Clients : IdemTick(idlers))
  BY <1>4 DEF ApplyOp, ApplyFails, GitCommit, FinishCommit, Restore, Hydrate, HydrateDone,
              Crash, Evict, Publish, IdemTick
<1>5. CASE TruncateClient
  BY <1>5 DEF TruncateClient, Kept, Trims, TypeOK
<1>6. CASE TruncateFails
  BY <1>6 DEF TruncateFails, Fault, NoLoss, Kept, Trims, TypeOK
<1>7. CASE UNCHANGED vars
  BY <1>7 DEF vars
<1> QED
  BY <1>1, <1>2, <1>3, <1>4, <1>5, <1>6, <1>7
  DEF Next, ClientStep, PushStep, CommitStep

\* The seqs in the WAL, accordingly.
LEMMA WalSeqs ==
  ASSUME NoLoss, TypeOK, LogIntact, [Next]_vars, NEW d \in Clients
  PROVE  \/ wal'[d] = wal[d]
         \/ /\ Appending(d) /\ Logs(d)
            /\ Seqs(wal'[d]) = Seqs(wal[d]) \cup {sent[d][proc.i].seq}
         \/ /\ Trims /\ d = proc.who
            /\ Seqs(wal'[d]) = {}
<1>1. CASE wal' = wal
  BY <1>1
<1>2. ASSUME NEW c \in Clients, Logs(c), c = d
      PROVE  Seqs(wal'[d]) = Seqs(wal[d]) \cup {sent[d][proc.i].seq}
  <2>1. sent[d][proc.i] \in Ops
    BY <1>2, AppendingType DEF Logs
  <2>2. wal[d] \in Seq(Ops) /\ wal'[d] = Append(wal[d], sent[d][proc.i])
    BY <1>2 DEF Logs, TypeOK
  <2> QED
    BY <2>1, <2>2, SeqsAppend
<1>3. ASSUME NEW c \in Clients, Logs(c), c # d
      PROVE  wal'[d] = wal[d]
  BY <1>3 DEF Logs, TypeOK
<1>4. CASE Trims
  BY <1>4, SeqsEmpty DEF Trims, TypeOK
<1> QED
  BY <1>1, <1>2, <1>3, <1>4, WalStep DEF Logs

\* The history only grows.
LEMMA CommittedStep ==
  ASSUME TypeOK, [Next]_vars
  PROVE  committed' = committed \/ GitCommit
<1> USE DEF store, walVars, cache, sessions, clients, history, bounds
<1>1. ASSUME NEW c \in Clients,
             NewBatch(c) \/ Hello(c) \/ Disconnect(c) \/ PushDuplicate(c) \/ PushRefused(c)
             \/ PushAccept(c) \/ AppendOp(c) \/ AppendFails(c) \/ PushAck(c) \/ BeginCommit(c)
      PROVE  committed' = committed
  BY <1>1 DEF NewBatch, Hello, Disconnect, PushDuplicate, PushRefused, PushAccept, PushAck,
              AppendOp, AppendFails, BeginCommit
<1>2. CASE \/ ApplyOp \/ ApplyFails \/ TruncateClient \/ TruncateFails \/ FinishCommit
           \/ Restore \/ Hydrate \/ HydrateDone \/ Crash \/ Evict
           \/ (\E t \in Desired : Publish(t))
           \/ (\E idlers \in SUBSET Clients : IdemTick(idlers))
  BY <1>2 DEF ApplyOp, ApplyFails, TruncateClient, TruncateFails, FinishCommit, Restore,
              Hydrate, HydrateDone, Crash, Evict, Publish, IdemTick
<1>3. CASE UNCHANGED vars
  BY <1>3 DEF vars
<1> QED
  BY <1>1, <1>2, <1>3 DEF Next, ClientStep, PushStep, CommitStep

\* What is durable once the step is taken.
DurableAfter(c, n) == <<c, n>> \in committed' \/ n \in Seqs(wal'[c])

\* What is durable stays durable.
LEMMA DurableMono ==
  ASSUME NoLoss, TypeOK, LogIntact, HandlersUp, LoggedStaged, StageCommitted, [Next]_vars,
         NEW c \in Clients, NEW n, Durable(c, n)
  PROVE  DurableAfter(c, n)
<1>1. committed \subseteq committed'
  BY CommittedStep DEF GitCommit
<1>2. CASE wal'[c] = wal[c]
  BY <1>1, <1>2 DEF Durable, DurableAfter
<1>3. CASE Seqs(wal'[c]) = Seqs(wal[c]) \cup {sent[c][proc.i].seq}
  BY <1>1, <1>3 DEF Durable, DurableAfter
<1>4. CASE Trims /\ c = proc.who
  <2>1. n \in Seqs(stages[c]) \/ <<c, n>> \in committed
    BY <1>4 DEF Durable, LoggedStaged, HandlersUp, Trims
  <2>2. Ids(c, stages[c]) \subseteq committed
    BY <1>4 DEF StageCommitted, Trims
  <2>3. <<c, n>> \in committed
    BY <2>1, <2>2, IdsMember DEF Committers
  <2> QED
    BY <1>1, <2>3 DEF DurableAfter
<1> QED
  BY <1>2, <1>3, <1>4, WalSeqs
-----------------------------------------------------------------------------
\* Only a vault that is up starts a handler, and losing it ends the handler.
LEMMA HandlersStep ==
  ASSUME TypeOK, HandlersUp, [Next]_vars
  PROVE  HandlersUp'
<1> USE DEF store, walVars, cache, sessions, clients, history, bounds, HandlersUp, At, Idle
<1>1. ASSUME NEW c \in Clients,
             NewBatch(c) \/ Hello(c) \/ Disconnect(c) \/ PushDuplicate(c) \/ PushRefused(c)
             \/ PushAccept(c) \/ AppendOp(c) \/ AppendFails(c) \/ PushAck(c) \/ BeginCommit(c)
      PROVE  HandlersUp'
  BY <1>1 DEF NewBatch, Hello, Disconnect, PushDuplicate, PushRefused, PushAccept, PushPending,
              Serving, Appending, PushAck, AppendOp, AppendFails, BeginCommit
<1>2. CASE \/ ApplyOp \/ ApplyFails \/ GitCommit \/ TruncateClient \/ TruncateFails
           \/ FinishCommit
  BY <1>2 DEF ApplyOp, Applying, ApplyFails, GitCommit, TruncateClient, TruncateFails, Abandon,
              Drop, FinishCommit
<1>3. CASE \/ Restore \/ Hydrate \/ HydrateDone \/ Crash \/ Evict
           \/ (\E t \in Desired : Publish(t))
           \/ (\E idlers \in SUBSET Clients : IdemTick(idlers))
  BY <1>3 DEF Restore, Hydrate, HydrateDone, Crash, Evict, Drop, Publish, IdemTick, Serving, Free
<1>4. CASE UNCHANGED vars
  BY <1>4 DEF vars
<1> QED
  BY <1>1, <1>2, <1>3, <1>4 DEF Next, ClientStep, PushStep, CommitStep

\* A replay stages what the WAL holds; a stage is reset once it is committed.
LEMMA StagedStep ==
  ASSUME NoLoss, TypeOK, LogIntact, HandlersUp, LoggedStaged, StageCommitted, [Next]_vars
  PROVE  LoggedStaged'
<1> SUFFICES ASSUME up' # "down", NEW c \in Clients, NEW n \in Seqs(wal'[c])
             PROVE  n \in Seqs(stages'[c]) \/ <<c, n>> \in committed'
  BY DEF LoggedStaged
<1> USE DEF store, walVars, cache, sessions, clients, history, bounds
<1>1. committed \subseteq committed'
  BY CommittedStep DEF GitCommit
<1>2. c \in Committers /\ c # Publisher
  BY ClientsAssumption DEF Committers
<1>3. CASE Logs(c) /\ Seqs(wal'[c]) = Seqs(wal[c]) \cup {sent[c][proc.i].seq}
  <2>1. sent[c][proc.i] \in Ops
    BY <1>3, AppendingType DEF Logs
  <2>2. stages[c] \in Seq(Ops) /\ stages'[c] = Append(stages[c], sent[c][proc.i])
    BY <1>2, <1>3 DEF Logs, TypeOK
  <2>3. Seqs(stages'[c]) = Seqs(stages[c]) \cup {sent[c][proc.i].seq}
    BY <2>1, <2>2, SeqsAppend
  <2>4. up # "down"
    BY <1>3 DEF Logs, Appending, HandlersUp
  <2> QED
    BY <1>1, <1>3, <2>3, <2>4 DEF LoggedStaged
<1>4. CASE Seqs(wal'[c]) = {}
  BY <1>4
<1>5. CASE wal'[c] = wal[c]
  <2>1. ASSUME NEW d \in Clients,
               NewBatch(d) \/ Hello(d) \/ Disconnect(d) \/ PushDuplicate(d) \/ PushRefused(d)
               \/ PushAccept(d) \/ PushAck(d) \/ BeginCommit(d)
        PROVE  UNCHANGED <<stages, up>>
    BY <2>1 DEF NewBatch, Hello, Disconnect, PushDuplicate, PushRefused, PushAccept, PushAck,
                BeginCommit
  <2>2. ASSUME NEW d \in Clients, AppendOp(d) \/ AppendFails(d)
        PROVE  up' = up /\ Seqs(stages[c]) \subseteq Seqs(stages'[c])
    <3>1. sent[d][proc.i] \in Ops
      BY <2>2, AppendingType DEF AppendOp, AppendFails
    <3>2. stages[c] \in Seq(Ops)
      BY <1>2 DEF TypeOK
    <3>3. \/ stages'[c] = stages[c]
          \/ stages'[c] = Append(stages[c], sent[d][proc.i])
      BY <1>2, <2>2 DEF AppendOp, AppendFails, TypeOK
    <3>4. up' = up
      BY <2>2 DEF AppendOp, AppendFails
    <3> QED
      BY <3>1, <3>2, <3>3, <3>4, SeqsAppend
  <2>3. CASE \/ ApplyOp \/ GitCommit \/ TruncateClient \/ Restore \/ (UNCHANGED vars)
             \/ (\E idlers \in SUBSET Clients : IdemTick(idlers))
    BY <1>1, <1>5, <2>3 DEF ApplyOp, GitCommit, TruncateClient, Restore, IdemTick, vars,
                            LoggedStaged
  <2>4. ASSUME NEW t \in Desired, Publish(t)
        PROVE  stages'[c] = stages[c] /\ up' = up
    BY <1>2, <2>4 DEF Publish, TypeOK
  <2>5. CASE ApplyFails \/ TruncateFails
    <3>1. PICK h : Abandon(h)
      BY <2>5 DEF ApplyFails, TruncateFails
    <3>2. stages'[c] = stages[c] /\ up' = up
      BY <1>2, <3>1 DEF Abandon, Drop, TypeOK
    <3> QED
      BY <1>1, <1>5, <3>2 DEF LoggedStaged
  <2>6. CASE FinishCommit
    <3>1. up # "down"
      BY <2>6 DEF FinishCommit, HandlersUp
    <3>2. c # proc.who => stages'[c] = stages[c]
      BY <1>2, <2>6 DEF FinishCommit, TypeOK
    <3>3. c = proc.who => Ids(c, stages[c]) \subseteq committed
      BY <2>6 DEF FinishCommit, StageCommitted
    <3> QED
      BY <1>1, <1>2, <1>5, <3>1, <3>2, <3>3, IdsMember DEF LoggedStaged
  <2>7. CASE Crash \/ Evict
    BY <2>7 DEF Crash, Evict, Drop
  <2>8. CASE Hydrate
    BY <1>2, <2>8 DEF Hydrate
  <2>9. CASE HydrateDone
    BY <1>1, <1>5, <2>9 DEF HydrateDone, LoggedStaged
  <2> QED
    BY <1>1, <1>5, <2>1, <2>2, <2>3, <2>4, <2>5, <2>6, <2>7, <2>8, <2>9
    DEF Next, ClientStep, PushStep, CommitStep, LoggedStaged
<1> QED
  BY <1>3, <1>4, <1>5, WalSeqs

\* The git commit makes the whole stage part of the history, and the stage
\* stays as it is until the commit is finished.
LEMMA StageCommittedStep ==
  ASSUME TypeOK, HandlersUp, StageCommitted, [Next]_vars
  PROVE  StageCommitted'
<1> USE DEF store, walVars, cache, sessions, clients, history, bounds, At, Idle
<1>1. ASSUME NEW c \in Clients,
             NewBatch(c) \/ Hello(c) \/ Disconnect(c) \/ PushDuplicate(c) \/ PushRefused(c)
      PROVE  UNCHANGED <<proc, stages, committed>>
  BY <1>1 DEF NewBatch, Hello, Disconnect, PushDuplicate, PushRefused
<1>2. ASSUME NEW c \in Clients,
             PushAccept(c) \/ AppendOp(c) \/ AppendFails(c) \/ PushAck(c) \/ BeginCommit(c)
      PROVE  proc'.at \notin {"truncate", "persist"}
  <2>1. CASE PushAccept(c)
    BY <2>1 DEF PushAccept
  <2>2. CASE AppendOp(c)
    BY <2>2 DEF AppendOp
  <2>3. CASE AppendFails(c) \/ PushAck(c) \/ BeginCommit(c)
    BY <2>3 DEF AppendFails, PushAck, BeginCommit
  <2> QED
    BY <1>2, <2>1, <2>2, <2>3
<1>3. CASE \/ ApplyOp \/ ApplyFails \/ TruncateFails \/ FinishCommit \/ Crash \/ Evict
           \/ (\E t \in Desired : Publish(t))
  <2>1. proc'.at \notin {"truncate", "persist"}
    BY <1>3 DEF ApplyOp, ApplyFails, TruncateFails, Abandon, Drop, FinishCommit, Crash, Evict,
                Publish
  <2> QED
    BY <2>1 DEF StageCommitted
<1>4. CASE GitCommit
  <2>1. /\ proc'.who = proc.who /\ stages' = stages
        /\ committed' = committed \cup Ids(proc.who, stages[proc.who])
    BY <1>4 DEF GitCommit
  <2> QED
    BY <2>1 DEF StageCommitted
<1>5. CASE TruncateClient
  <2>1. proc'.who = proc.who /\ UNCHANGED <<stages, committed>> /\ proc.at = "truncate"
    BY <1>5 DEF TruncateClient
  <2> QED
    BY <2>1 DEF StageCommitted
<1>6. CASE \/ Restore \/ HydrateDone \/ (UNCHANGED vars)
           \/ (\E idlers \in SUBSET Clients : IdemTick(idlers))
  <2>1. UNCHANGED <<proc, stages, committed>>
    BY <1>6 DEF Restore, HydrateDone, IdemTick, vars
  <2> QED
    BY <2>1 DEF StageCommitted
<1>7. CASE Hydrate
  BY <1>7 DEF Hydrate, HandlersUp, StageCommitted
<1> QED
  BY <1>1, <1>2, <1>3, <1>4, <1>5, <1>6, <1>7
  DEF Next, ClientStep, PushStep, CommitStep, StageCommitted
-----------------------------------------------------------------------------
\* Where a batch comes from: a client numbers it with the seqs it draws next.
LEMMA NewBatchSeqs ==
  ASSUME TypeOK, NEW c \in Clients, NewBatch(c)
  PROVE  /\ nextSeq'[c] >= nextSeq[c] /\ nextSeq'[c] <= MaxSeq + 1
         /\ \A i, j \in DOMAIN sent'[c] : i < j => sent'[c][i].seq < sent'[c][j].seq
         /\ \A n \in Seqs(sent'[c]) : nextSeq[c] <= n /\ n < nextSeq'[c]
         /\ \A d \in Clients \ {c} : sent'[d] = sent[d] /\ nextSeq'[d] = nextSeq[d]
<1>1. PICK b \in Batches :
        /\ nextSeq[c] + Len(b) - 1 <= MaxSeq
        /\ sent' = [sent EXCEPT ![c] = [i \in DOMAIN b |-> Op(nextSeq[c] + i - 1, b[i])]]
        /\ nextSeq' = [nextSeq EXCEPT ![c] = @ + Len(b)]
  BY DEF NewBatch
<1>2. Len(b) \in Nat /\ DOMAIN b = 1..Len(b) /\ MaxSeq \in Nat
  BY BatchesAssumption, BoundsAssumption, LenProperties
<1>3. nextSeq[c] \in Nat /\ nextSeq'[c] = nextSeq[c] + Len(b)
  BY <1>1 DEF TypeOK
<1>4. sent'[c] = [i \in 1..Len(b) |-> Op(nextSeq[c] + i - 1, b[i])]
  BY <1>1, <1>2 DEF TypeOK
<1>5. DOMAIN sent'[c] = 1..Len(b) /\ \A i \in 1..Len(b) : sent'[c][i].seq = nextSeq[c] + i - 1
  BY <1>4 DEF Op
<1>6. \A d \in Clients \ {c} : sent'[d] = sent[d] /\ nextSeq'[d] = nextSeq[d]
  BY <1>1 DEF TypeOK
<1>7. nextSeq'[c] >= nextSeq[c] /\ nextSeq'[c] <= MaxSeq + 1
  BY <1>1, <1>2, <1>3
<1>8. \A i, j \in DOMAIN sent'[c] : i < j => sent'[c][i].seq < sent'[c][j].seq
  BY <1>2, <1>3, <1>5
<1>9. \A n \in Seqs(sent'[c]) : nextSeq[c] <= n /\ n < nextSeq'[c]
  BY <1>2, <1>3, <1>5 DEF Seqs
<1> QED
  BY <1>6, <1>7, <1>8, <1>9

\* What a step does to the batch on the wire.
LEMMA SentStep ==
  ASSUME TypeOK, [Next]_vars, NEW c \in Clients
  PROVE  \/ sent'[c] = sent[c] /\ nextSeq'[c] = nextSeq[c]
         \/ sent'[c] = << >> /\ nextSeq'[c] = nextSeq[c]
         \/ NewBatch(c)
<1> USE DEF store, walVars, cache, sessions, clients, history, bounds
<1> DEFINE Same == sent'[c] = sent[c] /\ nextSeq'[c] = nextSeq[c]
           Done == sent'[c] = << >> /\ nextSeq'[c] = nextSeq[c]
<1>1. ASSUME NEW d \in Clients, Hello(d) \/ Disconnect(d) \/ PushAccept(d) \/ AppendOp(d)
                               \/ BeginCommit(d)
      PROVE  Same
  BY <1>1 DEF Hello, Disconnect, PushAccept, AppendOp, BeginCommit
<1>2. ASSUME NEW d \in Clients, PushDuplicate(d) \/ PushRefused(d) \/ AppendFails(d)
                               \/ PushAck(d)
      PROVE  Same \/ Done
  BY <1>2 DEF PushDuplicate, PushRefused, AppendFails, PushAck, Reply, TypeOK
<1>3. ASSUME NEW d \in Clients, NewBatch(d) PROVE Same \/ NewBatch(c)
  BY <1>3, NewBatchSeqs
<1>4. ASSUME \/ ApplyOp \/ ApplyFails \/ GitCommit \/ TruncateClient \/ TruncateFails
             \/ FinishCommit \/ Restore \/ Hydrate \/ HydrateDone \/ Crash \/ Evict
             \/ (UNCHANGED vars)
             \/ (\E t \in Desired : Publish(t))
             \/ (\E idlers \in SUBSET Clients : IdemTick(idlers))
      PROVE  Same
  BY <1>4 DEF ApplyOp, ApplyFails, GitCommit, TruncateClient, TruncateFails, FinishCommit,
              Restore, Hydrate, HydrateDone, Crash, Evict, Publish, IdemTick, vars
<1> HIDE DEF Same, Done
<1>5. Same \/ Done \/ NewBatch(c)
  BY <1>1, <1>2, <1>3, <1>4 DEF Next, ClientStep, PushStep, CommitStep
<1> QED
  BY <1>5 DEF Same, Done

\* What a step does to the idempotency cache: accept the op being appended,
\* forget, or take over the snapshot and the WAL.
LEMMA IdemStep ==
  ASSUME TypeOK, [Next]_vars, NEW c \in Clients
  PROVE  /\ \/ idem'[c] \in {0, idem[c], idemDisk[c]} \cup Seqs(wal[c])
            \/ AppendOp(c) /\ idem'[c] = sent[c][proc.i].seq
         /\ idemDisk'[c] \in {0, idem[c], idemDisk[c]}
<1> USE DEF store, walVars, cache, sessions, clients, history, bounds
<1> DEFINE Known == {0, idem[c], idemDisk[c]} \cup Seqs(wal[c])
<1>1. ASSUME NEW d \in Clients,
             NewBatch(d) \/ Hello(d) \/ Disconnect(d) \/ PushDuplicate(d) \/ PushRefused(d)
             \/ PushAccept(d) \/ AppendFails(d) \/ PushAck(d) \/ BeginCommit(d)
      PROVE  idem' = idem /\ idemDisk' = idemDisk
  BY <1>1 DEF NewBatch, Hello, Disconnect, PushDuplicate, PushRefused, PushAccept, PushAck,
              AppendFails, BeginCommit
<1>2. ASSUME NEW d \in Clients, AppendOp(d)
      PROVE  /\ idem'[c] = idem[c] \/ (AppendOp(c) /\ idem'[c] = sent[c][proc.i].seq)
             /\ idemDisk' = idemDisk
  BY <1>2 DEF AppendOp, TypeOK
<1>3. CASE \/ ApplyOp \/ GitCommit \/ TruncateClient \/ Restore \/ HydrateDone
           \/ FinishCommit \/ (UNCHANGED vars)
           \/ (\E t \in Desired : Publish(t))
  <2>1. idem' = idem /\ idemDisk' \in {idem, idemDisk}
    BY <1>3 DEF ApplyOp, GitCommit, TruncateClient, Restore, HydrateDone, FinishCommit, Publish,
                vars
  <2> QED
    BY <2>1
<1>4. CASE ApplyFails \/ TruncateFails
  <2>1. idemDisk' = idemDisk /\ \E h : Abandon(h)
    BY <1>4 DEF ApplyFails, TruncateFails
  <2> QED
    BY <2>1 DEF Abandon, Drop
<1>5. CASE Crash \/ Evict
  BY <1>5 DEF Crash, Evict, Drop
<1>6. ASSUME NEW idlers \in SUBSET Clients, IdemTick(idlers)
      PROVE  idem'[c] \in {0, idem[c]} /\ idemDisk'[c] \in {0, idem[c]}
  BY <1>6 DEF IdemTick
<1>7. CASE Hydrate
  <2>1. idem' \in ReplayedIdem /\ idemDisk' = idemDisk
    BY <1>7 DEF Hydrate
  <2>2. idem'[c] \in {idemDisk[c]} \cup Seqs(wal[c])
    BY <2>1 DEF ReplayedIdem
  <2> QED
    BY <2>1, <2>2
<1> QED
  BY <1>1, <1>2, <1>3, <1>4, <1>5, <1>6, <1>7 DEF Next, ClientStep, PushStep, CommitStep
\* What a step does to a client's stage: nothing, grow by the op being
\* appended, be committed, be lost, or be replayed from the WAL.
LEMMA StageStep ==
  ASSUME TypeOK, [Next]_vars, NEW c \in Clients
  PROVE  \/ stages'[c] = stages[c]
         \/ /\ Appending(c)
            /\ stages'[c] = Append(stages[c], sent[c][proc.i])
            /\ Seqs(stages'[c]) = Seqs(stages[c]) \cup {sent[c][proc.i].seq}
         \/ stages'[c] = << >> /\ Seqs(stages'[c]) = {}
         \/ stages'[c] = wal[c] /\ Hydrate
<1> USE DEF store, walVars, cache, sessions, clients, history, bounds
<1>1. c \in Committers /\ c # Publisher
  BY ClientsAssumption DEF Committers
<1>2. \/ stages'[c] = stages[c]
      \/ Appending(c) /\ stages'[c] = Append(stages[c], sent[c][proc.i])
      \/ stages'[c] = << >>
      \/ stages'[c] = wal[c] /\ Hydrate
  <2>1. ASSUME NEW d \in Clients,
               NewBatch(d) \/ Hello(d) \/ Disconnect(d) \/ PushDuplicate(d) \/ PushRefused(d)
               \/ PushAccept(d) \/ PushAck(d) \/ BeginCommit(d)
        PROVE  stages'[c] = stages[c]
    BY <2>1 DEF NewBatch, Hello, Disconnect, PushDuplicate, PushRefused, PushAccept, PushAck,
                BeginCommit
  <2>2. ASSUME NEW d \in Clients, AppendOp(d) \/ AppendFails(d)
        PROVE  \/ stages'[c] = stages[c]
               \/ Appending(c) /\ stages'[c] = Append(stages[c], sent[c][proc.i])
    BY <1>1, <2>2 DEF AppendOp, AppendFails, TypeOK
  <2>3. CASE \/ ApplyOp \/ GitCommit \/ TruncateClient \/ Restore \/ HydrateDone
             \/ (UNCHANGED vars)
             \/ (\E t \in Desired : Publish(t))
             \/ (\E idlers \in SUBSET Clients : IdemTick(idlers))
    BY <1>1, <2>3 DEF ApplyOp, GitCommit, TruncateClient, Restore, HydrateDone, Publish,
                      IdemTick, vars, TypeOK
  <2>4. CASE ApplyFails \/ TruncateFails
    <3>1. \E h : Abandon(h)
      BY <2>4 DEF ApplyFails, TruncateFails
    <3> QED
      BY <1>1, <3>1 DEF Abandon, Drop, TypeOK
  <2>5. CASE FinishCommit
    BY <1>1, <2>5 DEF FinishCommit, TypeOK
  <2>6. CASE Crash \/ Evict
    BY <1>1, <2>6 DEF Crash, Evict, Drop
  <2>7. CASE Hydrate
    BY <1>1, <2>7 DEF Hydrate
  <2> QED
    BY <2>1, <2>2, <2>3, <2>4, <2>5, <2>6, <2>7 DEF Next, ClientStep, PushStep, CommitStep
<1>3. stages[c] \in Seq(Ops)
  BY <1>1 DEF TypeOK
<1>4. Appending(c) => sent[c][proc.i] \in Ops
  BY AppendingType
<1> QED
  BY <1>2, <1>3, <1>4, SeqsAppend, SeqsEmpty

-----------------------------------------------------------------------------
\* Seqs stay in ascending order, and nothing holds one not yet drawn.
LEMMA DrawnStep ==
  ASSUME NoLoss, TypeOK, LogIntact, SeqsDrawn, [Next]_vars
  PROVE  SeqsDrawn'
<1> SUFFICES ASSUME NEW c \in Clients
             PROVE  /\ nextSeq'[c] <= MaxSeq + 1
                    /\ \A i, j \in DOMAIN sent'[c] : i < j => sent'[c][i].seq < sent'[c][j].seq
                    /\ \A n \in Seqs(sent'[c]) : 1 <= n /\ n < nextSeq'[c]
                    /\ idem'[c] < nextSeq'[c] /\ idemDisk'[c] < nextSeq'[c]
                    /\ \A n \in Seqs(wal'[c]) \cup Seqs(stages'[c]) : 1 <= n /\ n < nextSeq'[c]
  BY DEF SeqsDrawn
<1>1. /\ nextSeq[c] <= MaxSeq + 1
      /\ \A i, j \in DOMAIN sent[c] : i < j => sent[c][i].seq < sent[c][j].seq
      /\ \A n \in Seqs(sent[c]) : 1 <= n /\ n < nextSeq[c]
      /\ idem[c] < nextSeq[c] /\ idemDisk[c] < nextSeq[c]
      /\ \A n \in Seqs(wal[c]) \cup Seqs(stages[c]) : 1 <= n /\ n < nextSeq[c]
  BY DEF SeqsDrawn
<1>2. /\ nextSeq[c] \in Nat \ {0} /\ nextSeq'[c] \in Nat \ {0}
      /\ idem[c] \in Nat /\ idemDisk[c] \in Nat
      /\ \A n \in Seqs(wal[c]) \cup Seqs(stages[c]) \cup Seqs(sent[c]) : n \in Nat
  <2>1. nextSeq[c] \in Nat \ {0} /\ idem[c] \in Nat /\ idemDisk[c] \in Nat
    BY DEF TypeOK
  <2>2. nextSeq'[c] \in Nat \ {0}
    BY TypeStep DEF TypeOK
  <2>3. wal[c] \in Seq(Ops) /\ stages[c] \in Seq(Ops) /\ sent[c] \in Seq(Ops)
    BY DEF TypeOK, Committers
  <2>4. \A s \in Seq(Ops) : Seqs(s) \subseteq Nat
    BY SeqsType
  <2> QED
    BY <2>1, <2>2, <2>3, <2>4
<1>3. /\ nextSeq[c] <= nextSeq'[c] /\ nextSeq'[c] <= MaxSeq + 1
      /\ \A i, j \in DOMAIN sent'[c] : i < j => sent'[c][i].seq < sent'[c][j].seq
      /\ \A n \in Seqs(sent'[c]) : 1 <= n /\ n < nextSeq'[c]
  <2>1. CASE sent'[c] = sent[c] /\ nextSeq'[c] = nextSeq[c]
    BY <1>1, <1>2, <2>1
  <2>2. CASE sent'[c] = << >> /\ nextSeq'[c] = nextSeq[c]
    BY <1>1, <1>2, <2>2, SeqsEmpty
  <2>3. CASE NewBatch(c)
    <3>1. /\ nextSeq'[c] >= nextSeq[c] /\ nextSeq'[c] <= MaxSeq + 1
          /\ \A i, j \in DOMAIN sent'[c] : i < j => sent'[c][i].seq < sent'[c][j].seq
          /\ \A n \in Seqs(sent'[c]) : nextSeq[c] <= n /\ n < nextSeq'[c]
      BY <2>3, NewBatchSeqs
    <3>2. Seqs(sent'[c]) \subseteq Int
      <4>1. sent'[c] \in Seq(Ops)
        BY TypeStep DEF TypeOK
      <4> QED
        BY <4>1, SeqsType
    <3> QED
      BY <1>2, <3>1, <3>2
  <2> QED
    BY <2>1, <2>2, <2>3, SentStep
<1>4. ASSUME Appending(c) PROVE sent[c][proc.i].seq \in Seqs(sent[c])
  BY <1>4, AppendingType, LenProperties DEF Seqs, TypeOK
<1>5. idem'[c] < nextSeq'[c] /\ idemDisk'[c] < nextSeq'[c]
  <2>1. CASE AppendOp(c) /\ idem'[c] = sent[c][proc.i].seq
    <3>1. idem'[c] \in Seqs(sent[c])
      BY <1>4, <2>1 DEF AppendOp
    <3>2. idemDisk'[c] \in {0, idem[c], idemDisk[c]}
      BY IdemStep
    <3> QED
      BY <1>1, <1>2, <1>3, <3>1, <3>2
  <2>2. CASE idem'[c] \in {0, idem[c], idemDisk[c]} \cup Seqs(wal[c])
    <3>1. idemDisk'[c] \in {0, idem[c], idemDisk[c]}
      BY IdemStep
    <3> QED
      BY <1>1, <1>2, <1>3, <2>2, <3>1
  <2> QED
    BY <2>1, <2>2, IdemStep
<1>6. \A n \in Seqs(wal'[c]) : n \in Seqs(wal[c]) \cup Seqs(sent[c])
  <2>1. CASE wal'[c] = wal[c]
    BY <2>1
  <2>2. CASE Appending(c) /\ Seqs(wal'[c]) = Seqs(wal[c]) \cup {sent[c][proc.i].seq}
    BY <1>4, <2>2
  <2>3. CASE Seqs(wal'[c]) = {}
    BY <2>3
  <2> QED
    BY <2>1, <2>2, <2>3, WalSeqs
<1>7. \A n \in Seqs(stages'[c]) : n \in Seqs(stages[c]) \cup Seqs(wal[c]) \cup Seqs(sent[c])
  BY <1>4, StageStep
<1> QED
  BY <1>1, <1>2, <1>3, <1>5, <1>6, <1>7

\* A duplicate is durable: what a cache or a replay has seen, it saw in order.
LEMMA SeenStep ==
  ASSUME NoLoss, TypeOK, LogIntact, HandlersUp, LoggedStaged, StageCommitted, SeqsDrawn,
         SeenDurable, AppendedDurable, [Next]_vars
  PROVE  SeenDurable'
<1> SUFFICES ASSUME NEW c \in Clients, NEW n \in Seqs(sent'[c]),
                    n <= idem'[c] \/ n <= idemDisk'[c] \/ \E m \in Seqs(wal'[c]) : n <= m
             PROVE  DurableAfter(c, n)
  BY DEF SeenDurable, Durable, DurableAfter
<1>1. /\ nextSeq[c] \in Nat \ {0} /\ idem[c] \in Nat /\ idemDisk[c] \in Nat
      /\ sent[c] \in Seq(Ops) /\ sent'[c] \in Seq(Ops)
      /\ Seqs(wal[c]) \subseteq Nat /\ Seqs(sent[c]) \subseteq Nat /\ n \in Nat
  <2>1. /\ nextSeq[c] \in Nat \ {0} /\ idem[c] \in Nat /\ idemDisk[c] \in Nat
        /\ sent[c] \in Seq(Ops) /\ wal[c] \in Seq(Ops)
    BY DEF TypeOK
  <2>2. sent'[c] \in Seq(Ops)
    BY TypeStep DEF TypeOK
  <2> QED
    BY <2>1, <2>2, SeqsType
<1>2. /\ \A i, j \in DOMAIN sent[c] : i < j => sent[c][i].seq < sent[c][j].seq
      /\ \A m \in Seqs(sent[c]) : 1 <= m /\ m < nextSeq[c]
      /\ idem[c] < nextSeq[c] /\ idemDisk[c] < nextSeq[c]
      /\ \A m \in Seqs(wal[c]) : 1 <= m /\ m < nextSeq[c]
  BY DEF SeqsDrawn
<1> DEFINE Known == {0, idem[c], idemDisk[c]} \cup Seqs(wal[c])
           NewOne == Appending(c) /\ sent[c][proc.i].seq \in Seqs(sent[c])
<1>3. PICK m \in {idem'[c], idemDisk'[c]} \cup Seqs(wal'[c]) : n <= m
  OBVIOUS
<1>4. m \in Known \/ (NewOne /\ m = sent[c][proc.i].seq
                             /\ Seqs(wal'[c]) = Seqs(wal[c]) \cup {sent[c][proc.i].seq})
  <2>1. ASSUME Appending(c) PROVE sent[c][proc.i].seq \in Seqs(sent[c])
    BY <2>1, AppendingType, LenProperties DEF Seqs, TypeOK
  <2>2. CASE m = idem'[c] \/ m = idemDisk'[c]
    <3>1. CASE m \in Known
      BY <3>1
    <3>2. CASE AppendOp(c) /\ m = sent[c][proc.i].seq
      <4>1. Appending(c) /\ walHandle = "linked"
        BY <3>2 DEF AppendOp, LogIntact, TypeOK
      <4>2. wal'[c] = Append(wal[c], sent[c][proc.i])
        BY <3>2, <4>1 DEF AppendOp, WalAppend, LogIntact, TypeOK, walVars
      <4>3. wal[c] \in Seq(Ops) /\ sent[c][proc.i] \in Ops
        BY <4>1, AppendingType DEF TypeOK
      <4> QED
        BY <2>1, <3>2, <4>1, <4>2, <4>3, SeqsAppend
    <3> QED
      BY <2>2, <3>1, <3>2, IdemStep
  <2>3. CASE m \in Seqs(wal'[c])
    BY <2>1, <2>3, WalSeqs
  <2> QED
    BY <1>3, <2>2, <2>3
<1>5. m \in Nat
  BY <1>1, <1>4
<1>6. CASE sent'[c] = sent[c]
  <2>1. CASE m \in Known
    <3>1. n <= idem[c] \/ n <= idemDisk[c] \/ \E k \in Seqs(wal[c]) : n <= k
      BY <1>1, <1>2, <1>3, <1>6, <2>1
    <3>2. Durable(c, n)
      BY <1>6, <3>1 DEF SeenDurable
    <3> QED
      BY <3>2, DurableMono
  <2>2. CASE NewOne /\ m = sent[c][proc.i].seq
             /\ Seqs(wal'[c]) = Seqs(wal[c]) \cup {sent[c][proc.i].seq}
    <3>1. proc.i \in 1..Len(sent[c]) /\ DOMAIN sent[c] = 1..Len(sent[c]) /\ proc.i \in Nat
      BY <1>1, <2>2, AppendingType, LenProperties
    <3>2. PICK j \in DOMAIN sent[c] : n = sent[c][j].seq
      BY <1>6 DEF Seqs
    <3>3. \A i \in DOMAIN sent[c] : sent[c][i].seq \in Nat
      BY <1>1 DEF Seqs
    <3>4. j <= proc.i
      BY <1>2, <1>3, <2>2, <3>1, <3>2, <3>3
    <3>5. CASE j < proc.i
      <4>1. Durable(c, n)
        BY <2>2, <3>2, <3>5 DEF AppendedDurable, Appending
      <4> QED
        BY <4>1, DurableMono
    <3>6. CASE j = proc.i
      BY <2>2, <3>2, <3>6 DEF DurableAfter
    <3> QED
      BY <3>1, <3>4, <3>5, <3>6
  <2> QED
    BY <1>4, <2>1, <2>2
<1>7. CASE sent'[c] = << >>
  BY <1>7, SeqsEmpty
<1>8. CASE NewBatch(c)
  <2>1. nextSeq[c] <= n
    BY <1>8, NewBatchSeqs
  <2>2. m < nextSeq[c]
    BY <1>1, <1>2, <1>4
  <2> QED
    BY <1>1, <1>3, <1>5, <2>1, <2>2
<1> QED
  BY <1>6, <1>7, <1>8, SentStep

\* handlePushBatch is through with the ops of the batch that are durable.
LEMMA AppendedStep ==
  ASSUME NoLoss, TypeOK, LogIntact, HandlersUp, LoggedStaged, StageCommitted, SeenDurable,
         AppendedDurable, [Next]_vars
  PROVE  AppendedDurable'
<1> SUFFICES ASSUME proc'.at = "append"
             PROVE  /\ sent'[proc'.who] # << >>
                    /\ \A i \in DOMAIN sent'[proc'.who] :
                         i < proc'.i => DurableAfter(proc'.who, sent'[proc'.who][i].seq)
  BY DEF AppendedDurable, Durable, DurableAfter
<1> USE DEF store, walVars, cache, sessions, clients, history, bounds, At, Idle
<1>1. ASSUME NEW c \in Clients, PushAccept(c)
      PROVE  /\ proc'.who = c /\ proc'.i \in DOMAIN sent[c] /\ sent' = sent
             /\ \A i \in DOMAIN sent[c] : i < proc'.i => Durable(c, sent[c][i].seq)
  <2>1. PICK k \in DOMAIN sent[c] :
          IsFirstNew(k, sent[c], idem[c]) /\ proc' = At("append", c, k) /\ sent' = sent
    BY <1>1 DEF PushAccept
  <2>2. sent[c] \in Seq(Ops) /\ idem[c] \in Nat
    BY DEF TypeOK
  <2>3. ASSUME NEW i \in DOMAIN sent[c], i < k PROVE Durable(c, sent[c][i].seq)
    <3>1. sent[c][i].seq \in Seqs(sent[c])
      BY DEF Seqs
    <3>2. i \in 1..(k - 1)
      BY <2>2, <2>3, LenProperties
    <3>3. sent[c][i].seq <= idem[c]
      BY <2>1, <3>2 DEF IsFirstNew
    <3> QED
      BY <3>1, <3>3 DEF SeenDurable
  <2> QED
    BY <2>1, <2>3
<1>2. ASSUME NEW c \in Clients, AppendOp(c)
      PROVE  /\ proc'.who = c /\ proc.who = c /\ sent' = sent /\ sent[c] # << >>
             /\ \A i \in DOMAIN sent[c] : i < proc'.i => DurableAfter(c, sent[c][i].seq)
  <2>1. /\ proc'.who = c /\ proc.who = c /\ sent' = sent /\ proc'.i = proc.i + 1
        /\ proc.at = "append" /\ Appending(c)
    BY <1>2 DEF AppendOp, Appending
  <2>2. sent[c] # << >> /\ proc.i \in Nat /\ sent[c] \in Seq(Ops)
    BY <2>1 DEF AppendedDurable, TypeOK
  <2>3. DurableAfter(c, sent[c][proc.i].seq)
    <3>1. walHandle = "linked" /\ ~torn
      BY <1>2 DEF AppendOp, LogIntact, TypeOK
    <3>2. wal'[c] = Append(wal[c], sent[c][proc.i])
      BY <1>2, <3>1 DEF AppendOp, WalAppend, LogIntact, TypeOK
    <3>3. wal[c] \in Seq(Ops) /\ sent[c][proc.i] \in Ops
      BY <2>1, AppendingType DEF TypeOK
    <3> QED
      BY <3>2, <3>3, SeqsAppend DEF DurableAfter
  <2>4. ASSUME NEW i \in DOMAIN sent[c], i < proc'.i PROVE DurableAfter(c, sent[c][i].seq)
    <3>1. CASE i = proc.i
      BY <2>3, <3>1
    <3>2. CASE i < proc.i
      <4>1. Durable(c, sent[c][i].seq)
        BY <2>1, <3>2 DEF AppendedDurable
      <4> QED
        BY <2>1, <4>1, DurableMono
    <3> QED
      BY <2>1, <2>2, <2>4, <3>1, <3>2, LenProperties
  <2> QED
    BY <2>1, <2>2, <2>4
<1>3. ASSUME NEW c \in Clients, AppendFails(c) \/ PushAck(c) \/ BeginCommit(c)
      PROVE  FALSE
  BY <1>3 DEF AppendFails, PushAck, BeginCommit
<1>4. CASE \/ ApplyOp \/ ApplyFails \/ GitCommit \/ TruncateClient \/ TruncateFails
           \/ FinishCommit \/ Crash \/ Evict
           \/ (\E t \in Desired : Publish(t))
  BY <1>4 DEF ApplyOp, ApplyFails, Abandon, Drop, GitCommit, TruncateClient, TruncateFails,
              FinishCommit, Crash, Evict, Publish
<1>5. ASSUME \/ Restore \/ Hydrate \/ HydrateDone \/ (UNCHANGED vars)
             \/ (\E idlers \in SUBSET Clients : IdemTick(idlers))
             \/ (\E c \in Clients : Hello(c) \/ Disconnect(c))
      PROVE  proc' = proc /\ sent' = sent
  BY <1>5 DEF Restore, Hydrate, HydrateDone, IdemTick, vars, Hello, Disconnect
<1>6. ASSUME NEW c \in Clients, PushDuplicate(c) \/ PushRefused(c)
      PROVE  FALSE
  BY <1>6 DEF PushDuplicate, PushRefused, PushPending, Free
<1>7. ASSUME NEW c \in Clients, NewBatch(c)
      PROVE  proc' = proc /\ sent'[proc.who] = sent[proc.who]
  <2>1. proc' = proc /\ sent[c] = << >>
    BY <1>7 DEF NewBatch
  <2>2. proc.who # c /\ proc.who \in Clients
    BY <2>1 DEF AppendedDurable, TypeOK
  <2> QED
    BY <1>7, <2>1, <2>2, NewBatchSeqs
<1>8. ASSUME proc' = proc, sent'[proc.who] = sent[proc.who]
      PROVE  /\ sent'[proc'.who] # << >>
             /\ \A i \in DOMAIN sent'[proc'.who] :
                  i < proc'.i => DurableAfter(proc'.who, sent'[proc'.who][i].seq)
  <2>1. sent[proc.who] # << >> /\ proc.who \in Clients
    BY <1>8 DEF AppendedDurable, TypeOK
  <2>2. \A i \in DOMAIN sent[proc.who] : i < proc.i => Durable(proc.who, sent[proc.who][i].seq)
    BY <1>8 DEF AppendedDurable
  <2>3. \A c \in Clients : \A n : Durable(c, n) => DurableAfter(c, n)
    BY DurableMono
  <2> QED
    BY <1>8, <2>1, <2>2, <2>3
<1> QED
  BY <1>1, <1>2, <1>3, <1>4, <1>5, <1>6, <1>7, <1>8, DurableMono
  DEF Next, ClientStep, PushStep, CommitStep

\* What is acked is the whole of a batch that was appended, or that was
\* accepted before, and either is durable.
LEMMA AcksDurable ==
  ASSUME TypeOK, SeenDurable, AppendedDurable,
         NEW c \in Clients, PushDuplicate(c) \/ PushAck(c)
  PROVE  /\ acked' = acked \cup Ids(c, sent[c])
         /\ \A n \in Seqs(sent[c]) : Durable(c, n)
<1>1. acked' = acked \cup Ids(c, sent[c])
  BY DEF PushDuplicate, PushAck
<1>2. sent[c] \in Seq(Ops) /\ idem[c] \in Nat
  BY DEF TypeOK
<1>3. ASSUME NEW i \in DOMAIN sent[c] PROVE Durable(c, sent[c][i].seq)
  <2>1. CASE PushDuplicate(c)
    <3>1. sent[c][i] \in Ops
      BY <1>2
    <3>2. sent[c][i] \in Range(sent[c]) /\ sent[c][i].seq \in Nat
      BY <3>1 DEF Range, Ops
    <3>3. sent[c][i].seq <= idem[c]
      BY <1>2, <2>1, <3>2 DEF PushDuplicate, FreshOps, Unseen
    <3>4. sent[c][i].seq \in Seqs(sent[c])
      BY DEF Seqs
    <3> QED
      BY <3>3, <3>4 DEF SeenDurable
  <2>2. CASE PushAck(c)
    <3>1. proc.at = "append" /\ proc.who = c /\ proc.i > Len(sent[c]) /\ proc.i \in Nat
      BY <2>2 DEF PushAck, TypeOK
    <3>2. i < proc.i
      BY <1>2, <3>1, LenProperties
    <3> QED
      BY <3>1, <3>2 DEF AppendedDurable
  <2> QED
    BY <2>1, <2>2
<1> QED
  BY <1>1, <1>3 DEF Seqs

\* Only handlePushBatch acks.
LEMMA AckStep ==
  ASSUME [Next]_vars
  PROVE  acked' = acked \/ \E c \in Clients : PushDuplicate(c) \/ PushAck(c)
<1> USE DEF store, walVars, cache, sessions, clients, history, bounds
<1>1. ASSUME NEW c \in Clients,
             NewBatch(c) \/ Hello(c) \/ Disconnect(c) \/ PushRefused(c) \/ PushAccept(c)
             \/ AppendOp(c) \/ AppendFails(c) \/ BeginCommit(c)
      PROVE  acked' = acked
  BY <1>1 DEF NewBatch, Hello, Disconnect, PushRefused, PushAccept, AppendOp, AppendFails,
              BeginCommit
<1>2. ASSUME \/ ApplyOp \/ ApplyFails \/ GitCommit \/ TruncateClient \/ TruncateFails
             \/ FinishCommit \/ Restore \/ Hydrate \/ HydrateDone \/ Crash \/ Evict
             \/ (UNCHANGED vars)
             \/ (\E t \in Desired : Publish(t))
             \/ (\E idlers \in SUBSET Clients : IdemTick(idlers))
      PROVE  acked' = acked
  BY <1>2 DEF ApplyOp, ApplyFails, GitCommit, TruncateClient, TruncateFails, FinishCommit,
              Restore, Hydrate, HydrateDone, Crash, Evict, Publish, IdemTick, vars
<1> QED
  BY <1>1, <1>2 DEF Next, ClientStep, PushStep, CommitStep

\* The ids in the WAL are those of its seqs.
LEMMA LoggedDurable ==
  /\ \A c \in Clients : \A n : <<c, n>> \in Logged <=> n \in Seqs(wal[c])
  /\ \A id \in Logged : \E c \in Clients : \E n \in Seqs(wal[c]) : id = <<c, n>>
<1>1. \A c \in Clients : Ids(c, wal[c]) = {<<c, n>> : n \in Seqs(wal[c])}
  BY ClientsAssumption DEF Ids
<1> QED
  BY <1>1 DEF Logged

\* What is acked OK is durable.
LEMMA AckedStep ==
  ASSUME NoLoss, TypeOK, LogIntact, HandlersUp, LoggedStaged, StageCommitted, SeenDurable,
         AppendedDurable, AckedDurable, [Next]_vars
  PROVE  AckedDurable'
<1>1. \A c \in Clients : \A n : <<c, n>> \in committed \cup Logged <=> Durable(c, n)
  BY LoggedDurable DEF Durable
<1>2. \A c \in Clients : \A n : <<c, n>> \in committed' \cup Logged' <=> DurableAfter(c, n)
  BY IdsMember DEF Logged, DurableAfter, Committers
<1>3. acked \subseteq committed' \cup Logged'
  <2> SUFFICES ASSUME NEW id \in acked PROVE id \in committed' \cup Logged'
    OBVIOUS
  <2>1. PICK c \in Clients, n \in Nat : id = <<c, n>>
    BY DEF TypeOK, OpIds
  <2>2. Durable(c, n)
    BY <1>1, <2>1 DEF AckedDurable
  <2>3. DurableAfter(c, n)
    BY <2>2, DurableMono
  <2> QED
    BY <1>2, <2>1, <2>3
<1>4. ASSUME NEW c \in Clients, PushDuplicate(c) \/ PushAck(c)
      PROVE  acked' \subseteq committed' \cup Logged'
  <2>1. \A n \in Seqs(sent[c]) : DurableAfter(c, n)
    BY <1>4, AcksDurable, DurableMono
  <2>2. Ids(c, sent[c]) \subseteq committed' \cup Logged'
    BY <1>2, <2>1 DEF Ids
  <2> QED
    BY <1>3, <1>4, <2>2, AcksDurable
<1> QED
  BY <1>3, <1>4, AckStep DEF AckedDurable
-----------------------------------------------------------------------------
\* Before the first push nothing is logged, staged, sent or acked.
LEMMA DurableInit == Init => DurableInv
<1> SUFFICES ASSUME Init PROVE DurableInv
  OBVIOUS
<1>1. /\ proc.at = "idle" /\ ~torn /\ walHandle = "linked" /\ log = wal /\ acked = {}
  BY DEF Init, Idle, At
<1>2. \A c \in Clients : /\ wal[c] = << >> /\ sent[c] = << >> /\ stages[c] = << >>
                         /\ nextSeq[c] = 1 /\ idem[c] = 0 /\ idemDisk[c] = 0
  BY DEF Init, Committers
<1>3. LogIntact /\ HandlersUp /\ StageCommitted /\ AppendedDurable /\ AckedDurable
  BY <1>1 DEF LogIntact, HandlersUp, StageCommitted, AppendedDurable, AckedDurable
<1>4. SeqsDrawn
  <2>1. MaxSeq \in Nat
    BY BoundsAssumption
  <2> QED
    BY <1>2, <2>1, SeqsEmpty DEF SeqsDrawn
<1>5. SeenDurable /\ LoggedStaged
  BY <1>2, SeqsEmpty DEF SeenDurable, LoggedStaged
<1> QED
  BY <1>3, <1>4, <1>5 DEF DurableInv

\* Every step keeps DurableInv.
LEMMA DurableStep ==
  ASSUME NoLoss
  PROVE  TypeOK /\ DurableInv /\ [Next]_vars => DurableInv'
<1> SUFFICES ASSUME TypeOK, DurableInv, [Next]_vars PROVE DurableInv'
  OBVIOUS
<1>1. /\ LogIntact /\ HandlersUp /\ SeqsDrawn /\ SeenDurable /\ LoggedStaged
      /\ StageCommitted /\ AppendedDurable /\ AckedDurable
  BY DEF DurableInv
<1>2. LogIntact' /\ HandlersUp'
  BY <1>1, IntactStep, HandlersStep
<1>3. SeqsDrawn' /\ SeenDurable'
  BY <1>1, DrawnStep, SeenStep
<1>4. LoggedStaged' /\ StageCommitted'
  BY <1>1, StagedStep, StageCommittedStep
<1>5. AppendedDurable' /\ AckedDurable'
  BY <1>1, AppendedStep, AckedStep
<1> QED
  BY <1>2, <1>3, <1>4, <1>5 DEF DurableInv

\* No op the server acked OK is lost, whatever crashes, evictions and failed
\* commits happen, as long as the log stays readable behind its handle.
THEOREM AckedOpsDurable ==
  ASSUME NoLoss
  PROVE  Spec => []AckedDurable
<1>1. Init => TypeOK /\ DurableInv
  BY TypeInit, DurableInit
<1>2. TypeOK /\ DurableInv /\ [Next]_vars => (TypeOK /\ DurableInv)'
  BY TypeStep, DurableStep
<1>3. TypeOK /\ DurableInv => AckedDurable
  BY DEF DurableInv
<1> QED
  BY <1>1, <1>2, <1>3, PTL DEF Spec
-----------------------------------------------------------------------------
\* One op of the batch goes to the log.
LEMMA LogsRefine ==
  ASSUME TypeOK, SeqsDrawn, [Next]_vars, NEW c \in Clients, Logs(c)
  PROVE  Log!Log
<1> DEFINE n == sent[c][proc.i].seq
<1>1. sent[c][proc.i] \in Ops /\ proc.i \in DOMAIN sent[c]
  BY AppendingType, LenProperties DEF Logs, TypeOK
<1>2. n \in 1..MaxSeq
  <2>1. n \in Seqs(sent[c]) /\ n \in Nat /\ nextSeq[c] \in Nat /\ MaxSeq \in Nat
    BY <1>1, BoundsAssumption DEF Seqs, Ops, TypeOK
  <2>2. 1 <= n /\ n < nextSeq[c] /\ nextSeq[c] <= MaxSeq + 1
    BY <2>1 DEF SeqsDrawn
  <2> QED
    BY <2>1, <2>2
<1>3. Seqs(wal'[c]) = Seqs(wal[c]) \cup {n}
  <2>1. wal[c] \in Seq(Ops) /\ wal'[c] = Append(wal[c], sent[c][proc.i])
    BY DEF Logs, TypeOK
  <2> QED
    BY <1>1, <2>1, SeqsAppend
<1>4. \A d \in Clients \ {c} : wal'[d] = wal[d]
  BY DEF Logs, TypeOK
<1>5. Logged' = Logged \cup {<<c, n>>}
  <2> HIDE DEF n
  <2>1. \A d \in Clients : Ids(d, wal'[d])
                             = IF d = c THEN Ids(d, wal[d]) \cup {<<c, n>>} ELSE Ids(d, wal[d])
    BY <1>3, <1>4, ClientsAssumption DEF Ids
  <2> QED
    BY <2>1 DEF Logged
<1>6. acked' = acked /\ committed' = committed
  <2>1. \A d \in Clients : ~PushDuplicate(d)
    BY DEF Logs, Appending, PushDuplicate, PushPending, Free, Idle, At
  <2>2. proc.i \in Nat /\ sent[c] \in Seq(Ops)
    BY DEF TypeOK
  <2>3. \A d \in Clients : ~PushAck(d)
    BY <1>1, <2>2, LenProperties DEF Logs, Appending, PushAck
  <2> QED
    BY <2>1, <2>3, AckStep DEF Logs
<1> QED
  BY <1>2, <1>5, <1>6 DEF Log!Log

\* TruncateClient drops entries that the git commit made part of the history.
LEMMA TrimsRefine ==
  ASSUME TypeOK, HandlersUp, LoggedStaged, StageCommitted, [Next]_vars, Trims
  PROVE  Log!Trim
<1> DEFINE c == proc.who
           gone == {<<c, n>> : n \in Seqs(wal[c])}
<1>1. c \in Clients /\ c \in Committers /\ up # "down"
  BY DEF Trims, Committers, HandlersUp
<1>2. gone \subseteq committed
  <2> SUFFICES ASSUME NEW n \in Seqs(wal[c]) PROVE <<c, n>> \in committed
    OBVIOUS
  <2>1. n \in Seqs(stages[c]) \/ <<c, n>> \in committed
    BY <1>1 DEF LoggedStaged
  <2>2. Ids(c, stages[c]) \subseteq committed
    BY DEF StageCommitted, Trims
  <2> QED
    BY <1>1, <2>1, <2>2, IdsMember
<1>3. Logged' = Logged \ gone
  <2>1. \A d \in Clients : wal'[d] = IF d = c THEN << >> ELSE wal[d]
    BY DEF Trims, TypeOK
  <2>2. \A d \in Clients : Ids(d, wal'[d]) = IF d = c THEN {} ELSE Ids(d, wal[d])
    BY <2>1, SeqsEmpty DEF Ids
  <2>3. \A d \in Clients : Ids(d, wal[d]) = {<<d, n>> : n \in Seqs(wal[d])}
    BY ClientsAssumption DEF Ids
  <2> HIDE DEF c
  <2> QED
    BY <2>2, <2>3 DEF Logged
<1>4. acked' = acked /\ committed' = committed
  BY AckStep DEF Trims, PushDuplicate, PushPending, Free, Idle, At, PushAck
<1> QED
  BY <1>2, <1>3, <1>4 DEF Log!Trim

\* A git commit makes the ids of a stage part of the history.
LEMMA CommitRefines ==
  ASSUME TypeOK, SeqsDrawn, [Next]_vars, GitCommit
  PROVE  Log!Commit
<1> USE DEF walVars, clients
<1>1. Ids(proc.who, stages[proc.who]) \subseteq Clients \X (1..MaxSeq)
  <2> SUFFICES ASSUME NEW id \in Ids(proc.who, stages[proc.who])
               PROVE  id \in Clients \X (1..MaxSeq)
    OBVIOUS
  <2>1. proc.who \in Clients
    BY DEF Ids, TypeOK, Committers
  <2>2. PICK n \in Seqs(stages[proc.who]) : id = <<proc.who, n>>
    BY <2>1 DEF Ids
  <2>3. stages[proc.who] \in Seq(Ops)
    BY <2>1 DEF TypeOK, Committers
  <2>4. n \in Nat /\ nextSeq[proc.who] \in Nat /\ MaxSeq \in Nat
    BY <2>1, <2>2, <2>3, SeqsType, BoundsAssumption DEF TypeOK
  <2>5. 1 <= n /\ n < nextSeq[proc.who] /\ nextSeq[proc.who] <= MaxSeq + 1
    BY <2>1, <2>2 DEF SeqsDrawn
  <2> QED
    BY <2>1, <2>2, <2>4, <2>5
<1>2. acked' = acked /\ wal' = wal /\ committed' = committed \cup Ids(proc.who, stages[proc.who])
  BY DEF GitCommit
<1> QED
  BY <1>1, <1>2 DEF Log!Commit, Logged

\* Acks are of ids that the log or the history holds.
LEMMA AckRefines ==
  ASSUME TypeOK, SeenDurable, AppendedDurable, [Next]_vars,
         NEW c \in Clients, PushDuplicate(c) \/ PushAck(c)
  PROVE  Log!Ack
<1>1. wal' = wal /\ committed' = committed
  BY DEF PushDuplicate, PushAck, walVars, history
<1>2. Ids(c, sent[c]) \subseteq Logged \cup committed
  BY AcksDurable, LoggedDurable DEF Ids, Durable
<1>3. acked' = acked \cup Ids(c, sent[c])
  BY AcksDurable
<1> QED
  BY <1>1, <1>2, <1>3 DEF Log!Ack, Logged

\* Every step of the vault is a step of the abstract log or changes nothing in it.
LEMMA PromiseStep ==
  ASSUME NoLoss, TypeOK, DurableInv, [Next]_vars
  PROVE  [Log!Next]_(Log!vars)
<1> USE DEF DurableInv, Log!Next
<1>1. CASE \E c \in Clients : Logs(c)
  BY <1>1, LogsRefine
<1>2. CASE Trims
  BY <1>2, TrimsRefine
<1>3. CASE wal' = wal
  <2>1. CASE GitCommit
    BY <2>1, CommitRefines
  <2>2. CASE \E c \in Clients : PushDuplicate(c) \/ PushAck(c)
    BY <2>2, AckRefines
  <2>3. CASE committed' = committed /\ acked' = acked
    BY <1>3, <2>3 DEF Log!vars, Logged
  <2> QED
    BY <2>1, <2>2, <2>3, CommittedStep, AckStep
<1> QED
  BY <1>1, <1>2, <1>3, WalStep

\* The vault keeps what VaultLog promises its clients: nothing but a logged or
\* committed op is acked, nothing but a committed op leaves the log, and no ack
\* or commit is taken back.
THEOREM VaultKeepsPromise ==
  ASSUME NoLoss
  PROVE  Spec => KeepsPromise
<1>1. Init => TypeOK /\ DurableInv
  BY TypeInit, DurableInit
<1>2. TypeOK /\ DurableInv /\ [Next]_vars => (TypeOK /\ DurableInv)'
  BY TypeStep, DurableStep
<1>3. Init => Log!Init
  <2> SUFFICES ASSUME Init PROVE Log!Init
    OBVIOUS
  <2>1. \A c \in Clients : Ids(c, wal[c]) = {}
    BY SeqsEmpty DEF Init, Ids
  <2> QED
    BY <2>1 DEF Init, Log!Init, Logged
<1>4. TypeOK /\ DurableInv /\ [Next]_vars => [Log!Next]_(Log!vars)
  BY PromiseStep
<1> QED
  BY <1>1, <1>2, <1>3, <1>4, PTL DEF Spec, KeepsPromise, Log!Spec
=============================================================================
