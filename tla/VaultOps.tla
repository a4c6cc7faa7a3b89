------------------------------ MODULE VaultOps ------------------------------
(***************************************************************************)
(* Ops and vault trees: the vocabulary every leyline component shares.     *)
(*                                                                         *)
(* An op (protocol/op.go) carries a client-monotonic seq, a type, its      *)
(* primary path, the rename target, the written content and the pre_hash   *)
(* the client believed its primary path had.  A content hash is            *)
(* represented by the content itself, and a missing file by Absent.        *)
(* A tree maps every path to its content.                                  *)
(***************************************************************************)
EXTENDS Integers, Sequences, FiniteSets, SequencesExt

CONSTANTS Paths,      \* vault-relative paths
          Contents,   \* file contents (equivalently, their hashes)
          Absent      \* the state of a path that holds no file

ASSUME PathsAssumption  == IsFiniteSet(Paths)
ASSUME AbsentAssumption == Absent \notin Contents

States == Contents \cup {Absent}
Trees  == [Paths -> States]

OpTypes == {"write", "delete", "rename"}

\* An op without its seq: what a client wants done.  `to` equals `path`
\* except in a rename; `data` is Absent except in a write.
Intents == [type : OpTypes, path : Paths, to : Paths, data : States, pre : States]

Ops == [seq : Nat, type : OpTypes, path : Paths, to : Paths,
        data : States, pre : States]

Op(n, x) == [seq |-> n, type |-> x.type, path |-> x.path, to |-> x.to,
             data |-> x.data, pre |-> x.pre]

Write(p, pre, d)  == [type |-> "write",  path |-> p, to |-> p, data |-> d, pre |-> pre]
Delete(p, pre)    == [type |-> "delete", path |-> p, to |-> p, data |-> Absent, pre |-> pre]
Rename(p, q, pre) == [type |-> "rename", path |-> p, to |-> q, data |-> Absent, pre |-> pre]

\* ValidateOp: a write carries data, a delete or rename declares a pre_hash.
WellFormed(x) ==
  /\ x.type = "write" => x.data # Absent /\ x.to = x.path
  /\ x.type = "delete" => x.pre # Absent /\ x.data = Absent /\ x.to = x.path
  /\ x.type = "rename" => x.pre # Absent /\ x.data = Absent

\* The paths an op references; Stage.Touches looks at both ends of a rename.
Touched(x) == {x.path, x.to}

TouchedBy(ops) == UNION {Touched(ops[i]) : i \in DOMAIN ops}

\* What one op makes of a tree, as the forward pass of PathHash computes it.
Effect(x, t) ==
  CASE x.type = "write"  -> [t EXCEPT ![x.path] = x.data]
    [] x.type = "delete" -> [t EXCEPT ![x.path] = Absent]
    [] x.type = "rename" -> [t EXCEPT ![x.path] = Absent, ![x.to] = t[x.path]]

\* What becomes of tree t while the ops are applied in order: through[n] is the
\* tree after n of them.
Through(ops, t) ==
  LET through[n \in 0 .. Len(ops)] == IF n = 0 THEN t ELSE Effect(ops[n], through[n - 1])
  IN through

\* Tree t with the ops applied in order: HEAD overlaid by a stage.
Overlay(ops, t) == Through(ops, t)[Len(ops)]

\* Faulty: a replay that demands the pre_hash once more.
ApplicableByPreHash(x, t) == x.pre = t[x.path]

\* CommitOps removes or moves a file that must be there: os.Rename fails on a
\* missing source, and the index removal of a delete on a missing entry.
Applicable(x, t) == x.type # "write" => t[x.path] # Absent

Seqs(ops) == {ops[i].seq : i \in DOMAIN ops}

\* Faulty: off by one.
UnseenOffByOne(ops, highest) == {x \in Range(ops) : x.seq > highest + 1}

\* filterAcked: the ops of a batch whose seq the idempotency cache has not
\* accepted, and where they start.  Seqs ascend within a batch.
Unseen(ops, highest) == {x \in Range(ops) : x.seq > highest}

IsFirstNew(k, ops, highest) ==
  /\ k \in DOMAIN ops /\ ops[k].seq > highest
  /\ \A j \in 1..(k - 1) : ops[j].seq <= highest

\* Faulty: nil taken for "no expectation".
PreHashMatchesLoosely(x, t) == x.pre \in {Absent, t[x.path]}

\* preHashMatches: nil stands for a path that holds no file.
PreHashMatches(x, t) == x.pre = t[x.path]

\* Faulty: a rename leaves its source accounted for.
TrackOpRenameKeeps(fs, x) ==
  CASE x.type = "write"  -> fs \cup {x.path}
    [] x.type = "delete" -> fs \ {x.path}
    [] x.type = "rename" -> IF x.path \in fs THEN fs \cup {x.to} ELSE fs

\* The files of a tree; sizeTracker.Apply keeps this set from the ops alone.
Files(t) == {p \in Paths : t[p] # Absent}

TrackOp(fs, x) ==
  CASE x.type = "write"  -> fs \cup {x.path}
    [] x.type = "delete" -> fs \ {x.path}
    [] x.type = "rename" -> IF x.path \in fs THEN (fs \ {x.path}) \cup {x.to} ELSE fs

Track(ops, fs) ==
  LET tracked[n \in 0 .. Len(ops)] == IF n = 0 THEN fs ELSE TrackOp(tracked[n - 1], ops[n])
  IN {p \in Paths : p \in tracked[Len(ops)]}
=============================================================================
