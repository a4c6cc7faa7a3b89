--------------------------- MODULE ConflictRules ---------------------------
(***************************************************************************)
(* One op of a peer meets what the client has staged for the same path:    *)
(* Classify decides, applyDecision writes the files, the op that is left   *)
(* is pushed, and the working tree is reconciled with the manifest.        *)
(*                                                                         *)
(* A text is the set of the edits it holds: 1 is the file both start from, *)
(* 2 the peer's edit, 3 the client's, 0 the edit a conflict marker is.     *)
(* x is the path the ops are about; the peer may rename it to y and the    *)
(* client to n.  xs and ys are their sidecars.                             *)
(***************************************************************************)
EXTENDS Integers, FiniteSets

CONSTANTS
  Absent,   \* the content of a path that holds no file
  Risks     \* the known defects that are let loose

ASSUME RisksAssumption == Risks \subseteq {"sidecar", "rename", "delete"}
ASSUME AbsentAssumption == \A text \in SUBSET (0 .. 3) : Absent # text

VARIABLES
  pc,
  in,                      \* the peer's op and the staged one, and how they fit
  disk, manifest, bstore,  \* what each path holds: working tree, manifest, base/
  staged,                  \* T1: at most one op
  server                   \* the tree at the server's HEAD, the peer's op in it
vars == <<pc, in, disk, manifest, bstore, staged, server>>

Paths == {"x", "y", "n", "xs", "ys"}
SidecarPath(p) == IF p = "x" THEN "xs" ELSE "ys"

NoOp == [type |-> "none"]
Write(p, c, pre) == [type |-> "write", path |-> p, data |-> c, pre |-> pre]
Delete(p, pre) == [type |-> "delete", path |-> p, data |-> Absent, pre |-> pre]
Rename(p, to, pre) == [type |-> "rename", path |-> p, to |-> to, data |-> {}, pre |-> pre]

\* What a tree is after an op, for the working tree, the server and base/ alike.
Done(t, op) ==
  CASE op.type = "none" -> t
    [] op.type = "rename" -> [t EXCEPT ![op.to] = t[op.path], ![op.path] = Absent]
    [] OTHER -> [t EXCEPT ![op.path] = op.data]
-----------------------------------------------------------------------------
Formats == {"callout", "comment", "marker", "sidecar"}

\* The combinations of ops that are known to go wrong.
Risky(i) ==
  \/ /\ "sidecar" \notin Risks
     /\ i.theirs.type = "write" /\ i.ours.type = "write"
     /\ i.binary \/ (i.meet /\ i.format = "sidecar")
  \/ /\ "rename" \notin Risks
     /\ \/ i.ours.type = "rename"
        \/ i.theirs.type = "rename" /\ i.ours.type = "write"
  \/ /\ "delete" \notin Risks
     /\ i.theirs.type = "delete" /\ i.ours.type = "delete"

\* The client has edited x, deleted or renamed it since the base, or created
\* it; the peer has, too.  meet: the edits overlap.
Inputs ==
  {i \in [base : {Absent, {1}}, binary : BOOLEAN, format : Formats, meet : BOOLEAN,
          theirs : {Write("x", c, b) : c \in {{1, 2}, {2}}, b \in {Absent, {1}}} \cup
                   {Delete("x", {1}), Rename("x", "y", {1})},
          ours : {NoOp, Write("x", {1, 3}, {1}), Write("x", {3}, Absent),
                  Write("x", {1, 2}, {1}), Delete("x", {1}), Rename("x", "n", {1})}] :
     /\ i.theirs.pre = i.base
     /\ i.theirs.type = "write" => (1 \in i.theirs.data) = (i.base # Absent)
     /\ i.ours.type # "none" => i.ours.pre = i.base
     /\ ~Risky(i)}

Init ==
  /\ pc = "decide"
  /\ in \in Inputs
  /\ manifest = [p \in Paths |-> IF p = "x" THEN in.base ELSE Absent]
  /\ bstore = manifest
  /\ staged = in.ours
  /\ disk = Done(manifest, in.ours)
  /\ server = Done(manifest, in.theirs)
-----------------------------------------------------------------------------
(***************************************************************************)
(* Classify: what happens to the files, and the op that stays staged       *)
(***************************************************************************)
Decision(action, content, op) ==
  [action |-> action, content |-> content, sidecar |-> "", staged |-> op]
WithSidecar(d, p) == [d EXCEPT !.sidecar = SidecarPath(p)]

Both == in.theirs.data \cup in.ours.data
Clean == in.theirs.data = in.ours.data \/ ~in.meet

\* The op of the client, rehomed at the sidecar of p as a create.
Rehomed(p) == Write(SidecarPath(p), in.ours.data, Absent)

\* classifyWriteWrite.  Bytes and formats without a comment syntax do not merge.
WriteWrite ==
  IF in.binary \/ (~Clean /\ in.format = "sidecar")
  THEN WithSidecar(Decision("apply", in.theirs.data, Rehomed("x")), "x")
  ELSE LET c == IF Clean THEN Both ELSE Both \cup {0}
       IN Decision("merge", c, Write("x", c, in.theirs.data))

\* The client's text stays under a header, or goes to the sidecar.
DeleteWrite ==
  IF in.binary \/ in.format = "sidecar"
  THEN WithSidecar(Decision("sidecar", in.ours.data, Rehomed("x")), "x")
  ELSE LET c == in.ours.data \cup {0}
       IN Decision("merge", c, Write("x", c, Absent))

\* Faulty: the deletion wins over the edit.
ClassifiedDeleteWins ==
  IF in.theirs.type = "delete" THEN Decision("applyDelete", Absent, NoOp)
  ELSE IF in.ours.type = "write" /\ in.theirs.type = "write" THEN WriteWrite
  ELSE Decision("apply", in.theirs.data, in.ours)

Classified ==
  LET t == in.theirs  o == in.ours IN
  CASE o.type = "none" /\ t.type = "write" -> Decision("apply", t.data, NoOp)
    [] o.type = "none" /\ t.type = "delete" -> Decision("applyDelete", Absent, NoOp)
    [] o.type = "none" /\ t.type = "rename" -> Decision("applyRename", Absent, NoOp)
    [] t.type = "write" /\ o.type = "write" -> WriteWrite
    [] t.type = "write" /\ o.type = "delete" ->
         WithSidecar(Decision("sidecar", t.data, Delete("x", t.data)), "x")
    [] t.type = "write" /\ o.type = "rename" ->
         WithSidecar(Decision("apply", t.data, Rehomed("x")), "x")
    [] t.type = "delete" /\ o.type = "write" -> DeleteWrite
    [] t.type = "delete" /\ o.type = "delete" -> Decision("noop", Absent, NoOp)
    [] t.type = "delete" /\ o.type = "rename" ->
         Decision("noop", Absent, Write(o.to, o.data, Absent))
    [] t.type = "rename" /\ o.type = "write" ->
         Decision("applyRename", Absent, Write(t.to, o.data, Absent))
    [] t.type = "rename" /\ o.type = "delete" ->
         Decision("applyRename", Absent, Delete(t.to, o.pre))
    [] t.type = "rename" /\ o.type = "rename" ->
         Decision("applyRename", Absent, NoOp)

(***************************************************************************)
(* applyDecision.  A rename whose source is missing leaves the tree alone. *)
(***************************************************************************)
Moved(t, op) == IF t[op.path] = Absent THEN t ELSE Done(t, op)

\* Faulty: manifest and base/ take what is on disk.
KnownAsOnDisk(t, d) == IF d.action = "noop" THEN t ELSE [t EXCEPT !["x"] = d.content]

\* The manifest and base/ follow the server, whatever the working tree holds.
Known(t, d) ==
  CASE d.action = "noop" -> t
    [] d.action = "applyRename" -> Moved(t, in.theirs)
    [] OTHER -> Done(t, in.theirs)

\* Faulty: a path that the server deleted keeps its file.
OnDiskKept(d) ==
  CASE d.action \in {"apply", "merge"} -> [disk EXCEPT !["x"] = d.content]
    [] d.action = "applyDelete" -> [disk EXCEPT !["x"] = Absent]
    [] d.action = "applyRename" -> Moved(disk, in.theirs)
    [] d.action = "noop" -> disk
    [] d.action = "sidecar" -> [disk EXCEPT ![d.sidecar] = d.content]

OnDisk(d) ==
  CASE d.action \in {"apply", "merge"} -> [disk EXCEPT !["x"] = d.content]
    [] d.action = "applyDelete" -> [disk EXCEPT !["x"] = Absent]
    [] d.action = "applyRename" -> Moved(disk, in.theirs)
    [] d.action = "noop" -> disk
    [] d.action = "sidecar" ->
         \* the copy lands first; a path that the server deleted is unlinked
         [disk EXCEPT ![d.sidecar] = d.content,
                      !["x"] = IF in.theirs.type = "delete" THEN Absent ELSE @]

Decide ==
  /\ pc = "decide"
  /\ LET d == Classified IN
       /\ disk' = OnDisk(d)
       /\ manifest' = IF d.action = "sidecar"
                      THEN [Known(manifest, d) EXCEPT ![d.sidecar] = d.content]
                      ELSE Known(manifest, d)
       /\ bstore' = Known(bstore, d)
       /\ staged' = d.staged
  /\ pc' = "push"
  /\ UNCHANGED <<in, server>>

\* The server takes an op whose pre_hash is what it holds; the client then
\* records the op in manifest and base/.
Fits == staged.type # "none" => staged.pre = server[staged.path]

Push ==
  /\ pc = "push" /\ Fits
  /\ server' = Done(server, staged)
  /\ manifest' = Done(manifest, staged)
  /\ bstore' = Done(bstore, staged)
  /\ staged' = NoOp
  /\ pc' = "reconcile"
  /\ UNCHANGED <<in, disk>>

\* ReconcileWorkingTree, and the push of what it found.
Drifted == {p \in Paths : disk[p] # manifest[p]}

Reconcile ==
  /\ pc = "reconcile"
  /\ server' = [p \in Paths |-> IF p \in Drifted THEN disk[p] ELSE server[p]]
  /\ manifest' = disk
  /\ bstore' = [p \in Paths |-> IF p \in Drifted THEN disk[p] ELSE bstore[p]]
  /\ pc' = "done"
  /\ UNCHANGED <<in, disk, staged>>

Next == Decide \/ Push \/ Reconcile
Spec == Init /\ [][Next]_vars
-----------------------------------------------------------------------------
\* What the client takes for the server's is that: the op that is left names the
\* content that its path has there (one that does not is refused at every push
\* from then on), and so do manifest and base/, also where the working tree holds
\* a merge; the next merge starts from there.  Once the op is pushed the working
\* tree is what the manifest says too, and nothing is left that the next reconcile
\* would take for a change of the user's.
KnownAsOnServer ==
  /\ pc = "push" => Fits
  /\ pc # "decide" => \A p \in {"x", "y", "n"} : manifest[p] = server[p] /\ bstore[p] = server[p]
  /\ pc = "reconcile" => Drifted = {}

EditsIn(t) == UNION {t[p] : p \in {q \in Paths : t[q] # Absent}}
EditsOf(op) == IF op.type = "write" THEN op.data ELSE {}

\* Neither edit is lost: after each step it is in a file of the client, in T1 or
\* at the server; and of two edits both are in the vault in the end, in the file
\* or in its sidecar, where the next reconcile leaves them.
EditsKept ==
  /\ EditsOf(in.theirs) \cup EditsOf(in.ours)
       \subseteq EditsIn(disk) \cup EditsIn(server) \cup EditsOf(staged)
  /\ pc = "done" /\ in.ours.type = "write" /\ in.theirs.type = "write" =>
       in.theirs.data \cup in.ours.data \subseteq EditsIn(server) \cap EditsIn(disk)
-----------------------------------------------------------------------------
(***************************************************************************)
(* Why: ConflictInv is inductive where no defect is let loose              *)
(***************************************************************************)
FileTrees == [Paths -> {Absent} \cup SUBSET (0 .. 3)]
Notable == {"x", "y", "n"}
Edited == EditsOf(in.theirs) \cup EditsOf(in.ours)
BothWrite == in.theirs.type = "write" /\ in.ours.type = "write"

\* The files, manifest, base/ and server before the op is classified.
Unclassified ==
  /\ manifest = [p \in Paths |-> IF p = "x" THEN in.base ELSE Absent]
  /\ bstore = manifest /\ staged = in.ours
  /\ disk = Done(manifest, in.ours)
  /\ server = Done(manifest, in.theirs)

\* The op that is left is all that the working tree has and the manifest has not.
LeftIsDrift ==
  /\ Fits /\ disk = Done(manifest, staged)
  /\ staged = NoOp
     \/ (staged.type \in {"write", "delete"} /\ staged.path \in Paths)

ConflictInv ==
  /\ in \in Inputs /\ pc \in {"decide", "push", "reconcile", "done"}
  /\ pc = "decide" => Unclassified
  /\ pc = "push" => LeftIsDrift
  /\ pc \in {"reconcile", "done"} => disk = manifest
  /\ pc # "decide" =>
       /\ disk \in FileTrees /\ manifest \in FileTrees
       /\ DOMAIN server = Paths /\ DOMAIN bstore = Paths
       /\ \A p \in Notable : manifest[p] = server[p] /\ bstore[p] = server[p]
       /\ Edited \subseteq EditsIn(disk)
       /\ BothWrite => disk["x"] # Absent /\ Edited \subseteq disk["x"]
=============================================================================
