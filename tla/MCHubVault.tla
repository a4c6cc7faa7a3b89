----------------------------- MODULE MCHubVault -----------------------------
(***************************************************************************)
(* Instances of HubVault for TLC.  The batches are what clients push: the  *)
(* pre_hash of an op is what its client last saw at the path, which the    *)
(* server need not hold any more.                                          *)
(***************************************************************************)
EXTENDS HubVault

CONSTANTS p, q, a, b

MCPaths == {p, q}
MCContents == {a, b}

\* Creations and edits of one file, and one batch over both.
WriteBatches ==
  {<<Write(p, Absent, a)>>, <<Write(p, a, b)>>,
   <<Write(q, Absent, a), Write(p, a, b)>>}

\* Creation, rewriting, deletion and renaming, alone and in one batch.
OpBatches ==
  {<<Write(p, Absent, a)>>, <<Write(p, a, b), Write(q, Absent, b)>>,
   <<Delete(p, b)>>, <<Rename(q, p, b)>>, <<Rename(p, q, a)>>}

\* One file, created and edited by whoever comes first.
EditBatches == {<<Write(p, Absent, a)>>, <<Write(p, a, b)>>}

\* One file, created and moved.
MoveBatches == {<<Write(p, Absent, a)>>, <<Rename(p, q, a)>>}

NoTrees == {}

\* A publish of either tree has a file to write and one to delete when the
\* other is what the vault holds.
OneFileTrees == {[x \in MCPaths |-> IF x = f THEN b ELSE Absent] : f \in MCPaths}

Symmetry == Permutations(Clients)
=============================================================================
