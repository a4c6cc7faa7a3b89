SPECIFICATION Spec
CONSTANTS
  Paths <- MCPaths
  Contents <- MCContents
  Absent = Absent
  p = p
  q = q
  a = a
  b = b
  Clients = {c1, c2}
  Publisher = publish
  Batches <- WriteBatches
  Syncable <- MCPaths
  Desired <- NoTrees
  TierThree = FALSE
  Pruning = FALSE
  FaultKinds = {"tear"}
  MaxFiles = 0
  StuckDepth = 2
  MaxSeq = 2
  MaxCommits = 6
  MaxCrashes = 2
  MaxFaults = 0
INVARIANTS AckedDurable
