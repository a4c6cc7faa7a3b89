SPECIFICATION Spec
CONSTANTS
  Paths <- MCPaths
  Contents <- MCContents
  Absent = Absent
  p = p
  q = q
  a = a
  b = b
  Clients = {c1, c2}
  Publisher = publish
  Batches <- OpBatches
  Syncable <- MCPaths
  Desired <- NoTrees
  TierThree = FALSE
  Pruning = FALSE
  FaultKinds = {}
  MaxFiles = 0
  StuckDepth = 2
  MaxSeq = 3
  MaxCommits = 8
  MaxCrashes = 0
  MaxFaults = 0
SYMMETRY Symmetry
INVARIANTS  CachesMatchHead
PROPERTIES AcceptedOnce 
