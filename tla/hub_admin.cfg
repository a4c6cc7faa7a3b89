SPECIFICATION Spec
CONSTANTS
  Paths <- MCPaths
  Contents <- MCContents
  Absent = Absent
  p = p
  q = q
  a = a
  b = b
  Clients = {c1}
  Publisher = publish
  Batches <- WriteBatches
  Syncable <- MCPaths
  Desired <- OneFileTrees
  TierThree = TRUE
  Pruning = TRUE
  FaultKinds = {"persist"}
  MaxFiles = 1
  StuckDepth = 2
  MaxSeq = 3
  MaxCommits = 4
  MaxCrashes = 1
  MaxFaults = 1
INVARIANTS TypeOK
PROPERTIES PublishedExactly
