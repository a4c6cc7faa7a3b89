SPECIFICATION FairSpec
CONSTANTS
  Paths <- MCPaths
  Contents <- MCContents
  Absent = Absent
  p = p
  q = q
  a = a
  b = b
  Clients = {c1, c2}
  Publisher = publish
  Batches <- EditBatches
  Syncable <- MCPaths
  Desired <- NoTrees
  TierThree = FALSE
  Pruning = FALSE
  FaultKinds = {"apply", "reopen"}
  MaxFiles = 0
  StuckDepth = 2
  MaxSeq = 2
  MaxCommits = 6
  MaxCrashes = 1
  MaxFaults = 1
PROPERTIES AckedCommitted ServesAgain
