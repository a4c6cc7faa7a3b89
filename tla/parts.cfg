SPECIFICATION MCSpec
CONSTANTS
  Absent = Absent
  Risks = {}
  Lines = 3
  Notes = {"f"}
  Peers = {"c1", "c2"}
  Names = {"v"}
  Reviews <- MCReviews
  MaxText = 2
  MaxAcks = 1
  MaxCommits = 3
  MaxCalls = 2
  PageSize = 2
  Gaps = {}
  KeyNames = {"a", "b"}
  Conns = {"c1"}
  MaxTokens = 3
  MaxKeyOps = 2
  MaxEdits = 1
  MaxStops = 1
  Lapses = {}
  Mounts = {1, 2}
  Flagged = 1
  Keys = {"k1", "k2"}
  Tabs = {"t1"}
  MaxBindings = 1
  MaxContent = 4
  MaxGrants = 1
  MaxPosts = 3
  MaxStarts = 1
  Slips = {}
  NoFile = NoFile
  Bytes = {b1, b2}
  TagNames = {1, 2, 3}
  Reviewed = {2}
  NamesReused = FALSE
  MaxTrees = 3
  MaxTagCalls = 3
  MaxVersions = 2
  MaxPdfEvents = 4
  MaxBroken = 1
INVARIANTS KnownAsOnServer 
INVARIANTS MergeMakesBothEdits
  
INVARIANTS   AccessInStep
INVARIANTS SessionsAreCurrent 
INVARIANTS TaggedPagesFound PdfPagesServed
CHECK_DEADLOCK FALSE
