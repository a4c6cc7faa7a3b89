SPECIFICATION Spec
CONSTANTS
  Paths = {p, q}
  p = p
  q = q
  Absent = Absent
  ModeSets = {{"sync"}}
  UserDeletes = {}
  PeerDeletes = {}
  CrashAt = {}
  Risks = {"flush"}
  MaxEdits = 3
  MaxDrops = 0
INVARIANTS FilesAtBase
CHECK_DEADLOCK FALSE
