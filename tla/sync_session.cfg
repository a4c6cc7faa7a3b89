SPECIFICATION FairSpec
CONSTANTS
  Paths = {p, q}
  p = p
  q = q
  Absent = Absent
  ModeSets = {{"sync", "autosync"}, {"pull", "mirror"}}
  UserDeletes = {q}
  PeerDeletes = {p}
  CrashAt = {"rebase", "copy", "trim", "reemit"}
  Risks = {}
  MaxEdits = 3
  MaxDrops = 1
INVARIANTS FilesAtBase QuietMeansSame
PROPERTIES NoSilentOverwrite  StagedIsPushed
CHECK_DEADLOCK FALSE
