SPECIFICATION MCSpec
CONSTANTS
  Paths = {p, q}
  Absent = Absent
  MinDeletes = 2
  MinPercent = 50
  Risks = {}
  MaxEdits = 3
  MaxEnds = 2
  MaxMisses = 1
  MaxPid = 3
  MaxLoad = 4
  MaxOps = 2
  MaxKills = 1
  Races = {}
    
PROPERTIES Settles
CHECK_DEADLOCK FALSE
