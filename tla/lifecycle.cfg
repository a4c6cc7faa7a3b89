SPECIFICATION FairSpec
CONSTANTS
  Conns = {c1, c2}
  MaxStates = 2
  MaxOps = 2
  MaxFaults = 1
  None = None
  Risks = {}
INVARIANTS AckedKept ClientsHaveHead
PROPERTIES ComesAndGoes
CHECK_DEADLOCK FALSE
