SPECIFICATION Spec
CONSTANTS
  Turns = {}
  AgentRuns = {a1,a2,a3}
  Configs = {}
  UsageReads = {}
  Opening = opening
  Closer = closer
  None = none
  MaxGen = 1
  MaxOut = 1
  HoldBound = 4
  a1 = a1
  a2 = a2
  a3 = a3
CHECK_DEADLOCK FALSE
SYMMETRY Symmetry
INVARIANT RecordsInOrder
