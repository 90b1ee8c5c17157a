SPECIFICATION Spec
CONSTANTS
  Turns = {t1,t2}
  AgentRuns = {}
  Configs = {}
  UsageReads = {}
  Opening = opening
  Closer = closer
  None = none
  MaxGen = 1
  MaxOut = 2
  HoldBound = 1
  t1 = t1
  t2 = t2
CHECK_DEADLOCK FALSE
SYMMETRY Symmetry
PROPERTY NoStrayAbort
