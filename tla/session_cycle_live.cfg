SPECIFICATION FairSpec
CONSTANTS
  Turns = {}
  AgentRuns = {a1}
  Configs = {}
  UsageReads = {u1}
  Opening = opening
  Closer = closer
  None = none
  MaxGen = 2
  MaxOut = 1
  HoldBound = 1
  a1 = a1
  u1 = u1
CHECK_DEADLOCK FALSE
INVARIANT ClosedIsFenced
PROPERTY LostCycleEnds
