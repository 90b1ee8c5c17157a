SPECIFICATION FairSpec
CONSTANTS
  Turns = {t1}
  AgentRuns = {}
  Configs = {c1}
  UsageReads = {}
  Opening = opening
  Closer = closer
  None = none
  MaxGen = 2
  MaxOut = 1
  HoldBound = 1
  c1 = c1
  t1 = t1
CHECK_DEADLOCK FALSE
PROPERTIES CancelledIsAnswered LostIsAnswered CloseCompletes
