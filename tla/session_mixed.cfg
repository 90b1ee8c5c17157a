SPECIFICATION Spec
CONSTANTS
  Turns = {t1}
  AgentRuns = {a1}
  Configs = {}
  UsageReads = {}
  Opening = opening
  Closer = closer
  None = none
  MaxGen = 2
  MaxOut = 2
  HoldBound = 1
  a1 = a1
  t1 = t1
CHECK_DEADLOCK FALSE
SYMMETRY Symmetry
INVARIANTS TypeOK OneForeground IdleOnce SuccessIsDurable OneProcess CancelWins SettledIsJoined
