SPECIFICATION FairSpec
CONSTANTS
  Calls = {c1, a1, stats}
  Stats = stats
  Aborts = {a1}
  Expiring = {a1}
  Strays = {}
  Pump = pump
  None = none
  MaxWritten = 3
  StdinRoom = 1
  c1 = c1
  a1 = a1
  stats = stats
CHECK_DEADLOCK FALSE
INVARIANTS TypeOK NobodyForgotten AnswersFit
PROPERTIES EndedCallsReturn AnsweredCallsReturn KeepsPromise
