SPECIFICATION FairSpec
CONSTANTS
  News = {n1}
  Ephemeral = {n1}
  Restores = {r1}
  Closes = {}
  Deletes = {}
  Lists = {}
  Stored = {s1}
  Shutdown = shutdown
  None = none
  MaxActive = 1
  n1 = n1
  s1 = s1
  r1 = r1
CHECK_DEADLOCK FALSE
INVARIANTS LiveWithinLimit
PROPERTIES  ClosedAgentStops
