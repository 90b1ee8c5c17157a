SPECIFICATION Spec
CONSTANTS
  News = {n1}
  Ephemeral = {}
  Restores = {}
  Closes = {c1}
  Deletes = {d1}
  Lists = {l1}
  Stored = {s1}
  Shutdown = shutdown
  None = none
  MaxActive = 1
  c1 = c1
  d1 = d1
  l1 = l1
  n1 = n1
  s1 = s1
CHECK_DEADLOCK FALSE
INVARIANTS ListComplete
