SPECIFICATION Spec
CONSTANTS
  News = {}
  Ephemeral = {}
  Restores = {r1,r2}
  Closes = {}
  Deletes = {d1}
  Lists = {}
  Stored = {s1}
  Shutdown = shutdown
  None = none
  MaxActive = 2
  d1 = d1
  r1 = r1
  r2 = r2
  s1 = s1
CHECK_DEADLOCK FALSE
SYMMETRY Symmetry
INVARIANTS TypeOK OneLive ResidentUntilClosed DeletedStaysGone
