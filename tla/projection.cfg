SPECIFICATION Spec
CONSTANTS
  Tools = {c1}
  Texts = {x}
  Images = {i1,i2,fatal}
  Refused = {}
  Fatal = {fatal}
  Guidance = guidance
  None = none
  PerCall = 1
  MaxCycles = 2
  MaxEpoch = 2
  MaxText = 2
  MaxLost = 1
  c1 = c1
  i2 = i2
  x = x
  i1 = i1
  fatal = fatal
CHECK_DEADLOCK FALSE
SYMMETRY Symmetry
INVARIANTS TypeOK UsageIsCurrent TextIsExact ImageLossIsNamed
PROPERTIES CallsMoveForward ReplayShowsWhatWasShown
