SPECIFICATION Spec
CONSTANTS
  Models = {plain,deep}
  Plain = {plain}
  Levels = {off,high}
  Off = off
  Contents = {x,y}
  Torn = torn
  None = none
  MaxRows = 2
  plain = plain
  deep = deep
  off = off
  high = high
  x = x
  y = y
CHECK_DEADLOCK FALSE
SYMMETRY Symmetry
INVARIANTS TypeOK AckedRowsStand SelectionStands
