SPECIFICATION FairSpec
CONSTANTS
  Dialogs = {d1}
  MaxCalls = 1
  MaxForegrounds = 2
  MaxCompactions = 1
  None = none
  d1 = d1
CHECK_DEADLOCK FALSE
INVARIANTS TypeOK DialogsEndWithForeground InterruptSparesCompaction DeadlineIsFresh
PROPERTIES ForegroundsEnd
