SPECIFICATION Spec
CONSTANTS
  Configs <- MCConfigs
  Voltages = {299, 903, 1580}
  Timeouts = {200, 40000}
  MaxCalls = 3
  WholeCost = 2
  MaxFaults = 2
INVARIANTS VoltageOnRecord StateOnRecord BootedMeans
PROPERTIES BucksInTurn SleepInOrder FreshErrorKept
CHECK_DEADLOCK FALSE
