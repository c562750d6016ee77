CONSTANTS
  Devices = {d1}
  WithBar1 = {d1}
  Files = {f1}
  Limits = {1}
  Records = {r1}
  Nowhere = Nowhere
SPECIFICATION FairSpec
PROPERTIES RemoveStopsDma
CHECK_DEADLOCK FALSE
