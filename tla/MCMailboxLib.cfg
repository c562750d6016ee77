SPECIFICATION Spec
CONSTANTS
  Procs = {p, q}
  Channels = {0, 1}
  Sizes = {0, 8, 40}
  Depth = 4
  MaxMessages = 5
INVARIANTS OrderOfSender ReportedIsGone
CHECK_DEADLOCK FALSE
SYMMETRY MCSymmetry
