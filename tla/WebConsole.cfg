\* Three visits with up to six sockets and two attempts to reconnect, and three
\* overlapping requests with up to six tokens.
SPECIFICATION Spec
CONSTANTS
  maxReconnectAttempts = 2
  MaxSockets = 6
  MaxVisits = 3
  Requests = {"r1", "r2", "r3"}
  MaxTokens = 6
INVARIANTS LeavesNothingBehind StorageAgrees
PROPERTIES ReleasedByItsAnswer
CHECK_DEADLOCK FALSE
