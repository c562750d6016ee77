SPECIFICATION Spec
CONSTANTS
  Threads <- MCThreads
  Channels <- MCChannels
  Workers = {"worker0", "worker1", "worker2"}
  Procs = {"first", "second"}
  Roles = {"both", "server", "client"}
  Messages = 5
  Rounds = 5
  Pulses = 10
  Backlog = 2
  Interrupts = 3
INVARIANTS OneInterrupt
PROPERTIES IpcEnds 
CHECK_DEADLOCK FALSE
