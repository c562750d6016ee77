CONSTANTS
  Depth = 2
  MsgSize = 3
  IndexModulus = 5
  SizeModulus = 2
  Channels = {0, 1}
  Payloads <- MCPayloads
  Readers = {1, 2}
  Calls <- MCCalls
  WaitLimit = 1
SPECIFICATION FairSpec
INVARIANTS TypeOK CountCoversQueue NoSleepOverMessage
PROPERTIES QueueSpec TimedReaderReturns
