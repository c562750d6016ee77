CONSTANTS
  Depth = 4
  MsgSize = 3
  IndexModulus = 8
  SizeModulus = 4
  Channels = {0, 1}
  Payloads <- MCPayloads
  Readers = {1, 2}
  Calls <- MCCalls
  WaitLimit = 1
SPECIFICATION Spec
PROPERTY SendKeepsOthers
