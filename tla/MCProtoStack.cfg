CONSTANTS
  MaxDataSize = 4
  CrcUpdate <- UpdateByTable
  TimeModulus = 3
  TimeoutMs = 1
  Retries = {0, 1}
  Commands <- MCCommands
  RxCapacity = 16
  Reads <- MCReads
  Losses = {11}
  PeerLimit = 3
SPECIFICATION Spec
INVARIANT NothingLost
PROPERTIES ChannelSpec AnsweredNeverTimesOut TimeoutCountsFromZero
