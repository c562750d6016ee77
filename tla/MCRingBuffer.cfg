CONSTANTS
  Byte <- MCByte
  Chunks <- MCChunks
  Lengths <- MCLengths
  Capacities <- MCCapacities
  Stale = Stale
SPECIFICATION RingSpec
INVARIANTS TypeOK PositionsAgree
PROPERTY FifoSpec
