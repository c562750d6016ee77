CONSTANTS
  MaxDataSize <- MCMaxDataSize
  CrcUpdate <- UpdateByTable
  Lines <- MCLines
  MCDamage = {0, 4, 13, 170, 187}
SPECIFICATION FeedSpec
INVARIANTS TypeOK OverrunStaysInside HuntedFrameIsFound
PROPERTIES CompleteFrameWasOnTheLine DamageIsDetected
