SPECIFICATION FairSpec
CONSTANTS
  ChannelsMax = 2
  LengthAt = 1
  LengthMin = 2
  MessageSize = 4
  DiscoveryMax = 2
  Bytes = {0, 1, 2}
  MaxNoise = 0
  MaxTorn = 0
  Quick = FALSE
INVARIANT LengthInRange
