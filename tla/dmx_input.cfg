SPECIFICATION FairSpec
CONSTANTS
  ChannelsMax = 2
  LengthAt = 1
  LengthMin = 2
  MessageSize = 4
  DiscoveryMax = 2
  Bytes = {0, 1, 2}
  MaxNoise = 2
  MaxTorn = 1
  Quick = TRUE
INVARIANT CompleteIsWhole
PROPERTIES Recovers LossReported
