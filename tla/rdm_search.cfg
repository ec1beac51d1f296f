SPECIFICATION Spec
CONSTANTS
  Bits = 3
  Pow <- PowersOfTwo
  Devices = {0, 1}
  None = None
  Errors = 2
  Changes = 1
  TableSize = 200
  UnmuteCounter = 3
  MuteCounter = 3
  DiscoveryCounter = 3
  QuickfindCounter = 3
  QuickfindDiscoveryCounter = 3
INVARIANTS StackBound Contiguous CompleteTod NoGhosts
PROPERTY SearchEnds
