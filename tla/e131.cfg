SPECIFICATION Spec
CONSTANTS
  PortCount = 1
  Universes = {1}
  Universe <- OwnUniverse
  Senders = {s1, s2, s3}
  SlotCount = 1
  Lengths = {0, 1}
  None = None
  Priorities = {1, 2}
  Lowest = 1
  SyncAddresses = {x}
  LtpPorts = {}
  DisableMergeTimeout = FALSE
  DisableSynchronize = FALSE
  LossTimeout = 1
  PriorityTimeout = 2
SYMMETRY Symmetry
INVARIANTS DistinctSources LossIsClean ForcedIsSync OutputFromSources
PROPERTY HigherPriorityWins
