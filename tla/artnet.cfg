SPECIFICATION FairSpec
CONSTANTS
  PortCount = 1
  PortAddresses = {1}
  Address <- OwnAddress
  Controllers = {c1, c2}
  Physicals = {0, 1}
  Senders <- ThreeSenders
  SlotCount = 2
  Lengths = {1, 2}
  None = None
  SyncTimeout = 1
  LossTimeout = 1
  MergeTimeout = 0
  RdmPorts = {1}
INVARIANT TwoSourcesMerge
PROPERTIES SyncIgnoredWhenMerging OnlyRegistered OnlyFresh LossForgets
