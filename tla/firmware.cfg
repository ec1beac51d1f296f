SPECIFICATION FairInstallSpec
CONSTANTS
  PageWords = 2
  SectorWords = 2
  StoreWords = 2
  FirmwareWords = 2
  Values = {Zero, One}
  Images = {New, Newer}
  Zero = Zero
  Magic = Magic
  Erased = Erased
  MaxChanges = 1
  MaxLosses = 1
  ChunkWords = 1
  MaxUploads = 2
INVARIANT InstalledWhenClear
PROPERTY InstallReturns
