SPECIFICATION FairSpec
CONSTANTS
  PageWords = 2
  SectorWords = 4
  StoreWords = 3
  FirmwareWords = 0
  Values = {Zero, One}
  Images = {}
  Zero = Zero
  Magic = Magic
  Erased = Erased
  MaxChanges = 4
  MaxLosses = 2
INVARIANTS IdleSaved OneVersion
PROPERTIES ImplementsPromise EventuallySaved
