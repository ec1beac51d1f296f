SPECIFICATION FairSpec
CONSTANTS
  MaxTimers = 3
  Word = 4
  IdWord = 4
  Intervals = {0, 1}
  MaxLate = 1
  CallbackOps = {"Delete", "Change"}
INVARIANT UniqueIds
PROPERTIES DeadlinesKept ImplementsService DueTimerFires
