\* A network call of a coherence probe that never answers.
SPECIFICATION FairSpec
CONSTANTS
  SlotsPerHour = 2
  SlotsPerDay = 4
  RawAfter = 0
  RollupAfter = 0
  Venue = {v1}
  MaxTime = 0
  MaxPolls = 1
  MaxRefreshes = 0
  MaxCrashes = 0
PROPERTY LoopNeverFreezes
CHECK_DEADLOCK FALSE
