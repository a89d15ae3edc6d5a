SPECIFICATION FairSpec
CONSTANTS
  Asset = {"USDC", "EURC"}
  Task = {t1, t2}
  None = None
  Cadence = 1
  TickTimes = {1}
  MaxTime = 3
  MaxClicks = 1
  MaxLosses = 1
INVARIANTS TypeOK RefreshIsSeen OneRefreshAtATime RefreshingHasCause
PROPERTIES PollKeepsThePair CatchesUp
CHECK_DEADLOCK FALSE
