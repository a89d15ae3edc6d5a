SPECIFICATION FairSpec
CONSTANTS
  SlotsPerHour = 2
  SlotsPerDay = 2
  RawAfter = 1
  RollupAfter = 1
  Venue = {v1}
  MaxTime = 2
  MaxPolls = 2
  MaxRefreshes = 1
  MaxCrashes = 1
INVARIANTS TypeOK RollupConserves ScheduledPollTakesPriority NoLateResult OneProbePerVenueAndDay
PROPERTY PollIsBounded
CHECK_DEADLOCK FALSE
