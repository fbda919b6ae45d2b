SPECIFICATION FairSpec
CONSTANTS
  DayLength = 3
  MaxTime = 7
  Growth <- NoGrowth
  QueueLimit = 2
  PerCycle = 2
  RetryDelays <- ShortDelay
  FailedReads = FALSE
  MaxReboots = 1
  MaxFailures = 1
INVARIANTS NoSampleLost
PROPERTIES EventuallyIngested
