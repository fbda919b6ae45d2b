SPECIFICATION Spec
CONSTANTS
  DayLength = 4
  MaxTime = 5
  Growth <- SomeGrowth
  QueueLimit = 9
  PerCycle = 2
  RetryDelays <- ShortDelay
  FailedReads = FALSE
  MaxReboots = 1
  MaxFailures = 2
INVARIANTS IngestedOnce TrafficNotInflated RollupIsLatestTotal
