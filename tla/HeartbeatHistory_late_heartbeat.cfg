SPECIFICATION Spec
CONSTANTS
  DayLength = 10
  MaxTime = 5
  Growth <- SteadyGrowth
  QueueLimit = 9
  PerCycle = 2
  RetryDelays <- LongDelay
  FailedReads = FALSE
  MaxReboots = 0
  MaxFailures = 1
INVARIANTS TrafficNotInflated
