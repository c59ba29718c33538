SPECIFICATION FairSpec
CONSTANTS
  Interval <- Intervals
  TimeMod = 50
  MsPerTick = 3
  PoolSize = 3
  MaxLag = 3
INVARIANTS RecordsSafe ScheduleSafe
PROPERTIES CalledWhenDue TimersRun
