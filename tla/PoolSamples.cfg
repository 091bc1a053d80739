SPECIFICATION FairSpec
CONSTANTS
  Concurrency = 2
  Measured = 5
  Repetitions = 2
  ScenarioCount = 2
  Latencies <- TwoLatencies
  MaxLatency = 3
  Cuts <- TwoCuts
INVARIANTS
  SummaryCountsEverySample
  PercentilesAreNearestRank
PROPERTIES
  ImplementsLog
  PoolEnds
CHECK_DEADLOCK FALSE
