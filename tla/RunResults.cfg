SPECIFICATION FairSpec
CONSTANTS
  Expected <- TwoScenarios
  Levels = 3
  MaxRuns = 2
CHECK_DEADLOCK FALSE
INVARIANTS
  PassMeansAllCorrect
  StaleRecordsMeanEarlyFailure
  LevelsInOrder
  RawBacksSummary
  CompletedBenchmarkIsUniform
PROPERTIES
  ResultsNeedGate
  ScriptEnds
