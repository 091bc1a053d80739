SPECIFICATION Spec
CONSTANTS
  Absent = Absent
  Empty = Empty
  Scenarios <- AllScenarios
  DecoySets <- Tiers
  MaxMissing = 1
CHECK_DEADLOCK FALSE
INVARIANTS
  GroundTruthHolds
  DecoysAreNeutral
  PermitAgreement
  PermitSurvivesCompletion
