SPECIFICATION FairSpec
CONSTANTS
  Messages <- PipelineMessages
  MaxMsgs = 5
  am_walsender = FALSE
INVARIANTS
  WorkNeedsTransaction
  IdleReportIsTrueUnlessDenied
PROPERTIES
  SkippingIsInert
  CommitsOnlyAtBoundaries
