SPECIFICATION Spec
CONSTANTS
  Messages <- PipelineMessages
  MaxMsgs = 3
  am_walsender = FALSE
INVARIANT QueryDestroysUnnamedStatement
