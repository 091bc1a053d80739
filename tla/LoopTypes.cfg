SPECIFICATION FairSpec
CONSTANTS
  Messages <- AllTypes
  MaxMsgs = 3
  am_walsender = FALSE
INVARIANTS
  ReadyForQueryBalanced
PROPERTY ImplementsFairQueryCycle
