SPECIFICATION FairSpec
CONSTANTS
  Messages <- AllTypes
  MaxMsgs = 3
  am_walsender = TRUE

  
PROPERTY ImplementsQueryCycle
