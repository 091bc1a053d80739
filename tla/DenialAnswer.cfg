SPECIFICATION Spec
CONSTANTS
  Messages <- SimpleMessages
  MaxMsgs = 3
  am_walsender = FALSE
INVARIANT NoticesAreNotTheAnswer
