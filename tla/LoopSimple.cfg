SPECIFICATION FairSpec
CONSTANTS
  Messages <- SimpleMessages
  MaxMsgs = 3
  am_walsender = FALSE
INVARIANTS
  TypeOK
  BlockAtRest
  RefusedLeavesNoEffect
  SimpleQueryAtomic
  AnsweredOnce
  AnswerTellsEffect
  CancelHitsItsMessage
PROPERTY EveryCycleCloses
