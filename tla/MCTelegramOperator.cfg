SPECIFICATION Spec
CONSTANTS
  MaxUpdates = 3
  Limit = 2
  MaxRounds = 2
  MaxStarts = 3
  MaxTroubles = 1
INVARIANTS ConfirmedIsHandled  AnswersAreTrue
PROPERTIES InOrder EveryUpdateIsHandled
CHECK_DEADLOCK FALSE
