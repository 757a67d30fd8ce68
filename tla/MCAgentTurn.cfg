\* A turn with one who asks for its result, tasks/cancel, a stream and one crash or
\* failed statement.
SPECIFICATION Spec
CONSTANTS
  Pollers = {1}
  MaxTroubles = 1
INVARIANTS AnswersAgree
PROPERTIES TurnSettles NoneLeftBehind StreamCatchesUp
