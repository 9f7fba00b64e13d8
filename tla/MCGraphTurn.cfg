SPECIFICATION TurnSpec
CONSTANTS
  MaxRetries = 2
  MaxRuns = 4
  MaxTurns = 3
CHECK_DEADLOCK FALSE
INVARIANTS
  TypeOK
  RejectionsBounded
PROPERTIES
  OwnReviewedReply
  FeedbackDoesNotLeak
