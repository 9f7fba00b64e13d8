SPECIFICATION Spec
CONSTANTS
  Window = 4
  Limit = 3
  Threshold = 2
  Keep = 1
  MaxRetries = 1
  MaxTurns = 3
  MaxFaults = 3
INVARIANTS PromptBounded NothingForgotten ChatIsWhatWasSaid
PROPERTIES NoMediumAnsweredTwice
CHECK_DEADLOCK FALSE
