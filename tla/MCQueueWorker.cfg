SPECIFICATION FairSpec
CONSTANTS
  a = a
  b = b
  w1 = w1
  w2 = w2
  Lead = {a, b}
  Worker = {w1}
  MaxStale = 4
  LockTTL = 2
  MinDelay = 2
  MaxDelay = 4
  MaxTurn = 3
  MaxDefers = 2
  MaxPayloads = 3
  MaxStops = 1
INVARIANTS
  DefersBoundedByStops
PROPERTIES
  AnswerAgeBound
  PacedTurns
  EveryPayloadResolved
