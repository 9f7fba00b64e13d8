SPECIFICATION Spec
CONSTANTS
  a = a
  b = b
  w1 = w1
  w2 = w2
  Lead = {a, b}
  Worker = {w1, w2}
  MaxStale = 4
  LockTTL = 2
  MinDelay = 2
  MaxDelay = 4
  MaxTurn = 1
  MaxDefers = 1
  MaxPayloads = 4
  MaxStops = 0
INVARIANTS
  OneTurnPerLead
