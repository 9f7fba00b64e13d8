SPECIFICATION ClientSpec
CONSTANTS
  m1 = m1
  m2 = m2
  Message = {m1, m2}
  Modes = {TRUE, FALSE}
  Ttl <- MCTtl
  MaxTime = 2
  MaxArrivals = 3
  MaxCounts = 2
  MaxFaults = 2
INVARIANTS LocalHoldsWhatRedisWould RepeatedOnlyByFaults LostOnlyByFaults
SYMMETRY MCSymmetry
