SPECIFICATION FairSpec
CONSTANTS
  MaxAttempts = 2
  MaxWrites = 2
  MaxRedeliveries = 1
  MaxClears = 1
  MaxExpiries = 1
CHECK_DEADLOCK FALSE
INVARIANTS
  TypeOK
  ChainsBounded
PROPERTIES
  NoScheduleWhenExhausted
  FollowUpsEnd
