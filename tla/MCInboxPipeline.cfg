SPECIFICATION FairSpec
CONSTANTS
  a = a
  b = b
  m1 = m1
  m2 = m2
  m3 = m3
  d1 = d1
  d1again = d1again
  d2 = d2
  d3 = d3
  NoLead = NoLead
  Lead = {a, b}
  Msg = {m1, m2, m3}
  LeadOf <- MCLeadOf
  WithoutId = {m3}
  Delivery = {d1, d1again, d2, d3}
  MsgOf <- MCMsgOf
  MaxSize = 2
  MaxStops = 1
INVARIANTS
  TypeOK
  AtMostOnce
CHECK_DEADLOCK FALSE
PROPERTIES
  LossOnlyInWindow
  ImplementsChannel
  ListedInboxIsDrained
