SPECIFICATION Spec
CONSTANTS
  Texts <- MCTexts
  Lookback = 2
  HumanLookback = 1
  Raws <- MCRaws
  LeadMessages <- MCLeadMessages
  Facts <- MCFacts
  MaxRetries = 1
  MaxPosts = 2
  MaxWritten = 2
  MaxTurns = 3
  MaxFaults = 1
INVARIANTS NoEcho LinkOnlyConfirmed BubblesAreTheReply PhoneShowsTheTurns QuotaCounts ReadOrWaiting
CHECK_DEADLOCK FALSE
