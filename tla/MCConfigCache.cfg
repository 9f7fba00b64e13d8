SPECIFICATION Spec
CONSTANTS
  Projects = {padrao, loja}
  Sections = {prices, company_info}
  Readers = {r1, r2}
  Editors = {e1, e2}
  ConfigTtl = 2
  Timeout = 1
  MaxEntries = 1
  MaxTime = 2
  MaxEdits = 2
  MaxFaults = 1
SYMMETRY MCSymmetry
INVARIANTS FreshWithinTtl AckedIsRead EditsLostByOverlapOnly
CHECK_DEADLOCK FALSE
