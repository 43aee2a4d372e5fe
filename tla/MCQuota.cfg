CONSTANTS
  m1 = m1
  m2 = m2
  cores = cores
  ram = ram
  low = low
  high = high
  Minion <- MCMinion
  Request <- MCRequest
  Pillars <- MCPillars
  Limit <- MCLimit
  Value <- MCValue
  Unset = Unset
SPECIFICATION FairSpec
INVARIANTS
  ReportIsTrue
PROPERTIES
  Converging
  Converges
