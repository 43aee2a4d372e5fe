CONSTANTS
  m1 = m1
  m2 = m2
  h1 = h1
  h2 = h2
  k1 = k1
  v1 = v1
  v2 = v2
  Minion <- MCMinion
  Request <- MCRequest
  Pillars <- MCPillars
  Host <- MCHost
  MetaKey <- MCMetaKey
  Zone = zone
  Value <- MCValue
  Unset = Unset
  NoAggregate = NoAggregate
SPECIFICATION FairSpec
INVARIANTS
  ReportIsTrue
PROPERTIES
  FailureHasCause
  Converging
  Converges
