CONSTANTS
  m1 = m1
  m2 = m2
  old = old
  new = new
  Minion <- MCMinion
  Request <- MCRequest
  Pillars <- MCPillars
  Key <- MCKey
  NoKey = NoKey
  Unreadable = Unreadable
  NoKeypair = NoKeypair
SPECIFICATION FairSpec
INVARIANTS
  ReportIsTrue
PROPERTIES
  FailureHasCause
  RightKeyStays
  Converges
