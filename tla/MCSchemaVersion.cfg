CONSTANTS
  m1 = m1
  m2 = m2
  Minion <- MCMinion
  Request <- MCRequest
  Pillars <- MCPillars
  MaxVersion = 2
  Garbage = Garbage
SPECIFICATION FairSpec
INVARIANTS
  ReportIsTrue
PROPERTIES
  MigratesInOrder
  MigrationCompletes
