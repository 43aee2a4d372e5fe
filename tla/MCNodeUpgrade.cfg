\* The cloud stops when every node is upgraded.
CHECK_DEADLOCK FALSE
CONSTANTS
  n1 = n1  n2 = n2  n3 = n3
  Node <- MCNode
  Roles <- MCRoles
  Retries = 2
  MaxDisturbances <- MCMaxDisturbances
SPECIFICATION FairSpec
INVARIANTS
  TypeOK
  UpgradeIsComplete
PROPERTIES
  StopsOutOfScheduling
  NoAutostart
  SyncIsOffline
  StartsMigrated
  UpgradeEnds
