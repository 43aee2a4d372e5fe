\* Salt stops when what is asked for is in effect.
CHECK_DEADLOCK FALSE
CONSTANTS
  SLS <- MCSLS
  MaxEdits = 1
  MaxDisturbances = 1
SPECIFICATION FairSpec
INVARIANTS
  TypeOK
  SuccessIsLive
  IdsFromPillar
PROPERTIES
  StartsOnMigratedDatabase
  SyncWithConfig
  InEffect
