SPECIFICATION FairSpec
CONSTANTS
  Instance = {a, b}
  Leftover = Leftover
  NoFile = NoFile
  Nobody = Nobody
  ExclusiveHandles = TRUE
  MaxRestarts = 2
  Window = 2
INVARIANTS
  OwnerIsOnRecord
  RunningEngineIsOwned
  RestartsAreLimited
  HealthIsHonest
PROPERTIES
  StoppedForGood
  GivesUpOnlyWhenSpent
  CrashIsNoticed
  ShutdownCompletes
  StaleLockIsReclaimed
