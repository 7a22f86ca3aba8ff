CONSTANTS
  WorkerCount = 2
  MaxConn = 1
  UintMax = 9
  MaxCrashes = 1
  MaxSignals = 1
  MaxStrays = 1
  MaxFaults = 2
SPECIFICATION FairSpec
INVARIANTS CountsOrStarves AcceptExclusion
PROPERTIES LockLostOnlyByExitOrWindow ImplementsAcceptLock DeadHolderReleased FreeLockIsTaken ShutdownCompletes
CHECK_DEADLOCK FALSE
