CONSTANTS
  Threads = {t1, t2, t3}
  NoThread = NoThread
  MaxDepth = 2
  Storage = {"zeroed", "malloc"}
SPECIFICATION FairSpec
INVARIANT
  FlagTellsBase
PROPERTY
  LockGranted
CHECK_DEADLOCK FALSE
