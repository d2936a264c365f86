CONSTANTS
  Threads = {t1, t2}
  NoThread = NoThread
  MaxDepth = 1
  Storage = {"zeroed"}
SPECIFICATION FairSpec
PROPERTY
  LockReturns
CHECK_DEADLOCK FALSE
