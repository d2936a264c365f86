CONSTANTS
  Threads = {t1, t2}
  NoThread = NoThread
  MaxDepth = 1
  Storage = {"zeroed"}
SPECIFICATION Spec
INVARIANT
  MutualExclusion
