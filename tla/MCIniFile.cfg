CONSTANTS
  Threads = {t1}
  Files <- MCFiles
  MaxChanges = 3
SPECIFICATION Spec
INVARIANTS
  TypeOK
  VerdictIsDue
  VerdictWasTrue
  LeakNeedsChange
  RefusalWasDue
