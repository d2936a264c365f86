CONSTANTS
  Readers = {t1, t2}
  Length = 2
SPECIFICATION Spec
INVARIANT
  ReadersFindAll
