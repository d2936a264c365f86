CONSTANTS
  Loaders = {l1}
  Readers = {r1}
  NoThread = NoThread
  Global = Global
  a = a
  b = b
  k = k
  v = v
  w = w
  Null = Null
  Wild = Wild
  Names <- MCNames
  Keys = {k}
  Values = {v, w}
  Addresses = {p1, p2}
  Files <- AllFiles
SPECIFICATION FairSpec
INVARIANTS
  TypeOK
  SectionsOwnTables
  LeakedIsLost
  ContextIsPrefix
  NothingInvented
PROPERTIES
  ImplementsStore
  LoadReturns
