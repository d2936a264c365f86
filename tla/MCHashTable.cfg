CONSTANTS
  k1 = k1
  k2 = k2
  k3 = k3
  v1 = v1
  v2 = v2
  Null = Null
  Keys <- MCKeys
  Values <- MCValues
  Hash <- MCHash
  InitialCapacity = 2
  MaxCapacity = 8
SPECIFICATION FairIterSpec
INVARIANTS
  TypeOK
  KeysFindable
  LengthExact
  HalfLoad
  NoStringLeak
  ReportedOnce
  NoneMissed
PROPERTIES
  ImplementsMap
  CallsReturn
