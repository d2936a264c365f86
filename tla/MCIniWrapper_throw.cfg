CONSTANTS
  Parsers = {p1, p2}
  Contexts = {c1, c2, c3}
  NoContext = NoContext
  a = a
  b = b
  k = k
  v = v
  w = w
  Names = {a, b}
  Keys = {k}
  Values = {v, w}
  Null = Null
  Absent = Absent
  FileContents <- MCFiles
SPECIFICATION Spec
PROPERTY
  StrongGuarantee
