SPECIFICATION FairSpec
CONSTANTS
  a = a
  b = b
  c = c
  p1 = p1
  p2 = p2
  unknown = unknown
  values = values
  length = length
  NoType = noType
  Type <- MCType
  Primitive = {p1, p2}
  Constraint = {values, length}
  Values = values
  Caller = {c1, c2}
  Dictionaries <- MCDictionaries
INVARIANTS
  TypeOK
  LoadingDecides
  WalksAgree
PROPERTIES
  ImplementsTypeTable
  GetsReturn
CHECK_DEADLOCK FALSE
