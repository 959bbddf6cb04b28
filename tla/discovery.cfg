SPECIFICATION Spec
CONSTANTS
  o1 = o1
  o2 = o2
  o3 = o3
  good = good
  bad = bad
  None = none
  Object <- MCObjects
  TypeId = {good, bad}
  Selected = {good}
  Schemas <- MCSchemas
  ClassAttributes <- MCClassAttributes
  Declarations <- MCDeclarations
INVARIANTS
  TypeOK
  CacheExact
  SearchAgrees
  OmissionsTold
PROPERTIES
  DiscoveryEnds
CHECK_DEADLOCK FALSE
