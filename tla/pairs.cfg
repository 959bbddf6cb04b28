SPECIFICATION Spec
CONSTANTS
  Scalar <- MCScalar
  Str <- MCStr
  Integral <- MCIntegral
  Other = "id99"
  NullItem = "nullitem"
  Caption <- MCCaption
  NoCaption = ""
  Attr <- MCAttr
  ArrayAttr <- MCArrayAttr
  EnumAttr <- MCEnumAttr
  Sibling <- MCSibling
  Resolved <- MCResolved
  ObjectAttr = {"dev"}
  TypeIdOf <- MCTypeIdOf
  Observables = "observables"
  Order <- MCOrder
  Obj = "object"
  Text <- MCText
  SeedEvents <- PairEvents
  Configs <- PairConfigs
  MaxCalls = 2
INVARIANTS
  TypeOK
  SourceDataKept
  CountersMatch
  NothingSilent
  PairFindingsCurrent
  RoundTrip
CHECK_DEADLOCK FALSE
