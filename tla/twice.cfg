SPECIFICATION Spec
CONSTANTS
  Scalar <- MCScalar
  Str <- MCStr
  Integral <- MCIntegral
  Other = "id99"
  NullItem = "nullitem"
  Caption <- MCCaption
  NoCaption = ""
  Attr <- MCAttr
  ArrayAttr <- MCArrayAttr
  EnumAttr <- MCEnumAttr
  Sibling <- MCSibling
  Resolved <- MCResolved
  ObjectAttr = {"dev"}
  TypeIdOf <- MCTypeIdOf
  Observables = "observables"
  Order <- MCOrder
  Obj = "object"
  Text <- MCText
  SeedEvents <- TwiceEvents
  Configs <- TwiceConfigs
  MaxCalls = 2
INVARIANTS
  Idempotent
  ObservablesRoundTrip
CHECK_DEADLOCK FALSE
