SPECIFICATION Spec
CONSTANTS
  Scalar <- MCScalar
  Str <- MCStr
  Integral <- MCIntegral
  Other = "id99"
  NullItem = "nullitem"
  Caption <- MCCaption
  NoCaption = ""
  Attr <- MCAttr
  ArrayAttr <- MCArrayAttr
  EnumAttr <- MCEnumAttr
  Sibling <- MCSibling
  Resolved <- MCResolved
  ObjectAttr = {"dev"}
  TypeIdOf <- MCTypeIdOf
  Observables = "observables"
  Order <- MCOrder
  Obj = "object"
  Text <- MCText
  SeedEvents <- ObsEvents
  Configs <- ObsConfigs
  MaxCalls = 1
INVARIANTS
  SafeRemovalExact
  TrustedSuffixSound
  GeneratedAppended
PROPERTIES
  EnumWorkFirst
  ProcessingEnds
CHECK_DEADLOCK FALSE
