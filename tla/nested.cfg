SPECIFICATION Spec
CONSTANTS
  Code <- MCCode
  DefaultLevel <- MCDefaultLevel
  Mandatory <- MCMandatory
  Unknown = unknown
  RuleLists <- MCRuleLists
  Schema <- MCSchema
  Class = "activity"
  Uids = {3, 10, 11}
  AnyObject = "object"
  MaxInt = 1023
  Index <- MCIndex
  WarnOnMissingRecommended = TRUE
  MaxDepth = 9
  Events <- MCEvents
INVARIANTS
  PolicyExact
  WalkExact
  FindingsExact
CHECK_DEADLOCK FALSE
