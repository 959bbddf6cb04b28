SPECIFICATION Spec
CONSTANTS
  Name <- MCName
  Fold <- MCFold
  ReportName <- MCReportName
  Json <- MCJson
  StdinName = "event.json"
  Stdio = stdio
  None = none
  Selections <- AliasSelections
  Disks <- MCDisks
INVARIANTS
  AliasesFail
CHECK_DEADLOCK FALSE
