SPECIFICATION Spec
CONSTANTS
  Name <- MCName
  Fold <- MCFold
  ReportName <- MCReportName
  Json <- MCJson
  StdinName = "event.json"
  Stdio = stdio
  None = none
  Selections <- MCSelections
  Disks <- MCDisks
INVARIANTS
  TypeOK
  PriorKept
  OutputsKept
  SummaryTrue
  ExitTruthful
CHECK_DEADLOCK FALSE
