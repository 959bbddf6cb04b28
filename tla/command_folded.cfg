SPECIFICATION Spec
CONSTANTS
  Name <- MCName
  Fold <- MCFold
  ReportName <- MCReportName
  Json <- MCJson
  StdinName = "event.json"
  Stdio = stdio
  None = none
  Selections <- FoldedSelections
  Disks <- Folded
INVARIANTS
  InputsKept
CHECK_DEADLOCK FALSE
