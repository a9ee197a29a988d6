CONSTANTS
  MaxReports = 3
  MaxPcbs = 2
  MaxInbound = 1
  NULL = NULL
SPECIFICATION FairSpec
INVARIANTS TypeOK ReportWellFormed StatusIsRecent NoDanglingContext
PROPERTY ReportConcluded
