SPECIFICATION FairSpec
CONSTANTS
  NumBlocks = 4
  NumLastPages = 3
  QueueLength = 2
  MaxFaults = 1
  MaxJobs = 2
  MaxResets = 1
INVARIANTS TypeOK PagesConserved NeverRefused
PROPERTY CloseReturns
CHECK_DEADLOCK FALSE
