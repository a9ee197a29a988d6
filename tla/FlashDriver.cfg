SPECIFICATION DriverFairSpec
CONSTANTS
  Callers = {agent, flasher}
  Overlapping = FALSE
  NumSmall = 2
  NumMedium = 3
  MediumSize = 2
  Modulus = 524288
  MaxUnits = 5
INVARIANTS DriverTypeOK EraseCheckExact LockedWhileWorking
PROPERTY ImplementsService
CHECK_DEADLOCK FALSE
