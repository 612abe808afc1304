SPECIFICATION Spec
CONSTANTS
  Posts = {1, 2}
  Units = {1, 2}
  Writes <- SomeWrites
  FirstLog <- TwoUnits
  MaxLog = 7
  MaxWithdrawals = 2
  Overlap = FALSE
INVARIANTS
  VisibleIsHeld
  ObservationsComplete
PROPERTIES
  NothingWithdrawnIsKept
  CatchesUp
CHECK_DEADLOCK FALSE
