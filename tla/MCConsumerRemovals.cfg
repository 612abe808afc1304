SPECIFICATION Spec
CONSTANTS
  Posts = {1, 2}
  Units = {1, 2}
  Writes <- SomeWrites
  FirstLog <- TwoUnits
  MaxLog = 7
  MaxWithdrawals = 2
  Overlap = FALSE
PROPERTIES
  RemovalsAreAcknowledged
CHECK_DEADLOCK FALSE
