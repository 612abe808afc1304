SPECIFICATION Spec
CHECK_DEADLOCK FALSE
CONSTANTS
  OneOperator = TRUE
  MaxTwins = 1
  MaxJobs = 3
  MaxUpdates = 2
  MaxDoctors = 1
  MaxFailures = 1
  MaxWindows = 1
INVARIANTS
  HandoffIsCurrent
  OneWriter
PROPERTIES
  ActivityIsKept
CONSTRAINT Bound
