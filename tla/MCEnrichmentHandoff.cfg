SPECIFICATION Spec
CONSTANTS
  Units = {"u", "v"}
  FirstUnits <- FirstRun
  FirstNames = 0
  MaxAttempts = 2
  MaxRuns = 2
  MaxDeploys = 1
  MaxKills = 2
  MaxStops = 2
  HandoffFaults = {"kill"}
CHECK_DEADLOCK FALSE
ACTION_CONSTRAINT Bound
INVARIANT ActiveRunRestores
