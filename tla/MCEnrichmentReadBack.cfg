SPECIFICATION ReadBackSpec
CONSTANTS
  Units = {"u", "v"}
  FirstUnits <- FirstRun
  FirstNames = 0
  MaxAttempts = 2
  MaxRuns = 2
  MaxDeploys = 0
  MaxKills = 2
  MaxStops = 2
  HandoffFaults = {}
CHECK_DEADLOCK FALSE
ACTION_CONSTRAINT Bound
INVARIANT ActiveRunRestores
