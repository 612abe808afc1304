SPECIFICATION Spec
CHECK_DEADLOCK FALSE
CONSTANTS
  Content <- TwoResponses
  BodyLimit = 1
  MaxPost = 2
  MaxBuffer = 2
  MaxDeaths = 1
  MaxFaults = 2
INVARIANTS
  NothingLostBeforeDaemon
PROPERTIES
  StagedIsArchived
