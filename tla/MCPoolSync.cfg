SPECIFICATION Spec
CONSTANTS
  Tweets <- MCTweets
  Payloads <- MCPayloads
  Prepare <- PrepareObservations
  Covers <- SameSample
  SampleStates <- MCSampleStates
  InitialSamples <- NoSamples
  Oversized <- MCOversized
  Clock = {0, 2}
  MaxQueue = 3
  MaxBatch = 2
  MaxStages = 2
  MaxSeals = 2
  MaxFaults = 2
  SampleInterval = 2
  MaxSamples = 2
INVARIANTS
  TypeOK
  SealTimesFollowSealOrder
  NothingLost
  SealedBytesAreStable
PROPERTIES
  ImplementsHandoff
  LeavesOnlyAfterLanding
CHECK_DEADLOCK FALSE
