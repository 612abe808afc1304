SPECIFICATION FairDeliverySpec
CONSTANTS
  Tweets <- MCTweets
  Payloads <- OnePayload
  Prepare <- PrepareObservations
  Covers <- SameSample
  SampleStates <- MCSampleStates
  InitialSamples <- NoSamples
  Oversized = {}
  Clock = {1}
  MaxQueue = 3
  MaxBatch = 2
  MaxStages = 1
  MaxSeals = 4
  MaxFaults = 1
  SampleInterval = 2
  MaxSamples = 2
  Invalid <- MCInvalid
  Contributors = {"ann"}
  FutureSlack = 1
  Runs = {r1}
  MaxStops = 1
INVARIANTS
  NoPostLost
  EachBatchOnce
PROPERTIES
  EverythingLeaves
CHECK_DEADLOCK FALSE
