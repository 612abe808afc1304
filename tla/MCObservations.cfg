SPECIFICATION StreamSpec
CONSTANTS
  Tweets <- MCTweets
  Payloads <- MCPayloads
  SampleInterval = 2
  MaxSamples = 2
  MaxSeen = 5
INVARIANTS
  EveryPostHasItsSample
  SampleIsNewestDelivery
  RepeatsAreSampled
CHECK_DEADLOCK FALSE
