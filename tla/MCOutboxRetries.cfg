SPECIFICATION Spec
CONSTANTS
  Tweets <- MCTweets
  Files <- RetryFiles
  Invalid <- MCInvalid
  Contributors = {"ann"}
  Clock = {1, 2}
  FutureSlack = 1
  Runs = {r1, r2}
  MaxStops = 2
INVARIANTS
  OneSegmentPerFile
