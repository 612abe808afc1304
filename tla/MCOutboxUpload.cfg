SPECIFICATION FairSpec
CONSTANTS
  Tweets <- MCTweets
  Files <- MCFiles
  Invalid <- MCInvalid
  Contributors = {"ann", "bob"}
  Clock = {1, 2}
  FutureSlack = 1
  Runs = {r1, r2}
  MaxStops = 2
INVARIANTS
  NothingLostInUpload
  RetriesStoreOneSegment
PROPERTIES
  NoFileStuck
