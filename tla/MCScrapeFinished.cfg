SPECIFICATION HistorySpec
CONSTANTS
  Runs = {r1}
  Lists = {A}
  Tabs = {t1, t2}
  Tweets = {"x", "y"}
  Responses <- OnePost
  Ports = {p}
  MaxActive = 4
  Lease = 1
  NoList = NoList
  NoRun = NoRun
  MaxTime = 1
  MaxCursor = 2
INVARIANTS
  FinishedIsFinal
