SPECIFICATION Spec
CONSTANTS
  Runs = {r1, r2}
  Lists = {A, B}
  Tabs = {t1, t2}
  Tweets = {"x", "y"}
  Responses <- BothPosts
  Ports = {p1}
  MaxActive = 1
  Lease = 1
  NoList = NoList
  NoRun = NoRun
  MaxTime = 1
  MaxCursor = 4
INVARIANTS
  RunLimits
  CoverageIsExact
  StreamIsComplete
PROPERTIES
  FinalRunsStayFinal
  CursorsOnlyGrow
CONSTRAINT Bound
SYMMETRY Symmetry
