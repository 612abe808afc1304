CONSTANTS
  Segments = {1, 2}
  FirstSegments <- SecondOnly
  MaxUploads = 3
  MaxStops = 1
  ExclusiveSwap = TRUE
SPECIFICATION Spec
INVARIANTS
  PointerIsReadable
PROPERTIES
  NothingPublishedIsLost
  PinnedBootstrapFinishes
CHECK_DEADLOCK FALSE
CONSTRAINT Bound
