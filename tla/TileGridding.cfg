\* Three slots of which two are retired at a time, so that a free slot is
\* reused after a retirement; four coordinates, five subgrids over any number
\* of plans of two baselines.
SPECIFICATION Spec
CONSTANTS
  c1 = c1
  c2 = c2
  c3 = c3
  c4 = c4
  Coordinates = {c1, c2, c3, c4}
  BufferSize = 3
  NrRetire = 2
  MaxSubgrids = 5
  NrBaselines = 2
  MaxGrids = 2
  FreshCacheForGrid = TRUE
  FirstGroupInRange = TRUE
\* The client may stop at any time.
CHECK_DEADLOCK FALSE
SYMMETRY CoordinateSymmetry
INVARIANTS
  TypeOK
  SlotsPartitioned
  TilesUnmixed
  NoSubgridLost
  DegridsCurrentGrid
  EventsAllApplied
  BufferMatchesCache
  CallsProgress
PROPERTIES
  ImplementsAccumulation
  OnlyEmptyBaselinesSkipped
