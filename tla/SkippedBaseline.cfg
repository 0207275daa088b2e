\* A baseline of which only later channel groups are in range.
SPECIFICATION Spec
CONSTANTS
  c1 = c1
  c2 = c2
  c3 = c3
  c4 = c4
  Coordinates = {c1, c2}
  BufferSize = 2
  NrRetire = 1
  MaxSubgrids = 2
  NrBaselines = 2
  MaxGrids = 3
  FreshCacheForGrid = TRUE
  FirstGroupInRange = FALSE
\* The client may stop at any time.
CHECK_DEADLOCK FALSE
PROPERTY OnlyEmptyBaselinesSkipped
