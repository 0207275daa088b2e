\* set_image on a proxy that still caches tiles of the previous image.
SPECIFICATION Spec
CONSTANTS
  c1 = c1
  c2 = c2
  c3 = c3
  c4 = c4
  Coordinates = {c1, c2}
  BufferSize = 2
  NrRetire = 1
  MaxSubgrids = 2
  NrBaselines = 2
  MaxGrids = 3
  FreshCacheForGrid = FALSE
  FirstGroupInRange = TRUE
\* The client may stop at any time.
CHECK_DEADLOCK FALSE
INVARIANT DegridsCurrentGrid
