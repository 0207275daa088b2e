\* Rows that are off the grid at one time index.
SPECIFICATION Spec
CONSTANTS
  b1 = b1
  b2 = b2
  Baselines = {b1, b2}
  BufferTimesteps = 2
  IntRange = 64
  MaxTime = 4
  MaxPasses = 1
  MaxAterms = 0
  CarefulAterms = TRUE
  TimeGaps = FALSE
  OutOfRange = {2}
\* The client may stop at any time.
CHECK_DEADLOCK FALSE
INVARIANT OffGridIsZero
