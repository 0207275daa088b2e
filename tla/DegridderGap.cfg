\* The same loop over data that have no rows for some time indices.
SPECIFICATION Spec
CONSTANTS
  b1 = b1
  b2 = b2
  Baselines = {b1, b2}
  BufferTimesteps = 2
  IntRange = 64
  MaxTime = 4
  MaxPasses = 1
  MaxAterms = 0
  CarefulAterms = TRUE
  TimeGaps = TRUE
  OutOfRange = {}
\* The client may stop at any time.
CHECK_DEADLOCK FALSE
PROPERTY AlwaysFits
