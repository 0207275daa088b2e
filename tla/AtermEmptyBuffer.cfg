\* set_aterm wherever its assertions hold, also while the buffer is empty.
SPECIFICATION Spec
CONSTANTS
  b1 = b1
  b2 = b2
  Baselines = {b1}
  BufferTimesteps = 3
  IntRange = 16
  MaxTime = 4
  MaxPasses = 1
  MaxAterms = 2
  MaxFlushes = 2
  CarefulAterms = FALSE
\* The client may stop at any time.
CHECK_DEADLOCK FALSE
INVARIANT GriddedWithItsAterm
