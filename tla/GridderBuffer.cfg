\* One baseline, deep: two passes over six time indices with gaps, buffers of
\* three slots (which do not divide the range of an int), three batches, so that
\* a buffer is filled again after it was flushed, and two a-terms.
SPECIFICATION Spec
CONSTANTS
  b1 = b1
  b2 = b2
  Baselines = {b1}
  BufferTimesteps = 3
  IntRange = 16
  MaxTime = 5
  MaxPasses = 2
  MaxAterms = 2
  MaxFlushes = 3
  CarefulAterms = TRUE
\* The client may stop at any time.
CHECK_DEADLOCK FALSE
INVARIANTS
  TypeOK
  GriddedWithItsUvw
  GriddedWithItsAterm
  NoVisibilityLost
PROPERTIES
  ImplementsGridding
