\* Two passes over two baselines and times that fill two batches, with two a-terms.
SPECIFICATION Spec
CONSTANTS
  b1 = b1
  b2 = b2
  Baselines = {b1, b2}
  BufferTimesteps = 2
  IntRange = 64
  MaxTime = 3
  MaxPasses = 2
  MaxAterms = 2
  CarefulAterms = TRUE
  TimeGaps = FALSE
  OutOfRange = {2}
\* The client may stop at any time.
CHECK_DEADLOCK FALSE
SYMMETRY BaselineSymmetry
INVARIANTS
  TypeOK
  PredictedWithItsUvw
  PredictedWithItsAterm
  NoRowLost
PROPERTY AlwaysFits
