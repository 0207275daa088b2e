\* Two baselines of four timesteps and two channels, two plans on one cache of
\* three tiles of which two are retired at a time.
SPECIFICATION Spec
CONSTANTS
  Coordinates <- Tiles
  BufferSize = 3
  NrRetire = 2
  MaxSubgrids = 32
  Rows <- SampleRows
  Infinite = Infinite
  NrBaselines = 2
  NrTimesteps = 4
  Frequencies <- TwoChannels
  KernelSize = 3
  SubgridSize = 8
  GridSize = 32
  WtileSize = 8
  WStep = 4
  NrWLayers = 1
  MaxTimesteps = 2
  MaxChannels = 0
  AtermOffsets <- Offsets
  MaxPlans = 2
\* A plan may fail, and the number of plans is bounded.
CHECK_DEADLOCK FALSE
INVARIANTS
  PlannedOnce
  KernelInSubgrid
  SubgridInTile
  OwnSubgrids
  RecentTilesStay
  EventsStrictlyOrdered
PROPERTY SplitEnds
