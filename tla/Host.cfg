SPECIFICATION HostSpec
CONSTANTS
  WordBits = 8
  MaxLog2 = 5
  UniformSizes <- ThreeSizes
  kMaxRank = 2
  Extents = {0, 2}
  DTypeSizes = {1, 2}
  TensorNames = {x, y}
  BlockSizes = {4}
  TargetBytes = 4
  PhaseOps <- TwoEach
  ModelSizes <- LayerSizes
  ModelSteps = 1
  MaxOom = 2
  SlabBytes = 4
  MaxBuckets = 40
  WindowCaps = {1, 2}
  Subjects <- AllSubjects
  Counts <- MCCounts
  MaxSamples = 4
  MaxTicks = 9
  MaxSpans = 3
  MaxTime = 3
  TraceStreams = {0, 1, 2}
INVARIANTS
  SizesRoundUp
  NodesTileTheSlab
  ViewsAreExact
  TraceIsReplayable
  ReplayIsBalanced
  LatenciesAreExact
  OverlapsAreExact
CHECK_DEADLOCK FALSE
