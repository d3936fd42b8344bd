SPECIFICATION Spec
CONSTANTS
  kWarpSize = 4
  kThreads = 8
  SmemTile <- MCSmemTile
  RegTile <- MCRegTile
  MaxThreads = 16
  kRegAllocUnit = 8
  kWarpAllocGranularity = 2
  kMaxRegsPerThread = 16
  kSmemAllocUnit = 8
  kNaiveTile = 2
  VecWidth = 2
  WarpCols = 2
  LaneRows = 4
  LaneCols = 1
  kTargetBlocks = 4
  kMaxSplit = 3
  kMaxGridY = 3
  kMaxBlocks = 2
  Widths = {1, 2, 4}
  Launches <- MCLaunches
INVARIANTS
  NoDataRace
  ResultIsExact
  OccupancyIsMostThatFits
