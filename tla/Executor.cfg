CONSTANTS
  InputShapes = {}
  Ops = {"reduce", "bias_act"}
  MaxInputs = 2
  MaxNodes = 5
  MaxSize = 8
  MaxRefused = 0
  Alignment = 1
  FlopTime = 1
  TrafficTime = 1
  SchedulePolicies = {"kLevelParallel", "kChainGreedy"}
  MemoryPolicies = {"kReuseHappensBefore"}
  StreamCounts = {1, 2}
  Graphs <- BothGraphs
  Options <- TestOptions
  MaxRuns = 2
  MaxFeeds = 2
  Repeats = 2
SPECIFICATION GateSpec
INVARIANTS
  NoConflictingAccess
  ReadsAreFresh
  OutputsReady
  GateRaisesNoFalseAlarm
  ArenaIsFreedInOrder
  TimingsAreOfOneRun
