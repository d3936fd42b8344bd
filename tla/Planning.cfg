CONSTANTS
  InputShapes <- OneMatrix
  Ops = {"reduce", "bias_act"}
  MaxInputs = 1
  MaxNodes = 5
  MaxSize = 8
  MaxRefused = 1
  Alignment = 2
  FlopTime = 1
  TrafficTime = 1
  SchedulePolicies = {"kSequential", "kLevelParallel", "kChainGreedy"}
  MemoryPolicies = {"kReuseTopoNaive", "kReuseSameStream", "kReuseHappensBefore"}
  StreamCounts = {0, 2}
SPECIFICATION PlanSpec
INVARIANTS
  PlanIsWellFormed
  DependenciesOrdered
  LevelsAreBarriers
  ClocksAreReachability
  ArenaIsRaceFree
  FirstFitIsLowest
  OneStreamReuseIsIntervals
