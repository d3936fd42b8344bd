SPECIFICATION Spec
CONSTANTS
  WordBits = 8
  MinLog2 = 1
  MaxArenaLog2 = 3
  Stream = {s1, s2}
  GrowthFactor = 2
  LargeAlloc = 4
  MaxSlabs = 2
  AllocStream = {s1}
  MaxInFlight = 1
  ReusePolicy = {"kSameStreamOnly", "kCoarseStreamPoll"}
  EventFaults = FALSE
  InitialSlabBytes = 2
  MaxTotalBytes = 6
  Sizes = {0, 1, 4, 5}
  MaxBypass = 1
  DriverFaults = {"kOutOfMemory", "kDriverError"}
INVARIANT FootprintIsExact
PROPERTIES NoFalseOom
