SPECIFICATION Spec
CONSTANTS
  WordBits = 6
  Stream = {s1, s2}
  AllocStream = {s1}
  MaxInFlight = 1
  ReusePolicy = {"kSameStreamOnly", "kCoarseStreamPoll", "kPerFreeEvent"}
  EventFaults = FALSE
  Granularity = 2
  SmallLargeSplit = 4
  LargeAlloc = 8
  MinSlabBytes = 6
  MaxTotalBytes = 12
  Splitting = {TRUE, FALSE}
  Sizes = {0, 3, 7, 9}
  MaxSlabs = 2
  MaxBypass = 1
  DriverFaults = {"kDriverError"}
INVARIANTS PoolIsValid LargestFreeIsExact
PROPERTIES RefusalIsFinal ImplementsPool
