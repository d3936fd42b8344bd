SPECIFICATION Spec
CONSTANTS
  WordBits = 8
  MinLog2 = 1
  MaxArenaLog2 = 3
  Stream = {s1, s2}
  GrowthFactor = 2
  LargeAlloc = 4
  MaxSlabs = 2
  AllocStream = {s1}
  MaxInFlight = 2
  ReusePolicy = {"kPerFreeEvent"}
  EventFaults = TRUE
  InitialSlabBytes = 4
  MaxTotalBytes = 4
  Sizes = {1, 4}
  MaxBypass = 0
  DriverFaults = {}
INVARIANT NoUnorderedSharing
