SPECIFICATION Spec
CONSTANTS
  WordBits = 8
  MinLog2 = 1
  MaxArenaLog2 = 4
  ArenaLog2 = 4
INVARIANTS
  SlabIsConsistent
  SlabIsTiled
PROPERTY ImplementsSlab
