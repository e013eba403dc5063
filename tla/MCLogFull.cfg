SPECIFICATION Spec
CONSTANTS
  b1 = b1
  b2 = b2
  b3 = b3
  b4 = b4
  o1 = o1
  o2 = o2
  o3 = o3
  Absent = Absent
  Ops <- MC_ThreeOps
  Blocks <- MC_FourBlocks
  LOGSIZE = 4
  LogData = 3
  MAXOPBLOCKS = 2
  MaxWrites = 2
  MaxData = 1
  MaxCrashes = 0
SYMMETRY MC_Symmetry
INVARIANTS LogSpaceSuffices
