SPECIFICATION FairSpec
CONSTANTS
  b1 = b1
  b2 = b2
  b3 = b3
  b4 = b4
  o1 = o1
  o2 = o2
  o3 = o3
  Absent = Absent
  Ops <- MC_Ops
  Blocks <- MC_Blocks
  LOGSIZE = 6
  LogData = 5
  MAXOPBLOCKS = 3
  MaxWrites = 2
  MaxData = 2
  MaxCrashes = 2
INVARIANTS DurableWhenQuiet
PROPERTIES ImplementsAtomicDisk 
