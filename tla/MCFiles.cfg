SPECIFICATION MCSpec
CONSTANTS
  Procs = {m, c1, c2}
  NoProc = NoProc
  Main = m
  Child1 = c1
  Child2 = c2
  Rounds = 2
  IrefRounds = 6
  NINODES = 11
  NINODE = 5
  MAXDEPTH = 6
  NFILE = 4
  NOFILE = 3
  Long <- MCLong
  Worlds <- MCFilesWorlds
  NDIRECT = 1
  BSIZE = 2
  META = 2
  SIZE = 8
  BPB = 1
  MAXOPBLOCKS = 8
  UINT = 16
INVARIANTS
  ReferencesKept  AllSatisfied CacheCoherent CrashSafe
  BitmapExact ReadExact
