SPECIFICATION MCSpec
CONSTANTS Procs = {p1,p2,p3}
InitProc = p1
NFRAMES=20
PGSIZE=3
PageSize=3
NPTE=2
NUPDE=3
NKPDE=1
MAXARG=2
Top=12
MinUnits=4
HeaderSize=2
Sizes={0,1,7}
Worlds <- MCWorlds
CHECK_DEADLOCK FALSE
INVARIANTS FramesOwned PanicsOnlyLazy SizeExact MemoryIsolated  HeapExact
