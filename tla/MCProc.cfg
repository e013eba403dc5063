SPECIFICATION Spec
CONSTANTS
  NPROC = 3
  c0 = c0
  c1 = c1
  CPUS <- MC_TwoCpus
  BootCpu = c0
  NoCpu = NoCpu
  MaxPid = 3
  MaxTicks = 0
  Naps = {}
INVARIANTS TypeOK RunningOnOneCpu StackInUse PidsUnique SlotsOwned ParentCanReap NoLostWait
