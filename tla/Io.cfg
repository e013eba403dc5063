SPECIFICATION Spec
CONSTANTS
  LockProcs = {x1, x2, x3}
  Blocks = {x1, x2, x3}
  CPUS = {y1, y2}
  Writers = {y1, y2}
  BufProcs = {y1, y2}
  Readers = {z1, z2}
  NoProc = NoProc
  NoCpu = NoCpu
  NoBlock = NoBlock
  Idle = Idle
  PIPESIZE = 2
  UINT = 4
  Byte = {0, 1}
  Counts = {1, 3}
  MaxKills = 1
  NBUF = 2
  Data = {0, 1}
  Zero = 0
  MaxPinned = 1
  INPUT_BUF = 3
  Letters = {"a"}
SYMMETRY Symmetry
INVARIANTS  InterruptsRestored  StorageKept
PROPERTIES ImplementsMutex ImplementsFifo ImplementsBlockDevice ImplementsLineDevice
