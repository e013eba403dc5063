SPECIFICATION CvSpec
CONSTANTS
  QUEUE_SIZE = 3
  INT_MAX = 9
  Garbage = {0, 7}
  TOTAL = 7
  Sharers = {2, 3}
  PoolSizes = {2}
  NPROC = 4
  MAXARGS = 3
  ShellProcs = 6
  NOFILE = 5
  PIPESIZE = 1
  BUFSIZE = 5
  TEAM = 2
  Runs = {0, 1}
  ThreadNums = {8}
INVARIANT ScoresPossible
