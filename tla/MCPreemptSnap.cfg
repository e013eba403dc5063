SPECIFICATION Spec
CONSTANTS
  NPROC = 4
PROPERTIES EveryRunnableRuns
