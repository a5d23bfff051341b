SPECIFICATION Spec
CONSTANTS
  NPROC = 3
  NCPU = 1
  MaxPid = 4
  SleepTicks = 1
PROPERTIES BornNotKilled
