SPECIFICATION FairSpec
CONSTANTS
  NPROC = 3
  NCPU = 1
  MaxPid = 4
  SleepTicks = 1
PROPERTIES EveryoneRuns KilledExits CallsReturn
