SPECIFICATION Spec
CONSTANTS
  NPROC = 3
  NCPU = 2
  MaxPid = 4
  SleepTicks = 1
INVARIANTS RunningOnOneCpu LockHandOver StackOfProcess NoZombieWhileWaiting NoMissedTick
PROPERTIES ReapedByParent
