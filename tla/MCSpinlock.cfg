SPECIFICATION Spec
CONSTANTS
  NCPU = 2
  NLOCK = 2
  MaxCli = 1
INVARIANTS  MutualExclusion NoPanic NoInterruptWhileLocked
