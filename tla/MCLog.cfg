SPECIFICATION FairSpec
CONSTANTS
  Procs = {p1, p2}
  Blocks = {b1, b2, b3}
  Vals = {v1, v2}
  NoBuf = NoBuf
  LOGSIZE = 3
  LogSize = 3
INVARIANTS LogInv
PROPERTIES AtomicTransactions SleeperWoken RecoveryEnds
