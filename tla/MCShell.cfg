SPECIFICATION FairSpec
CONSTANTS
  MAXARGS = 3
  NPROC = 6
  NOFILE = 5
  NFILE = 5
  MaxLen = 4
  Sessions <- MCSessions
INVARIANTS ParseCorrect Wired FilesCounted ListOrder
 
CHECK_DEADLOCK FALSE
