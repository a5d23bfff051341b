SPECIFICATION Spec
CONSTANTS
  p1 = p1
  p2 = p2
  Procs <- TwoProcs
  Calls <- MCCalls
  NINODES = 4
  NBLOCKS = 8
  NINODE = 3
  NDIRECT = 1
  NINDIRECT = 1
  BSIZE = 4
  LOGSIZE = 6
INVARIANTS WritesInTransaction
