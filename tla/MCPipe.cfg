SPECIFICATION FairSpec
CONSTANTS
  p1 = p1
  p2 = p2
  p3 = p3
  NoByte = NoByte
  Procs <- TwoProcs
  Bytes <- MCBytes
  Counts <- MCCounts
  PIPESIZE = 2
  UINT = 4
INVARIANTS NoLostWakeup ZeroMeansEof NoUseAfterFree
PROPERTIES IsFifo CloseUnblocks KilledLeaves
CHECK_DEADLOCK FALSE
