SPECIFICATION FairSpec
CONSTANTS
  p1 = p1
  p2 = p2
  p3 = p3
  NoByte = NoByte
  Procs <- TwoProcs
  Bytes <- OneByte
  Counts <- MCCounts
  PIPESIZE = 2
  UINT = 4
PROPERTIES NoReaderStranded
CHECK_DEADLOCK FALSE
