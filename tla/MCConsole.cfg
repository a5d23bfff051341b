SPECIFICATION FairSpec
CONSTANTS
  p1 = p1
  p2 = p2
  Procs <- TwoProcs
  Letters <- OneLetter
  INPUT_BUF = 3
  UINT = 6
  Counts <- MCCounts
PROPERTIES IsLine EofDelivered ReadReturns
