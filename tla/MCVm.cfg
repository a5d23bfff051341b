SPECIFICATION Spec
CONSTANTS
  init = init
  p1 = p1
  initproc = init
  Procs <- MCProcs
  NPAGES = 20
  NPTENTRIES = 2
  NUPT = 3
  NKPT = 1
  PGSIZE = 4
  MAXARG = 2
  Grow <- MCGrow
  Programs <- MCPrograms
  Argvs <- MCArgvs
INVARIANTS PagesAccounted SizeIsMapped  
