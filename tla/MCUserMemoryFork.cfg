\* Fork after mmap.
SPECIFICATION SpecFork
CONSTANTS
  Procs = {p1, p2}
  initproc = p1
  Null = Null
  NPDE = 2
  NPTE = 2
  PGSIZE = 2
  FrameCounts = {20}
  KvmFrames = 1
  InitPages = 3
INVARIANTS
  ForkFindsPages
