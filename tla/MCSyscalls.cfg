\* Two processes, four pages each in two page tables, eight or eleven frames;
\* the first process passes any pointers.
SPECIFICATION SpecCalls
CONSTANTS
  Procs = {p1, p2}
  initproc = p1
  Null = Null
  NPDE = 2
  NPTE = 2
  PGSIZE = 2
  FrameCounts = {8, 11}
  KvmFrames = 1
  InitPages = 3
  IntSize = 2
  Callers = {p1}
INVARIANTS
  PagesBelowSize
  KernelStaysInside
  CountsAgree
PROPERTIES
  FramesConserved
  PagesKept
  ChildIsCopy
  TrapOnlyWithoutMemory
