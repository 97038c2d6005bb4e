\* Two processes, two CPUs, words of two bits: sleep(-1) is three ticks, the
\* longest sleep there is.
SPECIFICATION Spec
CONSTANTS
  NPROC = 2
  NCPU = 2
  Word = 4
  Arguments <- MCArguments
INVARIANTS
  OneCpuPerProcess
  LocksAccounted
  MyprocIsCaller
  FreedUnused
  NoLostWakeup
