\* kill on a slot that no process uses.
SPECIFICATION Spec
CONSTANTS
  NPROC = 3
  NCPU = 1
  MaxPid = 3
PROPERTIES
  KillsOnlyTheNamed
