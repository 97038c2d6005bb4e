\* Progress: three slots, two processors, three pids.
SPECIFICATION FairSpec
CONSTANTS
  NPROC = 3
  NCPU = 2
  MaxPid = 3
PROPERTIES
  KilledDies
  OrphansReaped
