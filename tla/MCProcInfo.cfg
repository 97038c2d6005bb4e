\* Safety, with the queries: four slots, two processors, four pids.  The
\* process in slot 2 may list the others.
SPECIFICATION SpecListing
CONSTANTS
  NPROC = 4
  NCPU = 2
  MaxPid = 4
  Listers = {2}
INVARIANTS
  PidsUnique
  ParentAlive
  NoLostWait
  MemoryOwned
  ListingComplete
  ListingCounted
