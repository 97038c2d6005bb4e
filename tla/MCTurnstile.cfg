\* Five threads, three rounds, spurious wakeups at any time.
SPECIFICATION FairSpec
CONSTANTS
  NUM_THREADS = 5
  NUM_TIMES_PRINT = 3
  NoThread = NoThread
INVARIANTS
  TurnNotStranded
PROPERTIES
  RingSpec
