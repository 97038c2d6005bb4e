\* Four threads and a zemaphore with one permit: safety, the refinement of the
\* semaphore, and the progress of admitted threads.
SPECIFICATION FairSpec
CONSTANTS
  Threads = {t1, t2, t3, t4}
  Sems = {s1}
  NoThread = NoThread
  InitialValue = 1
  MaxCalls = 4
INVARIANTS
  WaitersCounted
PROPERTIES
  SemaphoreSpec
