\* The program as it is: five threads, five rounds: safety, order and progress.
SPECIFICATION FairSpec
CONSTANTS
  NUM_THREADS = 5
  NUM_ITER = 5
  NoThread = NoThread
PROPERTIES
  RingSpec
