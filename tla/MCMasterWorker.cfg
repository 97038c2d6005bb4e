\* Three masters, two workers, four items, two slots: safety, termination and
\* the refinement of the request pool.
SPECIFICATION FairSpec
CONSTANTS
  Masters = {m1, m2, m3}
  Workers = {w1, w2}
  total_items = 4
  max_buf_size = 2
  NoThread = NoThread
INVARIANTS
  MutualExclusion
  ChecksStillHold
  ExactlyOnce
  NoLostWakeup
  NeverStuck
  FinalOutput
PROPERTIES
  Termination
  PoolSpec
