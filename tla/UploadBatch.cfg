\* A batch of one slot for two keys, a batch without keys, two requests and two
\* faults.
SPECIFICATION FairSpec
CONSTANTS
  b1 = b1
  b2 = b2
  k1 = k1
  k2 = k2
  Batches = {b1, b2}
  Keys = {k1, k2}
  BatchOf <- MCBatchOf
  Files <- MCFiles
  Requests = {q1, q2}
  Allowed = 1
  FailOpen = FALSE
  MaxFaults = 2
INVARIANTS
  ProcessingHasWorker
  ItemsAreBacked
PROPERTIES
  LedgerSpec
  ProcessingEnds
