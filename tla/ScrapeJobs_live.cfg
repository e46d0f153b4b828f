CONSTANTS
  Conns = {c1}
  Workers = {w1, w2}
  Targets = {t1}
  RowIds = {r1}
  NoConn = NoConn
  NoTarget = NoTarget
  ConnOf <- MCConnOf
  Strict = FALSE
  MaxCursor = 2
  MaxJobs = 2
  MaxAttempts = 2
  MaxFaults = 1
  Policies <- NeverEnabled
  MaxBatch = 1
  Lease = 1
SPECIFICATION FairSpec
INVARIANTS NoSkippedRows
PROPERTIES QueuedJobEnds
