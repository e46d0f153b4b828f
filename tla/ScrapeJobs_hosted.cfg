CONSTANTS
  Conns = {c1, c2}
  Workers = {w1, w2}
  Targets = {t1}
  RowIds = {r1, r2}
  NoConn = NoConn
  NoTarget = NoTarget
  ConnOf <- MCConnOf
  Strict = TRUE
  MaxCursor = 1
  MaxJobs = 2
  MaxAttempts = 2
  MaxFaults = 1
  Policies <- MCPolicies
  MaxBatch = 2
  Lease = 1
SPECIFICATION Spec
SYMMETRY Symmetry
INVARIANTS TypeOK OneActiveJobPerTarget TargetStatusTracksJobs NoSkippedRows
PROPERTIES LeaseIsExclusive CompletedJobIsFinal ImplementsFeed
