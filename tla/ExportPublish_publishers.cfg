CONSTANTS
  review = review
  pin = pin
  policy = policy
  approval = approval
  Changes = {review, policy, approval}
  PartOf <- MCPartOf
  Missing = Missing
  Silent = {approval}
  ConcurrentWriters = TRUE
  MountedExport = TRUE
  MaxManual = 1
  MaxPolicyErrors = 1
  MaxFaults = 1
SPECIFICATION Spec
CHECK_DEADLOCK FALSE
INVARIANTS ExportMovesForward PublishedCovers NoChangeForgotten
