CONSTANTS
  review = review
  pin = pin
  policy = policy
  approval = approval
  Changes = {review, policy}
  PartOf <- MCPartOf
  Missing = Missing
  Silent = {}
  ConcurrentWriters = TRUE
  MountedExport = FALSE
  MaxManual = 1
  MaxPolicyErrors = 0
  MaxFaults = 1
SPECIFICATION FairSpec
CHECK_DEADLOCK FALSE
INVARIANTS TypeOK
 
