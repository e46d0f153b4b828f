SPECIFICATION Spec
CONSTANTS
  Reviews = {1, 2}
  Kinds = {"wb", "ozon", "ym"}
  Runs = {server, cli}
  PageSize = 1
  Overlap = 1
  Delay = 1
  Skew = 1
  Never = Never
  MaxTime = 2
  MaxAnswers = 1
  MaxFaults = 1
SYMMETRY RunSymmetry
CHECK_DEADLOCK FALSE
INVARIANTS TypeOK NothingSkipped
