SPECIFICATION Spec
CONSTANTS
  Calls = {c1}
  Kinds = {"ends"}
  MaxBusy = 1
  JobsMixed = FALSE
  Restored = TRUE
  AutoMount = FALSE
INVARIANTS StatusIsRead
CHECK_DEADLOCK FALSE
