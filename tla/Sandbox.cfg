SPECIFICATION Spec
CONSTANTS
  Calls = {c1, c2}
  Kinds = {"ends", "off"}
  MaxBusy = 2
  JobsMixed = FALSE
  Restored = FALSE
  AutoMount = TRUE
SYMMETRY CallSymmetry
INVARIANTS OwnOutput ReadyIsIdle
CHECK_DEADLOCK FALSE
