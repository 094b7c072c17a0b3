SPECIFICATION Spec
CONSTANTS
  Providers = {p1, p2}
  Writers = {w1, w2}
  Atomic = TRUE
  Threshold = 3
  Cooldown = 2
  MaxWait = 1
  MaxTime = 3
  MaxReports = 5
SYMMETRY Symmetry
INVARIANT DownIffThreeInARow
PROPERTY FailureNeverCloses
