SPECIFICATION Spec
CONSTANTS
  Users = {u1, u2}
  Inputs = {jan, feb}
  FileOf <- OneSheet
  Cfgs = {c1}
  Capacity = 2
  None = None
INVARIANTS ScreenExplained
PROPERTIES PoisonedByDetour StaleFromCache MisreportedOnlyStale
SYMMETRY Symmetry
CHECK_DEADLOCK FALSE
