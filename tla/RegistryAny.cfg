SPECIFICATION Spec
CONSTANTS
  Sessions = {s1, s2}
  Runs = {r1, r2, r3}
  None = None
  ReRegister = TRUE
  MaxVintage = 3
  Tracked = {"registered"}
INVARIANTS TypeOK LineageSound EventsTruthful ChainWalk
SYMMETRY Symmetry
CHECK_DEADLOCK FALSE
