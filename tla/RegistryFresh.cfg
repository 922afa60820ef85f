SPECIFICATION Spec
CONSTANTS
  Sessions = {s1, s2}
  Runs = {r1, r2, r3, r4}
  None = None
  ReRegister = FALSE
  MaxVintage = 4
  Tracked = {}
INVARIANTS VintagesGrow TriangleComplete
PROPERTY ApprovedImmutable
SYMMETRY Symmetry
CHECK_DEADLOCK FALSE
