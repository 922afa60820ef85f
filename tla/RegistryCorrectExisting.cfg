SPECIFICATION Spec
CONSTANTS
  Sessions = {s1, s2}
  Runs = {r1, r2, r3}
  None = None
  ReRegister = TRUE
  MaxVintage = 3
  Tracked = {}

PROPERTY ApprovedImmutable
CHECK_DEADLOCK FALSE
