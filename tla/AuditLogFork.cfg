SPECIFICATION Spec
CONSTANTS
  Sessions = {s1, s2}
  MaxEvents = 2
INVARIANT ChainIntact
CHECK_DEADLOCK FALSE
