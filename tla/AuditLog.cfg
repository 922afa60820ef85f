SPECIFICATION Spec
CONSTANTS
  Sessions = {s1, s2, s3}
  MaxEvents = 4
INVARIANTS TypeOK ForksNeedARace
PROPERTY TrailSpec
CHECK_DEADLOCK FALSE
