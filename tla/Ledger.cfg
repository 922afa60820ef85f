SPECIFICATION Spec
CONSTANTS
  Users = {u1, u2}
  Data = {d1}
  Adjustments <- Replacements
  Quotes = {q1}
  Verdicts = {"reject"}
  MaxRows = 3
  None = None
INVARIANTS AppliedWasApproved
PROPERTIES ClashNeedsLag DoubleNeedsRace
SYMMETRY Symmetry
CHECK_DEADLOCK FALSE
