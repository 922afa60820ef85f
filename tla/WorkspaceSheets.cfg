SPECIFICATION Spec
CONSTANTS
  Users = {u1}
  Inputs = {jan, feb}
  FileOf <- OneBook
  Cfgs = {c1}
  Capacity = 2
  None = None
INVARIANT NeverStale
CHECK_DEADLOCK FALSE
