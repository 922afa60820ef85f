SPECIFICATION Spec
CONSTANTS
  Users = {u1}
  Inputs = {jan, feb}
  FileOf <- OneSheet
  Cfgs = {c1}
  Capacity = 2
  None = None
INVARIANT StampNamesRun
CHECK_DEADLOCK FALSE
