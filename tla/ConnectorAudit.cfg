SPECIFICATION Spec
CONSTANTS
  Tabs = {t1}
  MaxRetries = 2
  MaxVersion = 1
  MaxCalls = 2
  None = None
INVARIANT EveryCallAudited
CHECK_DEADLOCK FALSE
