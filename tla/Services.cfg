SPECIFICATION Spec
CONSTANTS
  Sessions = {s1, s2}
  Torn = Torn
  None = None
  Limit = 2
  Window = 3
  MaxClock = 7
  MaxRetries = 2
  MaxVersion = 2
  MaxCalls = 3
  Configs = {c1, c2}
  MaxUploads = 3
  MaxFailures = 1
  Files = {f1, f2}
  MaxSteps = 2
  MaxEvents = 3
  MaxEdits = 2
  Users = {u1, u2}
  Timeout = 1
  MaxTime = 2
  MaxLogins = 2
  Collections <- SomeCollections
  Desks = {s1}
  Kinds = {"scenario"}
  Data = {d1, d2}
  FileOf <- OneBook
  Capacity = 1
  Choices = {c1}
  Titles = {"A"}
INVARIANTS
  WindowIsExact
  FiguresTraced
  StoreKept
  EditsLocated
  AccessIsCurrent
  DecisionsOpenTheGate
  ProjectionsReproduce
PROPERTIES
  CallEnds
  BackupIsComplete
CHECK_DEADLOCK FALSE
