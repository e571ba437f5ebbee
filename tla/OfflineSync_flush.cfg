SPECIFICATION Spec
CONSTANTS
  e1 = e1
  e2 = e2
  f1 = f1
  f2 = f2
  r1 = r1
  r2 = r2
  Event = {e1, e2}
  Flush = {f1}
  Request = {r1, r2}
  MaxSyncRetries = 3
  BatchSize = 2
  MaxFaults = 2
  MaxEdits = 1
  MaxAdmin = 1
  MaxUnfiled = 2
  MaxLogouts = 0
SYMMETRY Symmetry
INVARIANTS
  TypeOK
  SyncedIsRecorded
  ConflictIsFlagged
  LogIsProjected
PROPERTIES
  ResendIsHarmless
CHECK_DEADLOCK FALSE
