SPECIFICATION FairSpec
CONSTANTS
  e1 = e1
  e2 = e2
  f1 = f1
  f2 = f2
  r1 = r1
  r2 = r2
  Event = {e1}
  Flush = {f1, f2}
  Request = {r1, r2}
  MaxSyncRetries = 2
  BatchSize = 1
  MaxFaults = 2
  MaxEdits = 0
  MaxAdmin = 0
  MaxUnfiled = 1
  MaxLogouts = 1
INVARIANTS
  SyncedIsRecorded
PROPERTIES
  RowsSettle
CHECK_DEADLOCK FALSE
