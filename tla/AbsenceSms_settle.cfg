SPECIFICATION FairSpec
CONSTANTS
  s1 = s1
  s2 = s2
  w1 = w1
  w2 = w2
  Student = {s1, s2}
  Worker = {w1, w2}
  NoPhone = {}
  Silent = {s2}
  Delayed = TRUE
  Metered = TRUE
  InitialBalance = 2
  MaxRetries = 2
  BatchLimit = 1
  MaxFinalizations = 1
  MaxEdits = 0
  MaxFaults = 1
  MaxClicks = 1
  MaxToggles = 1
INVARIANTS
  UnreachableNeverTexted
PROPERTIES
  JobsSettle
CHECK_DEADLOCK FALSE
