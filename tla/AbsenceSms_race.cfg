SPECIFICATION Spec
CONSTANTS
  s1 = s1
  s2 = s2
  w1 = w1
  w2 = w2
  Student = {s1}
  Worker = {w1, w2}
  NoPhone = {}
  Silent = {}
  Delayed = TRUE
  Metered = TRUE
  InitialBalance = 2
  MaxRetries = 2
  BatchLimit = 1
  MaxFinalizations = 2
  MaxEdits = 2
  MaxFaults = 2
  MaxClicks = 0
  MaxToggles = 0
SYMMETRY Symmetry
INVARIANTS
  TypeOK
  BalanceAccounted
  NoUnexplainedDuplicate
  CorrectionFollowsAbsence
  OnlyOvertakenMisinform
CHECK_DEADLOCK FALSE
