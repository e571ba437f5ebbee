SPECIFICATION Spec
CONSTANTS
  r1 = r1
  r2 = r2
  r3 = r3
  v1 = v1
  k1 = k1
  k2 = k2
  Report = {r1, r2, r3}
  Visitor = {v1}
  Conn = {k1, k2}
  MaxConcurrent = 1
  MaxPending = 1
  MaxFaults = 1
INVARIANTS
  TypeOK
  ReviewedHasArtifact
  OneApproved
  VersionsDiffer
PROPERTIES
  WaitingStarts
CHECK_DEADLOCK FALSE
