SPECIFICATION RegisterSpec
CONSTANTS
  s1 = s1
  s2 = s2
  r1 = r1
  r2 = r2
  d1 = d1
  d2 = d2
  Student = {s1, s2}
  Request = {r1, r2}
  Device = {d1, d2}
  MaxRequests = 1
  MaxEdits = 1
  MaxCloses = 2
  MaxMoves = 1
  MaxFaults = 1
INVARIANTS
  RosterUnlessTorn
PROPERTIES
  DevicesReconcile
CHECK_DEADLOCK FALSE
