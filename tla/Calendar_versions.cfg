SPECIFICATION Spec
CONSTANTS
  r1 = r1
  r2 = r2
  Day = {1, 2}
  Request = {r1, r2}
  MaxVersions = 3
  MaxAsks = 4
  MaxFaults = 1
SYMMETRY Symmetry
INVARIANTS
  TypeOK
  ApprovedIsConfirmed
  CalendarStands
  DraftIsNewest
PROPERTIES
  ApprovedIsFrozen
CHECK_DEADLOCK FALSE
