SPECIFICATION ImportsSpec
CONSTANTS
  a = a
  b = b
  p1 = p1
  p2 = p2
  j1 = j1
  j2 = j2
  q1 = q1
  q2 = q2
  Code = {a, b}
  Seat = {p1, p2}
  Job = {j1, j2}
  Request = {q1, q2}
  MaxKnown = 1
  MaxAsks = 4
  MaxStaff = 3
  MaxFailures = 1
SYMMETRY Symmetry
INVARIANTS
  FailedImportsNobody
PROPERTIES
  CompletedIsImported
  CardIsReplaced
CHECK_DEADLOCK FALSE
