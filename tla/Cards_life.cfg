SPECIFICATION Spec
CONSTANTS
  s1 = s1
  s2 = s2
  c1 = c1
  c2 = c2
  c3 = c3
  g1 = g1
  w1 = w1
  w2 = w2
  Student = {s1, s2}
  Card = {c1, c2, c3}
  Reader = {g1}
  Worker = {w1, w2}
  MaxRequests = 2
  MaxChanges = 3
  MaxFaults = 1
SYMMETRY Symmetry
INVARIANTS
  OneLiveCard
  ErasedHasNoCard
PROPERTIES
  EndedStaysEnded
CHECK_DEADLOCK FALSE
