SPECIFICATION Spec
CONSTANTS
  s1 = s1
  r1 = r1
  g1 = g1
  g2 = g2
  Student = {s1}
  Carrier = s1
  Request = {r1}
  Device = {}
  Delivery = {g1, g2}
  MaxTaps = 2
  Cooldown = 2
  MaxSends = 3
  MaxRequests = 1
  MaxEdits = 1
  MaxCloses = 1
  MaxMoves = 1
  MaxFaults = 1
SYMMETRY Symmetry
INVARIANTS
  AcceptedOnce
  AcceptedIsOnRegister
PROPERTIES
  FinalizedUnlessOvertaken
CHECK_DEADLOCK FALSE
