SPECIFICATION Spec
CONSTANTS
  b1 = b1
  b2 = b2
  Student = {1, 2}
  Request = {}
  Device = {}
  Batch = {b1, b2}
  Key <- MCKey
  MaxReads = 2
  MaxSends = 2
  MaxRequests = 0
  MaxEdits = 1
  MaxCloses = 1
  MaxMoves = 1
  MaxFaults = 1
SYMMETRY Symmetry
INVARIANTS
  IngestTypeOK
  DeadlocksOnlyAtLog
  DebouncedIsPresent
PROPERTIES
  FinalizedUnlessOvertaken
  KeepsPromise
CHECK_DEADLOCK FALSE
