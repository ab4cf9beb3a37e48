SPECIFICATION Spec
CONSTANTS
  p1 = p1
  p2 = p2
  MaxRuns = 2
  People <- OnePerson
  Windows <- OneStep
  MaxOpen = 1
  Horizon = 1
  MaxEdits = 0
  MaxWriters = 1
  MaxFaults = 0
  MaxStops = 0
INVARIANTS
  NoCircularWait
CHECK_DEADLOCK FALSE
