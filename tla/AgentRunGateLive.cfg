SPECIFICATION LiveSpec
CONSTANTS
  p1 = p1
  p2 = p2
  MaxRuns = 2
  People <- Nobody
  Windows <- OneStep
  MaxOpen = 1
  Horizon = 1
  MaxEdits = 0
  MaxWriters = 1
  MaxFaults = 1
  MaxStops = 1
PROPERTIES
  GateSettles
  ReleasedRunIsTakenUp
CHECK_DEADLOCK FALSE
