SPECIFICATION Spec
CONSTANTS
  p1 = p1
  p2 = p2
  MaxRuns = 3
  People <- TwoPeople
  Windows <- OneStep
  MaxOpen = 2
  Horizon = 1
  MaxEdits = 1
  MaxWriters = 0
  MaxFaults = 0
  MaxStops = 1
INVARIANTS
  ReleaseIsEarned
  RunsOnConfirmedFiles
  BoundFilesAreKept
PROPERTIES
  PassLeavesNoDeadGate
  ShownEndIsFinal
CONSTRAINT PairOrPlainChain
SYMMETRY PersonSymmetry
CHECK_DEADLOCK FALSE
