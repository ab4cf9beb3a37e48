SPECIFICATION LiveSpec
CONSTANTS
  MaxRequests = 2
  MaxRevisions = 2
  MaxInputs = 3
  MaxFaults = 1
INVARIANTS ShownTurnsAreTrue
PROPERTIES OnlyAcceptedIsCleared RunningEnds
CHECK_DEADLOCK FALSE
