SPECIFICATION RunSpec
CONSTANTS
  t1 = t1
  t2 = t2
  o1 = o1
  o2 = o2
  o3 = o3
  NoTask = NoTask
  NoObject = NoObject
  Tasks <- TaskPair
  ObjectIds <- Objects3
  MaxRuns = 2
  MaxConcurrentWorkers = 1
  MaxQueued = 1
  ClaimRetries = 1
  MaxFaults = 3
  MaxChanges = 1
  MaxStops = 2
INVARIANTS
  CancellationHonoured
  ArtifactBacked
  EveryRunIsReadable
PROPERTIES
  RunKeepsItsPromise
  ClaimedRunSettles
  QueuedRunIsTakenUp
CHECK_DEADLOCK FALSE
