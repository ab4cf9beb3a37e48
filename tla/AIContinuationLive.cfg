SPECIFICATION FairSpec
CONSTANTS
  l1 = l1
  s1 = s1
  s2 = s2
  p1 = p1
  NoLease = NoLease
  Lease = {l1}
  Session = {s1}
  Provider = {p1}
  SessionOf <- OneLease
  ProviderOf <- LoneProvider
  Resumable = {l1}
  Sourced = {l1}
  MaxTurns = 2
  MaxWorkers = 2
  MaxActive = 2
  MaxChanges = 1
  MaxFaults = 2
  MaxStops = 0
  MaxBackups = 0
INVARIANTS
  WaitingIsSettled
PROPERTIES
  TurnsEnd
  ExpiredLeasesEnd
