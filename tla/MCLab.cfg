SPECIFICATION FairSpec
CONSTANTS
  r1 = r1
  r2 = r2
  negotiated = negotiated
  Absent = Absent
  Runs <- TwoRuns
  RunIdOf <- OwnIds
  Launches = 2
  Warmup = 2
  Iterations = 1
  Faults <- AllFaults
  MaxFaults = 2
  Samples <- MCSamples
  Modes <- MCModes
  StoredModes <- MCStoredModes
  Groups <- MCGroups
  Group = negotiated
  Conns <- MCConns
INVARIANTS
  TypeOK
  WarmupsUnrecorded
  RunsAnnounced
  FailuresCounted
  PairedHalves
PROPERTIES
  ClientHalvesFinal
  ComesToRest
