SPECIFICATION Spec
CONSTANTS
  r1 = r1
  r2 = r2
  negotiated = negotiated
  Absent = Absent
  Runs <- OneRun
  RunIdOf <- SameId
  Launches = 2
  Warmup = 0
  Iterations = 1
  Faults <- NoFaults
  MaxFaults = 0
  Samples <- MCSamples
  Modes <- MCModes
  StoredModes <- MCStoredModes
  Groups <- MCGroups
  Group = negotiated
  Conns <- MCConns
INVARIANTS
  PairedHalves
