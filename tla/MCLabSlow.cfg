SPECIFICATION Spec
CONSTANTS
  r1 = r1
  r2 = r2
  negotiated = negotiated
  Absent = Absent
  Runs <- OneRun
  RunIdOf <- OneId
  Launches = 1
  Warmup = 0
  Iterations = 1
  Faults <- SlowFaults
  MaxFaults = 2
  Samples <- MCSamples
  Modes <- MCModes
  StoredModes <- MCStoredModes
  Groups <- MCGroups
  Group = negotiated
  Conns <- MCConns
INVARIANTS
  FailuresReported
