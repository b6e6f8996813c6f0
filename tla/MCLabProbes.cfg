SPECIFICATION Spec
CONSTANTS
  r1 = r1
  r2 = r2
  negotiated = negotiated
  Absent = Absent
  Runs <- OneRun
  RunIdOf <- OneId
  Launches = 1
  Warmup = 1
  Iterations = 2
  Faults <- ProbeFaults
  MaxFaults = 2
  Samples <- MCSamples
  Modes <- MCModes
  StoredModes <- MCStoredModes
  Groups <- MCGroups
  Group = negotiated
  Conns <- MCConns
INVARIANTS
  EveryProbeReported
  FaultlessRunIsRecorded
PROPERTIES
  FollowsExperiment
  ImplementsLedger
  OnlyLastServerHalfIsLate
