SPECIFICATION Spec
CONSTANTS
  r1 = r1
  r2 = r2
  s1 = s1
  s2 = s2
  s3 = s3
  x25519 = x25519
  first = first
  second = second
  t1 = t1
  t2 = t2
  v1 = v1
  Absent = Absent
  Runs <- MCRuns
  Samples <- MCSamples
  Modes <- MCModes
  StoredModes <- MCStoredModes
  Groups <- MCGroups
  Conns <- MCConns
  Threads <- MCThreads
  Viewers <- NoViewers
  Posts <- MCPosts
SYMMETRY ThreadSymmetry
INVARIANTS
  TypeOK
  AckedIsStored
  VerdictIsTheClients
PROPERTIES
  NoRunFromRejected
  ImplementsLedger
