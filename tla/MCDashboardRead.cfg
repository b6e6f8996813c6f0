SPECIFICATION Spec
CONSTANTS
  r1 = r1
  r2 = r2
  s1 = s1
  s2 = s2
  s3 = s3
  s4 = s4
  Absent = Absent
  Blank = Blank
  Runs <- MCRuns
  Samples <- MCSamples
  Modes <- MCModes
  StoredModes <- MCStoredModes
  Groups = {}
  Conns <- MCConns
  Posts <- MCPosts
  RunLimit = 2
  RecentLimit = 2
  MaxClock = 1
INVARIANTS
  TypeOK
  PercentilesBracket
  AnswersAgree
  ComparisonDefined
PROPERTIES
  LatestStays
  FailureMeasuresNothing
