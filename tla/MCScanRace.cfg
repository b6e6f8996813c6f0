SPECIFICATION Spec
CONSTANTS
  a = a
  b = b
  t1 = t1
  t2 = t2
  Absent = Absent
  Vendors <- MCVendors
  Threads <- TwoThreads
  Scans <- BothFiles
INVARIANTS
  PostureFromScan
