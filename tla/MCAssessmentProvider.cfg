SPECIFICATION Spec
CONSTANTS
  a = a
  b = b
  Absent = Absent
  Vendors <- MCVendors
  Rows <- MCRows
  Inputs <- MCInputs
  Scans <- MCScans
  MaxEdits = 1
SYMMETRY Swap
INVARIANT ScoredAsDisplayed
