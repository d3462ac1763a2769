SPECIFICATION L1Spec
CONSTANTS
  c1 = c1
  c2 = c2
  Calls <- MCCalls
  MaxNumber = 3
  MaxBatch = 2
  ScanLimit = 2
  Threshold = 2
  MaxFaults = 1
SYMMETRY MCSymmetry
INVARIANTS
  DriverBlocksTracked
  PointersNameRows
  CacheIsLastOfBatch
  QuietScanIsExact
CHECK_DEADLOCK FALSE
