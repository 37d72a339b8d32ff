CONSTANTS
  k1 = k1
  k2 = k2
  k3 = k3
  v1 = v1
  v2 = v2
  Val <- TwoVals
  None = None
  NoFile = NoFile
  Key = {k1, k2, k3}
  Capacity = 2
  Hash <- HashClash
  Threshold = 1
  MaxLog = 2
  MaxCrashes = 1
  MaxOpenErrors = 1
SPECIFICATION Spec
INVARIANTS
  ScanAgreesUnlessDeleted
  LastPutVisible
  FilesHoldUpdates
SYMMETRY ValSymmetry
CHECK_DEADLOCK FALSE
