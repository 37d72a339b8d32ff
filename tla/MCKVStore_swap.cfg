CONSTANTS
  v1 = v1
  v2 = v2
  k1 = k1
  k2 = k2
  k3 = k3
  Val <- TwoVals
  None = None
  NoFile = NoFile
  Key = {k1, k2}
  Capacity = 2
  Hash <- HashSpread
  Threshold = 2
  MaxLog = 4
  MaxCrashes = 1
  MaxOpenErrors = 0
SPECIFICATION Spec
PROPERTIES
  SnapshotSwapAtomic
CHECK_DEADLOCK FALSE
