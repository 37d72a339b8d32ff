SPECIFICATION Spec
CONSTANTS
  MaxTxn = 3
  MaxActive = 2
  Level <- TwoLevels
  Row = {r}
  MaxVersions = 2
  None = None
CHECK_DEADLOCK FALSE
INVARIANTS TableCounted 
PROPERTIES RepeatableRead
