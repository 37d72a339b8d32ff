CONSTANTS
  v1 = v1
  v2 = v2
  Val <- TwoVals
  Schema = {schema}
  Session = {s1}
  Db = {public}
  Public = public
  TableName = {t}
  MaxId = 1
  SpName = {p, q}
  None = None
  MaxOps = 3
  MaxTxns = 1
  MaxCrashes = 0
SPECIFICATION FairSpec
INVARIANTS
  
  RollbackToRestores
PROPERTIES
  RollbackEnds
