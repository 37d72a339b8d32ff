CONSTANTS
  v1 = v1
  v2 = v2
  Val = {v1}
  Schema = {schema}
  Session = {s1}
  Db = {public, other}
  Public = public
  TableName = {t}
  MaxId = 2
  SpName = {}
  None = None
  MaxOps = 2
  MaxTxns = 1
  MaxCrashes = 1
SPECIFICATION Spec
INVARIANTS
  
  RollbackRestores
