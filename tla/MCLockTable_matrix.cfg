SPECIFICATION Spec
CONSTANTS
  Txn = {t1, t2, t3}
  Resource = {r1}
  Bucket = {b1}
  Hash <- OneBucket
  Mode <- SharedUpdate
  Addr = {a1, a2, a3}
  MaxHeld = 2
  Free = Free
CHECK_DEADLOCK FALSE
INVARIANTS HoldersCompatible
