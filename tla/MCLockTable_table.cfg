SPECIFICATION FairSpec
CONSTANTS
  Txn = {t1, t2}
  Resource = {r1, r2}
  Bucket = {b1}
  Hash <- OneBucket
  Mode <- ThreeModes
  Addr = {a1, a2, a3}
  MaxHeld = 2
  Free = Free
CHECK_DEADLOCK FALSE
INVARIANTS ChainsSound ExclusiveEntryAlone GrantedLocksKept NoOrphanLocks
PROPERTIES RequestAnswered
