\* A transaction with a write set of up to two keys and a flusher; appends, new logs
\* and tables may fail, and the database may be closed or its handle dropped
\* meanwhile.
SPECIFICATION FairSpec
CONSTANTS
  Key = {k1, k2}
  Tx = {t1}
  Plain = {}
  Freezer = {f1}
  Nobody = nobody
  InitSeq = 0
  Loop = loop
  Capacity = 1
  MaxFrozen = 0
  MaxSeq = 9
  MaxWal = 3
  Faults = {"append", "new_wal", "l0"}
  CanClose = TRUE
  CanDrop = TRUE
  NoState = nostate
INVARIANT
  PublishedIsDurable
PROPERTY
  CommitReturns
