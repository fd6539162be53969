\* Two transactions or snapshots, a plain write and a flusher on two keys, after
\* a recovery; appends and freezes may fail.  Fairness, so no symmetry.
SPECIFICATION FairSpec
CONSTANTS
  Key = {k1, k2}
  Tx = {t1, t2}
  Plain = {p1}
  Freezer = {f1}
  Nobody = nobody
  InitSeq = 1
  IoFaults = TRUE
INVARIANTS
  TypeOK
  FirstCommitterWins
  ConflictIsReal
  RecentComplete
  ActiveExact
  FreezeSeesSettled
  AtomicVisibility
PROPERTIES
  ImplementsSnapshotIsolation
  CommitDecided
