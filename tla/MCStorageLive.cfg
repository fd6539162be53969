\* A writer and a flusher that may close the database; flushes may fail for a
\* while.  Fairness, so no symmetry.
SPECIFICATION FairSpec
CONSTANTS
  Key = {k1}
  Writer = {w1}
  Flusher = {f1}
  Loop = loop
  Nobody = nobody
  InitSeq = 0
  Capacity = 2
  MaxFrozen = 0
  MaxSeq = 4
  MaxWal = 0
  Faults = {"l0"}
  CanClose = TRUE
  CanDrop = TRUE
INVARIANTS
  CrashSafe
  BackpressureBound
PROPERTIES
  EveryFrozenFlushed
  ThrottledReturnsWhileOpen
  CloseReturns
