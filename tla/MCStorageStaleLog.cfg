\* The removal of a log may fail.
SPECIFICATION Spec
CONSTANTS
  Key = {k1}
  Writer = {w1}
  Flusher = {f1}
  Loop = loop
  Nobody = nobody
  InitSeq = 0
  Capacity = 1
  MaxFrozen = 1
  MaxSeq = 2
  MaxWal = 0
  Faults = {"remove"}
  CanClose = FALSE
  CanDrop = FALSE
SYMMETRY Symmetry
INVARIANTS
  CrashSafe
