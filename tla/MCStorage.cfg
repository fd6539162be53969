\* One writer, one flusher, two keys; whatever can fail may.
SPECIFICATION Spec
CONSTANTS
  Key = {k1, k2}
  Writer = {w1}
  Flusher = {f1}
  Loop = loop
  Nobody = nobody
  InitSeq = 0
  Capacity = 2
  MaxFrozen = 1
  MaxSeq = 3
  MaxWal = 3
  Faults = {"append", "new_wal", "l0", "remove"}
  CanClose = FALSE
  CanDrop = FALSE
SYMMETRY Symmetry
INVARIANTS
  TypeOK
  LookupIsNewest
  NewestTableFirst
