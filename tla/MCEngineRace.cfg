\* One snapshot, two plain writes and a flusher on one key; nothing fails.
SPECIFICATION Spec
CONSTANTS
  Key = {k1}
  Tx = {t1}
  Plain = {p1, p2}
  Freezer = {f1}
  Nobody = nobody
  InitSeq = 1
  Loop = loop
  Capacity = 2
  MaxFrozen = 0
  MaxSeq = 9
  MaxWal = 9
  Faults = {}
  CanClose = FALSE
  CanDrop = FALSE
  NoState = nostate
SYMMETRY Symmetry
INVARIANT
  SnapshotExact
