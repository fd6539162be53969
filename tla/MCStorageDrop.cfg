\* A handle is dropped while another one writes.
SPECIFICATION FairSpec
CONSTANTS
  Key = {k1}
  Writer = {w1}
  Flusher = {}
  Loop = loop
  Nobody = nobody
  InitSeq = 0
  Capacity = 1
  MaxFrozen = 0
  MaxSeq = 1
  MaxWal = 0
  Faults = {}
  CanClose = FALSE
  CanDrop = TRUE
PROPERTIES
  ThrottledReturns
