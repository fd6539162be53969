\* Two keys, commits, freezes and flushes in up to three processes.
SPECIFICATION Spec
CONSTANTS
  Key = {k1, k2}
  MaxSeq = 4
  MaxWal = 3
  MaxCrashes = 2
  MaxRefused = 1
\* An open database may have nothing left to do.
CHECK_DEADLOCK FALSE
SYMMETRY Symmetry
INVARIANTS
  TypeOK
  ReadsExact
  SeqFresh
  OpenFailsOnlyTorn
  AckedReadableUnrefused
PROPERTIES
  ImplementsDurableMap
