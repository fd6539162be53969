\* One process, whose first commit may be refused.
SPECIFICATION Spec
CONSTANTS
  Key = {k1}
  MaxSeq = 4
  MaxWal = 2
  MaxCrashes = 1
  MaxRefused = 1
\* An open database may have nothing left to do.
CHECK_DEADLOCK FALSE
INVARIANTS
  AckedReadable
