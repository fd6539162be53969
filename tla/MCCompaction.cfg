\* Two tables of up to four entries and their compaction.
SPECIFICATION Spec
CONSTANTS
  Key = {1, 2, 3, 4}
  Delete = delete
  Absent = absent
  None = none
  KeySize = 11
  BlockSize = 30
  BlockHeader = 6
  MaxBlock = 70
  Hash <- MCHash
  WordBits = 8
  Rotation = 3
  Probes = 3
  BitsPerKey = 4
  MinBits = 8
  Given <- MCGiven
  MaxSeq = 7
  MaxEntries = 4
  MaxTables = 2
\* The compaction is the end, and so is an error.
CHECK_DEADLOCK FALSE
INVARIANTS
  TypeOK
  GetExact
  ReopenExact
  MergeExact
  FailsOnlyOversize
