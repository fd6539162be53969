\* Three inserts and a reader.
SPECIFICATION Spec
CONSTANTS
  Inserter = {i1, i2, i3}
  Reader = {r1}
  Version <- MCVersion
  Sought <- MCSought
  MaxHeight = 2
  Front = front
  Null = null
  None = none
\* Every call has returned.
CHECK_DEADLOCK FALSE
SYMMETRY Symmetry
INVARIANTS
  TypeOK
  LevelsComplete
  IterationComplete
  LenExact
PROPERTIES
  ImplementsVersionSet
