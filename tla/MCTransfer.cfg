SPECIFICATION FairSpec
CONSTANTS
  t1 = t1
  t2 = t2
  a = a
  b = b
  Hole = Hole
  None = None
  Transfer = {t1, t2}
  Block = {a, b}
  Version <- TwoVersions
  OldDest <- LongFile
  Window = 2
  MaxEdits = 1
INVARIANTS FailsForAReason
PROPERTIES ImplementsFileCopy
