SPECIFICATION FairSpec
CONSTANTS
  p1 = p1
  n1 = n1
  c1 = c1
  c2 = c2
  c3 = c3
  None = None
  Process = {p1}
  Name = {n1}
  Call = {c1, c2, c3}
  Op <- OneProcess
  MaxTime = 2
  MaxCrashes = 1
  DbFails = TRUE
PROPERTIES OncePerOccurrence EveryOccurrenceFires
