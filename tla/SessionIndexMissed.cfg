SPECIFICATION IndexSpec
CONSTANTS
  Chat = {"s1"}
  Search = {"t1", "t2"}
  MaxVersion = 2
  Exported = {"s1"}
  Rows = {}
  Dated = {}
  Limit = 1
  Fetch = 2
  None = None
INVARIANTS MissedIsTriedAgain
CHECK_DEADLOCK FALSE
