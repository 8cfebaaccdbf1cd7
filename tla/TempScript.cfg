SPECIFICATION Spec
CONSTANTS
  Command = {"c1", "c2", "c3"}
  WithInput = {"c3"}
  None = None
INVARIANTS RunsItsOwn
CHECK_DEADLOCK FALSE
