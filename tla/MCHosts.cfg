SPECIFICATION AllSpec
CONSTANTS
  x1 = x1
  x2 = x2
  None = None
  Agent = {"a1", "a2"}
  Daemon = {"a1"}
  Request = {"one", "big", "all"}
  Single = {"one", "big"}
  Target <- Targets
  BigCall = {"big"}
  BigResult = {"one"}
  Observer = FALSE
  MaxMoves = 1
  Session = {"m1", "m2"}
  Job = {x1, x2}
  Config = "plan"
  MaxSets = 2
  McpNode = {"m"}
  AgentNode = {"g"}
  Order = {"p", "q"}
  SourceOf <- Source
  DestinationOf <- Destination
  MaxJobs = 1
  MaxChanges = 1
  MaxLost = 1
  Path = {"p", "x"}
  Excluded = {"x"}
  Content = {"a", "b"}
  SizeOf <- OneSize
  Mixture = "mix"
  Options <- SyncOptions
  MaxTime = 4
CONSTRAINT OneCall
SYMMETRY Alike
INVARIANTS
  ExecutedOnce CollectorsReleased
  BlamedForAReason Mirrors
PROPERTIES ModeShared
CHECK_DEADLOCK FALSE
