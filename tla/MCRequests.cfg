SPECIFICATION AllSpec
CONSTANTS
  x1 = x1
  x2 = x2
  None = None
  Msg = {x1, x2}
  Frags <- TwoAndTwo
  MaxPackets = 4
  MinCwnd = 1
  InitCwnd = 1
  MaxCwnd = 1
  DupAck = 1
  MaxRetx = 0
  MaxPartial = 1
  Faults = {}
  Agent = {x1, x2}
  Relay = {"rust"}
  Sock = {x1, x2, "d3", "o"}
  Id = {"i", "j"}
  IdOf <- SocketIds
  Silent = {}
  Issuer = {x1, x2, "o"}
  Session = {"c1", "c2", "c3"}
  Machine = {"h1", "h2"}
  At = {0, 1}
  Label = {"linux"}
  Chat = {"c1", "c2", "c3"}
  Exported = {"c1"}
  Rows = {"c2"}
  Dated = {"c3"}
  Search = {x1, x2}
  MaxVersion = 2
  Limit = 3
  Fetch = 2
  PipeCap = 1
  Lines = 3
  MaxPartialOutput = 2
SYMMETRY Alike
INVARIANTS
  WindowBound NotLost RedeliveryNeedsAll
  NoPipeDeadlock AnnouncedIsFound
  ResultReturns NoFlicker DeadForgotten Resolved OnlyNamed
CHECK_DEADLOCK FALSE
