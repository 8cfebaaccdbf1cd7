SPECIFICATION Spec
CONSTANTS
  s1 = s1
  s2 = s2
  s3 = s3
  s4 = s4
  a1 = a1
  a2 = a2
  n1 = n1
  t1 = t1
  t2 = t2
  linux = linux
  None = None
  Session = {s1, s2, s3, s4}
  Agent = {a1}
  Name = {n1}
  Token = {t1, t2}
  Conn <- FleetConn
  ServerToken = t1
  Caps <- OneCap
  Label = {linux}
  Request = {"r1"}
  Channel = {}
  Traffic = {"command", "reply", "update_agent", "list_agents", "ping", "notify"}
  Faults = {"write_error", "stall"}
  QueueCap = 1
SYMMETRY Twins
INVARIANTS NoDanglingPending
PROPERTIES ReplyRouting
