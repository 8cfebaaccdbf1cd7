SPECIFICATION AllSpec
CONSTANTS
  s1 = s1
  s2 = s2
  s3 = s3
  x1 = x1
  x2 = x2
  x3 = x3
  a1 = a1
  a2 = a2
  n1 = n1
  t1 = t1
  t2 = t2
  None = None
  Session = {s1, s2, s3, x1, x2, x3}
  Agent = {a1, a2}
  Name = {n1}
  Token = {t1, t2}
  Conn <- RoomsConn
  ServerToken = None
  Caps <- OneCap
  Label = {}
  Request = {}
  Channel = {"c1"}
  Traffic = {"udp_offer", "udp_answer", "udp_result", "ping", "notify"}
  Faults = {"stall"}
  QueueCap = 1
SYMMETRY Twins
INVARIANTS
  RoomGate NoCrossTalk RoomsCollected QuietRoster
PROPERTIES AnswerRouting
