SPECIFICATION Spec
CONSTANTS
  s1 = s1
  s2 = s2
  s3 = s3
  s4 = s4
  a1 = a1
  a2 = a2
  n1 = n1
  t1 = t1
  t2 = t2
  linux = linux
  None = None
  Session = {s1, s2, s3}
  Agent = {a1, a2}
  Name = {n1}
  Token = {t1, t2}
  Conn <- ChurnConn
  ServerToken = None
  Caps <- OneCap
  Label = {linux}
  Request = {}
  Channel = {}
  Traffic = {}
  Faults = {}
  QueueCap = 1
INVARIANTS OneRoomPerKey
