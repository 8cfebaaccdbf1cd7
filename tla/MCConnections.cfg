SPECIFICATION AllSpec
CONSTANTS
  None = None
  Proc = {p1, p2}
  Runs = {p1}
  Call = {c1, c2}
  Tunnel = {c1}
  Dialer = {"a", "b"}
  Idempotent = {"a", "b"}
  MaxChannels = 2
INVARIANTS
  ReadersApart KnownHere NoneLinger
PROPERTIES ModesAgree Recovers Returns EventsArrive ZombieReaped
CHECK_DEADLOCK FALSE
