CONSTANTS
  Parts = {"token"}
  FixedLimit = 2
  FixedWindow = 2
  FixedEnd = 7
  LogLimit = 2
  LogWindow = 3
  LogEnd = 8
  SetBack = {2, 4}
  SlotsLimit = 2
  SlotsWindow = 7
  NumSlots = 3
  FirstReading = 12
  SlotsSetBack = {3, 5}
  SlotsEnd = 9
  Clients = {p1, p2}
  BucketSize = 2
  Requests = {1, 2}
  Never = never
  Contexts = {{1}}
  TokenEnd = 2
  MaxDebt = 1
  Pushers = {q1, q2}
  Closers = {c1, c2}
  QueueSize = 2
  MaxTicks = 3
  MaxItems = 3
  MBit = 1
  NodeIds = {0}
  MaxMembers = 1
  Nil = nil
  IDLength = 1
  K = 1
  Addrs = {v1}
  MaxHeard = 0
SPECIFICATION Spec
PROPERTY CallsReturn
CHECK_DEADLOCK FALSE
