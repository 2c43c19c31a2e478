CONSTANTS
  Parts = {"ring", "lru", "lfu", "clru", "dns", "table", "skip", "arena", "string"}
  Values = {v1, v2}
  Zero = zero
  InitialCells = {1, 2, 4}
  MaxLength = 7
  CacheKeys = {k1, k2, k3}
  CacheValues = {v1, v2}
  NotFound = notFound
  Capacities = {1, 2}
  Dummy = dummy
  Ttls = {1, never}
  Never = never
  LruEnd = 3
  LfuKeys = {k1, k2, k3}
  LfuValues = {v1, v2}
  LfuNone = notFound
  LfuCapacities = {1, 2}
  MaxFreq = 3
  Callers = {p1, p2}
  Buckets = {b1}
  CNodes = {n1, n2}
  CDummy = dummy
  Null = null
  Crews = {{}, {p1}, {p1, p2}}
  CallSets = {{}, {"get", "put"}, {"get", "put", "del"}, {"put", "clear"}}
  Caps = {1, 2}
  ClruKeys = {k1, k2}
  MaxCalls = 3
  Resolvers = {p1, p2}
  Domains = {k1, k2, k3}
  Addresses = {v1, v2}
  Unresolved = notFound
  DnsSizes = {1, 2}
  DnsTtl = 1
  DnsEnd = 3
  TableKeys = {k1, k2, k3}
  TableValues = {v1, zero}
  TableZero = zero
  Absent = absent
  Hashes = {0, 1, 4, 5}
  FirstBuckets = {1, 3}
  SkipNodes = {n1, n2, n3, n4}
  SkipHead = head
  End = end
  SkipVals = {1, 2}
  MaxHeight = 2
  BlockSize = 6
  Align = 2
  PointerSize = 1
  Requests = {1, 2, 3}
  MaxBlocks = 3
  Strings = {s1, s2}
  Letters = {x, y}
  Nul = nul
  Junk = junk
  MinCapacity = 1
  MaxSize = 3
SPECIFICATION Spec
INVARIANTS FollowsTheCalls ContainersKeep
PROPERTIES ImplementsFifo CachesDriveOutTheRightKey TasksRun
CHECK_DEADLOCK FALSE
