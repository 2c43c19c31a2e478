CONSTANTS
  Parts = {"clru"}
  Values = {v1}
  Zero = zero
  InitialCells = {1}
  MaxLength = 1
  CacheKeys = {k1}
  CacheValues = {v1}
  NotFound = notFound
  Capacities = {1}
  Dummy = dummy
  Ttls = {never}
  Never = never
  LruEnd = 0
  LfuKeys = {k1}
  LfuValues = {v1}
  LfuNone = notFound
  LfuCapacities = {1}
  MaxFreq = 1
  Callers = {p1}
  Buckets = {b1, b2}
  CNodes = {n1, n2}
  CDummy = dummy
  Null = null
  Crews = {{}, {p1}}
  CallSets = {{}, {"get", "put"}}
  Caps = {1}
  ClruKeys = {k1, k2}
  MaxCalls = 3
  Resolvers = {p1, p2}
  Domains = {k1, k2, k3}
  Addresses = {v1, v2}
  Unresolved = notFound
  DnsSizes = {1, 2}
  DnsTtl = 1
  DnsEnd = 3
  TableKeys = {k1}
  TableValues = {zero}
  TableZero = zero
  Absent = absent
  Hashes = {0}
  FirstBuckets = {1}
  SkipNodes = {n1}
  SkipHead = head
  End = end
  SkipVals = {1}
  MaxHeight = 1
  BlockSize = 4
  Align = 1
  PointerSize = 1
  Requests = {1}
  MaxBlocks = 1
  Strings = {s1}
  Letters = {x}
  Nul = nul
  Junk = junk
  MinCapacity = 1
  MaxSize = 1
SPECIFICATION Spec
INVARIANT NodesAreSafe
CHECK_DEADLOCK FALSE
