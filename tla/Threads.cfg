CONSTANTS
  Parts = {"print", "mutex", "flight", "pointer", "singleton"}
  MaxNumber = 100
  Pushers = {1, 2}
  Poppers = {3, 4}
  MaxItems = 2
  MaxPops = 2
  Procs = {1, 2, 3}
  Keys = {k1, k2}
  Results = {r1, r2}
  None = none
  MaxCalls = 3
  PtrThreads = {1, 2}
  Pointers = {s1, s2, s3}
  Objects = {o1, o2}
  NoObject = null
  Askers = {t1, t2, t3}
  MaxMade = 3
SPECIFICATION Spec
INVARIANTS InOrderOnce OneFlight ReturnsFinishedCall SharedOnce
PROPERTIES TakesTurns JoinedEmpty JoinsWhileOwned DoReturns
CHECK_DEADLOCK FALSE
