CONSTANTS
  Parts = {"crawler"}
  Procs = {p1, p2}
  Urls = {u1, u2}
  Keys = {k1, k2, k3}
  None = none
  MaxRetries = 2
  Teams = {{}}
  Colliding = {{}}
  a = a
  b = b
  c = c
  d = d
  Pages = {a, b, c, d}
  Workers = {w1, w2}
  Nothing = nothing
  MaxDepth = 2
  MaxPages = 4
  Hands = {h1}
  Crews = {{}}
  Watched = {u1}
  Hashes = {1}
  Stop = stop
  Unseen = unseen
  Torn = torn
  MaxHanded = 0
  MaxKills = 0
SPECIFICATION Spec
INVARIANT CrawlReturns
CHECK_DEADLOCK FALSE
