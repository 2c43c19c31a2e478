CONSTANTS
  Parts = {"shortener", "crawler", "extensions"}
  Procs = {p1, p2, p3}
  Urls = {u1, u2, u3}
  Keys = {k1, k2, k3}
  None = none
  MaxRetries = 2
  Teams = {{}, {p1}, {p1, p2, p3}}
  Colliding = {{}, {p1}}
  a = a
  b = b
  c = c
  d = d
  Pages = {a, b, c, d}
  Workers = {w1, w2}
  Nothing = nothing
  MaxDepth = 2
  MaxPages = 4
  Hands = {h1, h2}
  Crews = {{}, {h1}, {h1, h2}}
  Watched = {u1, u2}
  Hashes = {1, 2}
  Stop = stop
  Unseen = unseen
  Torn = torn
  MaxHanded = 2
  MaxKills = 1
SPECIFICATION Spec
INVARIANTS AnswersResolve StorageKept EachPageOnce
PROPERTY ServicesGetOn
CHECK_DEADLOCK FALSE
