CONSTANTS
  Procs = {p1, p2}
  Values = {v1}
  Zero = zero
  Capacity = 2
  MaxPos = 3
  MaxDiscard = 1
  Watchers = {w1}
  Word = 16
SPECIFICATION IterFairSpec
INVARIANTS VisitsSeeValues
PROPERTY CallsReturn
