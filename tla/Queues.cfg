CONSTANTS
  Producers = {p1, p2, p3}
  Consumers = {c1}
  Values = {v1, v2}
  Nodes = {n1, n2, n3, n4}
  Null = null
  None = none
  Word = 8
  Teams = {{p1, c1}, {p1, p2, p3}}
  Weak = {FALSE, TRUE}
  Alike = {p2, p3}
SYMMETRY Symmetry
SPECIFICATION LinkedSpec
CHECK_DEADLOCK FALSE
INVARIANTS NothingLost
PROPERTIES ImplementsLinkedQueue
