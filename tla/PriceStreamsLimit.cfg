\* Two handlers count the nodes of a pair before either adds one.
CONSTANTS
  n1 = n1
  n2 = n2
  s1 = s1
  s2 = s2
  s3 = s3
  Nodes = {n1, n2}
  Pairs = {p1}
  Streams = {s1, s2}
  NodeOf <- TwoNodes
  MaxPriceStreams = 1
  None = None
SPECIFICATION Spec
INVARIANTS
  AtMostMax
CHECK_DEADLOCK FALSE
