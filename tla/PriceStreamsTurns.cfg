\* Handlers that take turns, two nodes that leave, one of them to come back, and
\* two pairs; or handlers that overlap, three nodes that stay and one pair.
CONSTANTS
  n1 = n1
  n2 = n2
  n3 = n3
  s1 = s1
  s2 = s2
  s3 = s3
  s4 = s4
  Nodes = {n1, n2, n3}
  Pairs = {p1, p2}
  Streams = {s1, s2, s3, s4}
  NodeOf <- NodeOfStream
  TurnStreams = {s1, s2, s3}
  StayStreams = {s1, s2, s4}
  StayPairs = {p1}
  MaxPriceStreams = 1
  None = None
SPECIFICATION DisciplineSpec
INVARIANTS
  TurnsCover
  TurnsDoNotPanic
  ListedAsTold
PROPERTIES
  ImplementsAssignment
  RefreshEnds
  KnownGetsStreamed
CHECK_DEADLOCK FALSE
