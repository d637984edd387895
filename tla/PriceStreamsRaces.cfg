\* A node that comes back, before or after its last stream is cleared away, and
\* another node, their handlers interleaving in every way.
CONSTANTS
  n1 = n1
  n2 = n2
  s1 = s1
  s2 = s2
  s3 = s3
  Nodes = {n1, n2}
  Pairs = {p1}
  Streams = {s1, s2, s3}
  NodeOf <- ComesBack
  MaxPriceStreams = 1
  None = None
SPECIFICATION Spec
INVARIANTS
  TypeOK
  NoPairForgotten
  OnlyAskedForKnown
  LoopAgrees
CHECK_DEADLOCK FALSE
