\* Streams of a node that overlap, while another node comes and goes; kicks of both.
CONSTANTS
  c1 = c1
  n1 = n1
  n2 = n2
  s1 = s1
  s2 = s2
  s3 = s3
  Nodes = {n1, n2}
  Streams = {s1, s2, s3}
  NodeOf <- ComesBack
  Clients = {c1}
  None = None
SPECIFICATION NotedSpec
INVARIANTS
  StoredIsServed
  NoThreadLeft
  OrderlyIsRead
CHECK_DEADLOCK FALSE
