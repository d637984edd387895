\* Calls that are lost or slower than the keep-alive, the clean-up and the pushes,
\* interleaved in every way.
CONSTANTS
  Addresses = {a1, a2}
  KeepAlive = 2
  Latency = 2
  Handlers = {h1, h2}
  Conns = {c1, c2}
  Droppers = {cleanup, push}
  None = None
SPECIFICATION NotedSpec
INVARIANTS
  TypeOK
  NoDeadEntry
  TurnsAreClean
  PunctualIsReachable
SYMMETRY Symmetry
CHECK_DEADLOCK FALSE
