\* Calls that overlap.
CONSTANTS
  Nodes = {n1, n2}
  Pairs = {p, q}
  Handlers = {h1, h2}
  None = None
SPECIFICATION NotedSpec
INVARIANTS
  OnlyAskedFor
  AnsweredSoFar
SYMMETRY Symmetry
