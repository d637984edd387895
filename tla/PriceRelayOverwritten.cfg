\* Two calls compare with the same price before either stores its own.
CONSTANTS
  n1 = n1
  n2 = n2
  n3 = n3
  Nodes = {n1, n2}
  Generators = {n1, n2}
  Pairs = {p}
  Subscribed <- SubscribedAll
  Handlers = {h1, h2}
  ChanSize = 1
  MaxTime = 2
  None = None
SPECIFICATION OverlapSpec
PROPERTIES
  ControllerNeverOlder
