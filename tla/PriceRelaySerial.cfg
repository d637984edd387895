\* Two nodes with prices for each other and one that listens, the controller's
\* calls one at a time.
CONSTANTS
  n1 = n1
  n2 = n2
  n3 = n3
  Nodes = {n1, n2, n3}
  Generators = {n1, n2}
  Pairs = {p}
  Subscribed <- SubscribedAll
  Handlers = {h1}
  ChanSize = 1
  MaxTime = 2
  None = None
SPECIFICATION InStepSpec
INVARIANTS
  PushedInOrder
  NoEcho
  ListenerAgreesSoFar
PROPERTIES
  ControllerNeverOlder
  CallEnds
  ImplementsFeed
