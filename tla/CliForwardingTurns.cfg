\* Two clients, in turn or not, and a node with a reply to the controller.
CONSTANTS
  Clients = {c1, c2}
  Nodes = {n1}
  MaxNotices = 1
  Controller = Controller
  None = None
SPECIFICATION NotedSpec
INVARIANTS
  TypeOK
  StoredIsServed
  TurnsAreRead
  AnswersReachAskers
PROPERTIES
  
  HandlersEnd
CHECK_DEADLOCK FALSE
