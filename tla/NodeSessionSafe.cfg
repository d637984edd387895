\* Two connections in a row.
CONSTANTS
  MaxSessions = 2
SPECIFICATION FairSpec
INVARIANTS
  TypeOK
  SessionsApart
PROPERTIES
  SendThreadEnds
  PricesGoOut
  Reconnects
CHECK_DEADLOCK FALSE
