\* A second request to modify the streams.
CONSTANTS
  Pairs = {p}
  MaxTime = 2
  MaxRequests = 2
  None = None
SPECIFICATION FairSpec
PROPERTIES
  ModifyAnswered
CHECK_DEADLOCK FALSE
