\* Two pairs, two requests, two ticks of the clock.
CONSTANTS
  Pairs = {p, q}
  MaxTime = 2
  MaxRequests = 2
  None = None
SPECIFICATION FairSpec
INVARIANTS
  FlagsTruthful
  SentIsStored
PROPERTIES
  NeverOlder
  AskedIsSent
CHECK_DEADLOCK FALSE
