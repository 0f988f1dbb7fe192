\* Two clients and two servers, of which one or both are subscribed.
CONSTANTS
  Client = {c1, c2}
  Server = {s1, s2}
  NoClient = NoClient
  MaxRequests = 3
  MaxFailures = 1
  MaxStale = 1
SPECIFICATION FairSpec
CHECK_DEADLOCK FALSE
INVARIANT TypeOK
INVARIANT AloneNeverMisses
PROPERTY PairServed
