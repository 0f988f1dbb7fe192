\* The bootstrap server, not listed yet, a voter that joined it, and one outside;
\* any of them may stop and come back elsewhere.
CONSTANTS
  s1 = s1
  s2 = s2
  s3 = s3
  a1 = a1
  a2 = a2
  a3 = a3
  free = free
  Server = {s1, s2, s3}
  Boot = s1
  Joined = {s2}
  Addr = {a1, a2, a3, free}
  HomeOf <- Homes
  NoServer = NoServer
  NoAddr = NoAddr
  MaxRequests = 1
  MaxDisruptions = 3
SPECIFICATION FairSpec
CHECK_DEADLOCK FALSE
INVARIANT TypeOK
INVARIANT MembersExplained
PROPERTY LeaderListed
PROPERTY DeadPeerRemoved
