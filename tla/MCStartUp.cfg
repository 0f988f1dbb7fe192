\* One process, and three servers that may lead: the flag names one, twice over,
\* and only a redirect names the others.
CONSTANTS
  s1 = s1
  s2 = s2
  s3 = s3
  raft1 = raft1
  raft2 = raft2
  raft3 = raft3
  Server = {s1, s2, s3}
  NoServer = NoServer
  Peer = {raft1, raft2, raft3}
  NoPeer = NoPeer
  HostOf <- Hosts
  AddressOf <- Addresses
  PeersFlag <- SamePeerTwice
  MaxDisruptions = 2
SPECIFICATION FairSpec
CHECK_DEADLOCK FALSE
INVARIANT JoinedIsMember
INVARIANT GivesUpExplained
PROPERTY StartEnds
