\* Two clients and one account, on two servers.
CONSTANTS
  Client = {c1, c2}
  Server = {s1, s2}
  NoServer = NoServer
  MaxLogins = 3
  MaxDisruptions = 1
SPECIFICATION Spec
SYMMETRY Symmetry
CHECK_DEADLOCK FALSE
INVARIANT TypeOK
 
