\* Three concurrent executions of joins and matches on two
\* servers, with a change of leader and snapshots.
CONSTANTS
  Node = {n1, n2}
  NoNode = NoNode
  MemberID = {n1, n2}
  Op = {o1, o2, o3}
  MatchId = {o1, o2, o3}
  NoMatch = NoMatch
  Key = {}
  Value = {}
  NoValue = NoValue
  Kinds = {"join_game_queue"}
  NumPacks = 1
  MaxPlayers = 2
  MaxCard = 1
  Accounts = 2
  FirstMatch = NoMatch
  MaxElections = 1
  MaxRestarts = 0
  Snapshotting = {n1, n2}
SPECIFICATION Spec
SYMMETRY Symmetry
CHECK_DEADLOCK FALSE
INVARIANT TypeOK
INVARIANT AckedCommitted
INVARIANT MatchedPlayersJoined
PROPERTY ImplementsReplicatedState
