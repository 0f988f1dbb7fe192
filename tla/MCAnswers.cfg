\* Operations that cannot panic, with a change of leader and a restart.
CONSTANTS
  Node = {n1, n2}
  NoNode = NoNode
  MemberID = {n1}
  Op = {o1, o2}
  MatchId = {o1, o2}
  NoMatch = NoMatch
  Key = {k}
  Value = {v}
  NoValue = NoValue
  Kinds = {"create_player", "set", "add_member", "remove_member"}
  NumPacks = 1
  MaxPlayers = 2
  MaxCard = 1
  Accounts = 0
  FirstMatch = NoMatch
  MaxElections = 1
  MaxRestarts = 1
  Snapshotting = {}
SPECIFICATION FairSpec
CHECK_DEADLOCK FALSE
INVARIANT LogDrivenAgreement
PROPERTY RequestsAnswered
