\* Counter, inventories, packs that run out, and matches, through a change of
\* leader, a restart and snapshots.
CONSTANTS
  Node = {n1, n2}
  NoNode = NoNode
  MemberID = {n1, n2}
  Op = {o1, o2}
  MatchId = {g0, o1, o2}
  NoMatch = NoMatch
  Key = {}
  Value = {}
  NoValue = NoValue
  Kinds = {"create_player", "open_pack", "play_cards"}
  NumPacks = 1
  MaxPlayers = 3
  MaxCard = 1
  Accounts = 2
  FirstMatch = g0
  MaxElections = 1
  MaxRestarts = 1
  Snapshotting = {n1, n2}
SPECIFICATION Spec
SYMMETRY Symmetry
CHECK_DEADLOCK FALSE
INVARIANT DivergenceExplained
