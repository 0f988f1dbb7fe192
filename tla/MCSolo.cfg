\* One server: joins, accounts, packs and the cards of a match, each subject one
\* message at a time.
CONSTANTS
  Node = {n1}
  NoNode = NoNode
  MemberID = {n1}
  Op = {o1, o2, o3, o4}
  MatchId = {g0, o1, o2, o3, o4}
  NoMatch = NoMatch
  Key = {}
  Value = {}
  NoValue = NoValue
  Kinds = {"join_game_queue", "create_player", "open_pack", "play_cards"}
  NumPacks = 3
  MaxPlayers = 4
  MaxCard = 1
  Accounts = 2
  FirstMatch = g0
  MaxElections = 0
  MaxRestarts = 0
  Snapshotting = {}
SPECIFICATION Spec
SYMMETRY Symmetry
CHECK_DEADLOCK FALSE
INVARIANT NoJoinLost
INVARIANT UniqueIds
INVARIANT PackOnce
INVARIANT PlayedCardsKept
INVARIANT CounterCoversPlayers
