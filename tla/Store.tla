-------------------------------- MODULE Store --------------------------------
(***************************************************************************)
(* The data of the replicated state machine of src/server/API/store.go:    *)
(* the fields of Store that Apply, Snapshot and Restore read and write, the *)
(* command that applyLogInternal marshals, and Apply itself.               *)
(*                                                                         *)
(* Go maps are total functions whose absent keys hold Go's zero value: the *)
(* code only ever reads them with m[k], which returns exactly that.  A     *)
(* pack is known by its number (pack i holds cards 3i-2 .. 3i, module      *)
(* Packs), so the cards of a player are the packs he opened, in order.     *)
(***************************************************************************)
EXTENDS Naturals, Sequences

CONSTANTS
  MemberID,     \* ids of the servers of the cluster
  NumPacks,     \* packs of a new store: 300 in the code, a few in the runs
  MaxPlayers,   \* bound on player ids
  MaxCard,      \* greatest value a client plays
  MatchId,      \* match ids (uuids)
  NoMatch,      \* the empty string as a match id
  Key, Value,   \* keys and values of the key-value API
  NoValue       \* an absent key

ASSUME StoreAssumption ==
  /\ NumPacks \in Nat
  /\ MaxPlayers \in Nat
  /\ MaxCard \in Nat \ {0}
  /\ NoMatch \notin MatchId
  /\ NoValue \notin Value

PlayerId == 0 .. MaxPlayers
Pack == 1 .. NumPacks
Card == 0 .. MaxCard

Player == [Id : PlayerId, Cards : Seq(Pack)]
ZeroPlayer == [Id |-> 0, Cards |-> <<>>]

Match == [SelfId : MatchId \cup {NoMatch},
          P1 : PlayerId, P2 : PlayerId, Card1 : Card, Card2 : Card]
NewMatch(g, p1, p2) ==
  [SelfId |-> g, P1 |-> p1, P2 |-> p2, Card1 |-> 0, Card2 |-> 0]
ZeroMatch == NewMatch(NoMatch, 0, 0)

\* The replicated fields of Store; a snapshot is a copy of all of them.
StoreState ==
  [data         : [Key -> Value \cup {NoValue}],
   members      : SUBSET MemberID,
   players      : [PlayerId -> Player],
   matchHistory : [MatchId \cup {NoMatch} -> Match],
   gameQueue    : Seq(PlayerId),
   Cards        : Seq(Pack),
   count        : PlayerId]

NewStore ==
  [data         |-> [k \in Key |-> NoValue],
   members      |-> {},
   players      |-> [p \in PlayerId |-> ZeroPlayer],
   matchHistory |-> [g \in MatchId \cup {NoMatch} |-> ZeroMatch],
   gameQueue    |-> <<>>,
   Cards        |-> [i \in Pack |-> i],
   count        |-> 0]

Operation ==
  {"set", "delete", "add_member", "remove_member", "create_player",
   "open_pack", "join_game_queue", "create_game", "play_cards"}

\* What Apply decodes.  The slices are tagged omitempty: a nil slice and an
\* empty one are both left out of the JSON and both decoded as nil, so one
\* value <<>> stands for the two.
Command ==
  [Op : Operation, Key : Key \cup {NoValue}, Value : Value \cup {NoValue},
   MemberID : SUBSET MemberID, Count : PlayerId, GameId : Match,
   PlayerID : PlayerId, PlayerCards : Seq(Pack), Cards : Seq(Pack),
   GameQueue : Seq(PlayerId)]

ZeroCommand ==
  [Op |-> "set", Key |-> NoValue, Value |-> NoValue, MemberID |-> {},
   Count |-> 0, GameId |-> ZeroMatch, PlayerID |-> 0, PlayerCards |-> <<>>,
   Cards |-> <<>>, GameQueue |-> <<>>]

-----------------------------------------------------------------------------
\* What one command does to one field, as the switch of Apply does it.

PlayersAfter(s, c) ==
  IF c.Op \in {"create_player", "open_pack"}
  THEN [s.players EXCEPT ![c.PlayerID] =
          [Id |-> c.PlayerID, Cards |-> c.PlayerCards]]
  ELSE s.players

MatchHistoryAfter(s, c) ==
  IF c.Op \in {"create_game", "play_cards"}
  THEN [s.matchHistory EXCEPT ![c.GameId.SelfId] = c.GameId]
  ELSE s.matchHistory

\* Mutation of GameQueueAfter: the wrong number of the command is appended.
GameQueueAfterCount(s, c) ==
  CASE c.Op = "join_game_queue" -> Append(s.gameQueue, c.Count)
    [] c.Op = "create_game"     -> c.GameQueue
    [] OTHER                    -> s.gameQueue

GameQueueAfter(s, c) ==
  CASE c.Op = "join_game_queue" -> Append(s.gameQueue, c.PlayerID)
    [] c.Op = "create_game"     -> c.GameQueue
    [] OTHER                    -> s.gameQueue

\* The deck is replaced only when the command carries one (c.Cards != nil).
CardsAfter(s, c) ==
  IF c.Op = "open_pack" /\ c.Cards # <<>> THEN c.Cards ELSE s.Cards

MembersAfter(s, c) ==
  CASE c.Op = "add_member"    -> s.members \cup c.MemberID
    [] c.Op = "remove_member" -> s.members \ c.MemberID
    [] OTHER                  -> s.members

DataAfter(s, c) ==
  CASE c.Op = "set"    -> [s.data EXCEPT ![c.Key] = c.Value]
    [] c.Op = "delete" -> [s.data EXCEPT ![c.Key] = NoValue]
    [] OTHER           -> s.data

ApplyCommand(s, c) ==
  [data         |-> DataAfter(s, c),
   members      |-> MembersAfter(s, c),
   players      |-> PlayersAfter(s, c),
   matchHistory |-> MatchHistoryAfter(s, c),
   gameQueue    |-> GameQueueAfter(s, c),
   Cards        |-> CardsAfter(s, c),
   count        |-> IF c.Op = "create_player" THEN c.Count ELSE s.count]

\* Mutation of SwapRemove: the last element does not take the place of the one
\* removed.
RemoveLast(deck, i) == SubSeq(deck, 1, Len(deck) - 1)

\* Taking element i of a slice by moving the last one into its place.
SwapRemove(deck, i) ==
  SubSeq([deck EXCEPT ![i] = deck[Len(deck)]], 1, Len(deck) - 1)
=============================================================================
