----------------------------- MODULE ClientGame ------------------------------
(***************************************************************************)
(* Matches as two clients see them, from the start of a match to the       *)
(* result on the screen: menuJogo of src/client/client.go, ManageGame2 and *)
(* SendCards of src/client/API/pubsub.go, the end of ClientJoinGameQueue   *)
(* and ClientPlayCardds of src/server/API/pubsub.go, and                   *)
(* handleSendGameResult and checkGame of src/server/API/server-api.go.     *)
(*                                                                         *)
(* Every server handles the message of every card and may send the results *)
(* of the match, and every member publishes each of them.  What a card is  *)
(* to the log is GameCluster's subject: here a server knows the cards that *)
(* the leader wrote or that it has applied.                                *)
(***************************************************************************)
EXTENDS Integers, Sequences

CONSTANTS
  P1, P2,         \* the players of every match, in their roles
  Server,
  Copies,         \* members, each of which publishes a result that it is sent
  MaxMatches,
  MaxDisruptions  \* bound on changes of leader and results that reach no member

ASSUME ClientGameAssumption ==
  /\ P1 # P2
  /\ Copies \in Nat \ {0}
  /\ MaxMatches \in Nat
  /\ MaxDisruptions \in Nat

Player == {P1, P2}
Match == 1 .. MaxMatches
Card == 1 .. 2

VARIABLES
  \* The servers.
  leader,
  disruptions,
  match,    \* matches created
  ready,    \* ready[m]: the players that answered topic.matchmaking
  settled,  \* settled[m]: the servers are done with those that did not
  card,     \* card[m]: the cards sent, 0 before
  known,    \* known[s][m]: the players whose card s has in matchHistory
  job,      \* job[s][m][p]: the callback of s for the card of p
  \* The clients.
  client,   \* client[p]: where p is
  inbox,    \* inbox[p]: messages of game.server for p that wait for the callback
  holding,  \* holding[p]: the message the callback is about to hand over
  hand,     \* hand[p]: the channel it sends on, "none" when there is no message
  shown,    \* shown[p]: what the games of p showed, in order
  \* What the properties relate.
  sent      \* sent[p]: all messages published for p, in order

serverVars == <<leader, disruptions, match, ready, settled, card, known, job>>
clientVars == <<client, inbox, holding, hand, shown>>
vars == <<serverVars, clientVars, sent>>

NoMessage == [match |-> 0, result |-> "none"]

Init ==
  /\ leader \in Server
  /\ disruptions = 0
  /\ match = 0
  /\ ready = [m \in Match |-> {}]
  /\ settled = [m \in Match |-> FALSE]
  /\ card = [m \in Match |-> [p \in Player |-> 0]]
  /\ known = [s \in Server |-> [m \in Match |-> {}]]
  /\ job = [s \in Server |-> [m \in Match |-> [p \in Player |-> "none"]]]
  /\ client = [p \in Player |-> "menu"]
  /\ inbox = [p \in Player |-> <<>>]
  /\ holding = [p \in Player |-> NoMessage]
  /\ hand = [p \in Player |-> "none"]
  /\ shown = [p \in Player |-> <<>>]
  /\ sent = [p \in Player |-> <<>>]

-----------------------------------------------------------------------------
(* The servers.                                                             *)

Disrupt ==
  /\ disruptions < MaxDisruptions
  /\ disruptions' = disruptions + 1

\* The log of the new leader has every card, its matchHistory may lag.
Elect(s) ==
  /\ Disrupt
  /\ s # leader
  /\ leader' = s
  /\ UNCHANGED <<match, ready, settled, card, known, job, clientVars, sent>>

\* CreateMatch and the two checkMatchmaking.  A player that is still in the
\* queue may have stopped waiting: its request had timed out or been refused.
StartMatch ==
  /\ match < MaxMatches
  /\ \A p \in Player : client[p] = "menu"
  /\ match' = match + 1
  /\ \E present \in SUBSET Player :
       /\ ready' = [ready EXCEPT ![match + 1] = present]
       /\ client' = [p \in Player |-> IF p \in present THEN "choosing" ELSE "menu"]
  /\ UNCHANGED <<leader, disruptions, settled, card, known, job, inbox, holding, hand, shown, sent>>

\* n members publish message v for player p.
Published(q, p, v, n) == [q EXCEPT ![p] = @ \o [i \in 1 .. n |-> v]]

\* How many members a result reaches: none if the leader's s.members is empty, as
\* a founder's is at first, or nobody on it answers in time.
Reached(n) == IF n = 0 THEN Disrupt ELSE UNCHANGED disruptions

\* Mutation of SettleAbsent: the other flag is tested.
SettleAbsentSecond(m) ==
  /\ m <= match
  /\ ~settled[m]
  /\ settled' = [settled EXCEPT ![m] = TRUE]
  /\ \/ /\ P2 \notin ready[m]
        /\ \E n \in 0 .. Copies :
             LET v == [match |-> m, result |-> "win"] IN
             /\ Reached(n)
             /\ inbox' = Published(inbox, P2, v, n)
             /\ sent' = Published(sent, P2, v, n)
     \/ P2 \in ready[m] /\ UNCHANGED <<disruptions, inbox, sent>>
  /\ UNCHANGED <<leader, match, ready, card, known, job, client, holding, hand, shown>>

\* Half a second later: P2 wins when P1 did not answer.  Nothing is done when
\* only P2 did not, nor when a follower's request to the leader fails.
SettleAbsent(m) ==
  /\ m <= match
  /\ ~settled[m]
  /\ settled' = [settled EXCEPT ![m] = TRUE]
  /\ \/ /\ P1 \notin ready[m]
        /\ \E n \in 0 .. Copies :
             LET v == [match |-> m, result |-> "win"] IN
             /\ Reached(n)
             /\ inbox' = Published(inbox, P2, v, n)
             /\ sent' = Published(sent, P2, v, n)
     \/ (P1 \in ready[m] \/ disruptions > 0) /\ UNCHANGED <<disruptions, inbox, sent>>
  /\ UNCHANGED <<leader, match, ready, card, known, job, client, holding, hand, shown>>

\* PlayCard on the leader, called or reached through REST, writes matchHistory
\* before it proposes.  The request fails if no leader is found in time.
PlayCard(s, m, p) ==
  /\ job[s][m][p] = "received"
  /\ \/ known' = [known EXCEPT ![leader][m] = @ \cup {p}]
     \/ disruptions > 0 /\ UNCHANGED known
  /\ job' = [job EXCEPT ![s][m][p] = "sleeping"]
  /\ UNCHANGED <<leader, disruptions, match, ready, settled, card, clientVars, sent>>

\* The FSM of server s applies a play_cards that is in the log.
Apply(s, m, p) ==
  /\ p \notin known[s][m]
  /\ \E t \in Server : p \in known[t][m]
  /\ known' = [known EXCEPT ![s][m] = @ \cup {p}]
  /\ UNCHANGED <<leader, disruptions, match, ready, settled, card, job, clientVars, sent>>

\* The winner according to server s; a card it does not have counts 0.
Card1(s, m) == IF P1 \in known[s][m] THEN card[m][P1] ELSE 0
Card2(s, m) == IF P2 \in known[s][m] THEN card[m][P2] ELSE 0
\* Mutation of ResultOf: equal cards are a draw, a result no client knows.
ResultOfOrDraw(c1, c2, p) ==
  IF c1 = c2 THEN "draw" ELSE IF (c1 > c2) = (p = P1) THEN "win" ELSE "lose"
ResultOf(c1, c2, p) == IF (c1 > c2) = (p = P1) THEN "win" ELSE "lose"

\* Both results, as server s sees them.
SendResults(s, m) ==
  \E n \in 0 .. Copies :
    LET v1 == [match |-> m, result |-> ResultOf(Card1(s, m), Card2(s, m), P1)]
        v2 == [match |-> m, result |-> ResultOf(Card1(s, m), Card2(s, m), P2)]
    IN
    /\ Reached(n)
    /\ inbox' = Published(Published(inbox, P1, v1, n), P2, v2, n)
    /\ sent' = Published(Published(sent, P1, v1, n), P2, v2, n)

\* Mutation of Conclude: one card is enough.
ConcludeEither(s, m, p) ==
  /\ job[s][m][p] = "sleeping"
  /\ job' = [job EXCEPT ![s][m][p] = "over"]
  /\ IF known[s][m] # {} THEN SendResults(leader, m) ELSE UNCHANGED <<disruptions, inbox, sent>>
  /\ UNCHANGED <<leader, match, ready, settled, card, known, client, holding, hand, shown>>

\* Mutation of Conclude: the card that the callback handled is not yet counted.
ConcludeEarly(s, m, p) ==
  /\ job[s][m][p] = "sleeping"
  /\ job' = [job EXCEPT ![s][m][p] = "over"]
  /\ IF known[s][m] \ {p} = Player THEN SendResults(leader, m) ELSE UNCHANGED <<disruptions, inbox, sent>>
  /\ UNCHANGED <<leader, match, ready, settled, card, known, client, holding, hand, shown>>

\* After half a second: a server that has both cards sends the results, a
\* follower by a request to the leader, which does not look for both cards.
Conclude(s, m, p) ==
  /\ job[s][m][p] = "sleeping"
  /\ job' = [job EXCEPT ![s][m][p] = "over"]
  /\ \/ known[s][m] = Player /\ SendResults(leader, m)
     \/ (known[s][m] # Player \/ disruptions > 0) /\ UNCHANGED <<disruptions, inbox, sent>>
  /\ UNCHANGED <<leader, match, ready, settled, card, known, client, holding, hand, shown>>

-----------------------------------------------------------------------------
(* The clients.                                                             *)

\* menuJogo: the player chooses a card and the message reaches every server.
SendCards(p) ==
  /\ client[p] = "choosing"
  /\ \E c \in Card : card' = [card EXCEPT ![match][p] = c]
  /\ job' = [s \in Server |-> [job[s] EXCEPT ![match][p] = "received"]]
  /\ client' = [client EXCEPT ![p] = "cardChan"]
  /\ UNCHANGED <<leader, disruptions, match, ready, settled, known, inbox, holding, hand, shown, sent>>

\* Mutation of TakeMessage: a message nobody waits for is dropped.
TakeMessageOrDrop(p) ==
  /\ hand[p] = "none"
  /\ inbox[p] # <<>>
  /\ inbox' = [inbox EXCEPT ![p] = Tail(@)]
  /\ IF client[p] = "cardChan"
     THEN /\ holding' = [holding EXCEPT ![p] = Head(inbox[p])]
          /\ hand' = [hand EXCEPT ![p] = "cardChan"]
     ELSE UNCHANGED <<holding, hand>>
  /\ UNCHANGED <<serverVars, client, shown, sent>>

\* The callback of game.server takes the next message; it is called for one at a
\* time and sends on channels without a buffer.
TakeMessage(p) ==
  /\ hand[p] = "none"
  /\ inbox[p] # <<>>
  /\ inbox' = [inbox EXCEPT ![p] = Tail(@)]
  /\ holding' = [holding EXCEPT ![p] = Head(inbox[p])]
  /\ hand' = [hand EXCEPT ![p] = "cardChan"]
  /\ UNCHANGED <<serverVars, client, shown, sent>>

\* <-cardChan.
ReceiveCard(p) ==
  /\ client[p] = "cardChan"
  /\ hand[p] = "cardChan"
  /\ client' = [client EXCEPT ![p] = "gameResult"]
  /\ hand' = [hand EXCEPT ![p] = "gameResult"]
  /\ UNCHANGED <<serverVars, inbox, holding, shown, sent>>

\* <-gameResult, and back to the menu.
ReceiveResult(p) ==
  /\ client[p] = "gameResult"
  /\ hand[p] = "gameResult"
  /\ client' = [client EXCEPT ![p] = "menu"]
  /\ hand' = [hand EXCEPT ![p] = "none"]
  /\ holding' = [holding EXCEPT ![p] = NoMessage]
  /\ shown' = [shown EXCEPT ![p] = Append(@, holding[p])]
  /\ UNCHANGED <<serverVars, inbox, sent>>

ServerStep ==
  \/ \E m \in Match : SettleAbsent(m)
  \/ \E s \in Server, m \in Match, p \in Player : PlayCard(s, m, p) \/ Conclude(s, m, p)

ClientStep(p) == TakeMessage(p) \/ ReceiveCard(p) \/ ReceiveResult(p)

Next ==
  \/ StartMatch
  \/ ServerStep
  \/ \E s \in Server : Elect(s) \/ \E m \in Match, p \in Player : Apply(s, m, p)
  \/ \E p \in Player : SendCards(p) \/ ClientStep(p)

Spec == Init /\ [][Next]_vars

\* Callbacks and clients run; players need not choose a card, followers need
\* not catch up.
FairSpec == Spec /\ WF_vars(ServerStep) /\ \A p \in Player : WF_vars(ClientStep(p))

-----------------------------------------------------------------------------
Message == [match : 0 .. MaxMatches, result : {"none", "win", "lose"}]

TypeOK ==
  /\ leader \in Server
  /\ disruptions \in 0 .. MaxDisruptions
  /\ match \in 0 .. MaxMatches
  /\ ready \in [Match -> SUBSET Player]
  /\ settled \in [Match -> BOOLEAN]
  /\ card \in [Match -> [Player -> Card \cup {0}]]
  /\ known \in [Server -> [Match -> SUBSET Player]]
  /\ job \in [Server -> [Match -> [Player -> {"none", "received", "sleeping", "over"}]]]
  /\ client \in [Player -> {"menu", "choosing", "cardChan", "gameResult"}]
  /\ inbox \in [Player -> Seq(Message)]
  /\ holding \in [Player -> Message]
  /\ hand \in [Player -> {"none", "cardChan", "gameResult"}]
  /\ shown \in [Player -> Seq(Message)]
  /\ sent \in [Player -> Seq(Message)]

\* Without a change of leader every result that is published for a match both
\* played is the true one, whichever of the servers sends it and whenever: they
\* all go by the leader's cards.
ResultsTrue ==
  disruptions = 0 =>
    \A p \in Player : \A i \in DOMAIN sent[p] :
      LET m == sent[p][i].match IN
      ready[m] = Player
        => sent[p][i].result = ResultOf(card[m][P1], card[m][P2], p)

\* Of the results published for a client none is lost, doubled or overtaken: what
\* its games showed, what the callback holds and what waits for it are, in this
\* order, all that was published.  So every copy beyond the first waits for the
\* next game, which shows it as its own result.
ShownInOrder ==
  \A p \in Player :
    sent[p] = shown[p] \o (IF hand[p] = "none" THEN <<>> ELSE <<holding[p]>>) \o inbox[p]

\* Two players that both play a card in their first match both see a result,
\* however far the followers lag.  Only if the leader changes meanwhile may no
\* server have both cards when its half second is over, or if a result reaches no
\* member nobody publish it, and then both players wait for good.
FirstMatchEnds ==
  (\A p \in Player : card[1][p] # 0)
    ~> (disruptions > 0 \/ \A p \in Player : Len(shown[p]) > 0)

\* P2 sees a result if it plays against a P1 that no longer waited for a match,
\* unless the leader changes meanwhile or a result reaches no member.  P1 is not
\* told of an absent P2.
AbsenceSettled ==
  (P1 \notin ready[1] /\ card[1][P2] # 0)
    ~> (disruptions > 0 \/ Len(shown[P2]) > 0)
=============================================================================
