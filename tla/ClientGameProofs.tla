-------------------------- MODULE ClientGameProofs ---------------------------
(***************************************************************************)
(* Matches as two clients see them, for any number of servers, members,    *)
(* matches and changes of leader: what the order of the results and, under *)
(* one leader, their truth rest on.                                        *)
(***************************************************************************)
EXTENDS ClientGame, SequenceTheorems, TLAPS

\* Servers have callbacks and cards of created matches only, and of the last one
\* only those of players that have chosen: no card changes once it is known.
CardsFinal ==
  \A s \in Server, m \in Match, p \in Player :
    job[s][m][p] # "none" \/ p \in known[s][m]
      => m <= match /\ (m = match => client[p] # "choosing")

\* Results are published for created matches only: ready has been decided.
SentCreated ==
  \A p \in Player : \A i \in DOMAIN sent[p] : sent[p][i].match \in 1 .. match

\* Under the first leader no server is ahead of it.
LeaderFirst ==
  disruptions = 0 =>
    \A s \in Server, m \in Match : known[s][m] \subseteq known[leader][m]

\* The match of message v, if both played it, is over on the leader, and the
\* result is that of its cards.
TrueResult(p, v) ==
  ready[v.match] = Player =>
    /\ known[leader][v.match] = Player
    /\ v.result = ResultOf(card[v.match][P1], card[v.match][P2], p)

AllTrue ==
  disruptions = 0 =>
    \A p \in Player : \A i \in DOMAIN sent[p] : TrueResult(p, sent[p][i])

ResultsInv == TypeOK /\ CardsFinal /\ SentCreated /\ LeaderFirst /\ AllTrue

OrderInv == TypeOK /\ ShownInOrder

-----------------------------------------------------------------------------
(* What is published.                                                       *)

\* Publishing a message n times keeps the queues of messages typed.
LEMMA PublishedTyped ==
  ASSUME NEW q \in [Player -> Seq(Message)], NEW p \in Player,
         NEW v \in Message, NEW n \in 0 .. Copies
  PROVE  Published(q, p, v, n) \in [Player -> Seq(Message)]
<1> DEFINE w == [i \in 1 .. n |-> v]
<1>1. w \in Seq(Message)
  BY ClientGameAssumption
<1>2. q[p] \o w \in Seq(Message)
  BY <1>1, ConcatProperties
<1>3. Published(q, p, v, n) = [q EXCEPT ![p] = q[p] \o w]
  BY DEF Published
<1> HIDE DEF w
<1> QED BY <1>2, <1>3

LEMMA ReachedTyped ==
  ASSUME TypeOK, NEW n, Reached(n)
  PROVE  disruptions' \in 0 .. MaxDisruptions /\ disruptions' >= disruptions
BY ClientGameAssumption DEF Reached, Disrupt, TypeOK

\* The elements of a sequence to which copies of v were appended.
LEMMA AppendedElements ==
  ASSUME NEW s \in Seq(Message), NEW v \in Message, NEW w \in Seq({v})
  PROVE  \A i \in DOMAIN (s \o w) :
           \/ i \in DOMAIN s /\ (s \o w)[i] = s[i]
           \/ (s \o w)[i] = v
<1>1. w \in Seq(Message) /\ s \o w \in Seq(Message)
  <2>1. w \in Seq(Message)
    OBVIOUS
  <2> QED BY <2>1, ConcatProperties
<1>2. /\ DOMAIN (s \o w) = 1 .. Len(s) + Len(w)
      /\ DOMAIN s = 1 .. Len(s)
      /\ Len(s) \in Nat /\ Len(w) \in Nat
      /\ \A i \in 1 .. Len(s) + Len(w) :
           (s \o w)[i] = IF i <= Len(s) THEN s[i] ELSE w[i - Len(s)]
  BY <1>1, ConcatProperties, LenProperties
<1>3. \A j \in 1 .. Len(w) : w[j] = v
  BY ElementOfSeq
<1>4. SUFFICES ASSUME NEW i \in 1 .. Len(s) + Len(w), ~(i <= Len(s))
               PROVE  (s \o w)[i] = v
  BY <1>2
<1>5. i - Len(s) \in 1 .. Len(w)
  BY <1>2, <1>4
<1> QED BY <1>2, <1>3, <1>4, <1>5

\* The results that server s sees, as messages.
ResultFor(s, m, p) ==
  [match |-> m, result |-> ResultOf(Card1(s, m), Card2(s, m), p)]

LEMMA ResultIsMessage ==
  ASSUME NEW m \in Match, NEW p, NEW c1, NEW c2
  PROVE  [match |-> m, result |-> ResultOf(c1, c2, p)] \in Message
<1>1. m \in 0 .. MaxMatches
  BY ClientGameAssumption DEF Match
<1> QED BY <1>1 DEF Message, ResultOf

\* A step that publishes appends to what was published for each player and to
\* what waits for its callback alike: copies of one message v[p], or nothing.
Publishes(v) ==
  /\ inbox' \in [Player -> Seq(Message)]
  /\ sent' \in [Player -> Seq(Message)]
  /\ \A p \in Player : \E w \in Seq({v[p]}) :
       /\ w \in Seq(Message)
       /\ sent'[p] = sent[p] \o w
       /\ inbox'[p] = inbox[p] \o w

LEMMA SendResultsPublishes ==
  ASSUME TypeOK, NEW s \in Server, NEW m \in Match, SendResults(s, m)
  PROVE  Publishes([p \in Player |-> ResultFor(s, m, p)])
<1> DEFINE v1 == ResultFor(s, m, P1)
           v2 == ResultFor(s, m, P2)
<1>1. v1 \in Message /\ v2 \in Message
  BY ResultIsMessage DEF ResultFor
<1>2. PICK n \in 0 .. Copies :
        /\ inbox' = Published(Published(inbox, P1, v1, n), P2, v2, n)
        /\ sent' = Published(Published(sent, P1, v1, n), P2, v2, n)
  BY DEF SendResults, ResultFor
<1>3. P1 \in Player /\ P2 \in Player /\ P1 # P2
  BY ClientGameAssumption DEF Player
<1>4. inbox \in [Player -> Seq(Message)] /\ sent \in [Player -> Seq(Message)]
  BY DEF TypeOK
<1> HIDE DEF v1, v2
<1>5. ASSUME NEW q \in [Player -> Seq(Message)]
      PROVE  /\ Published(Published(q, P1, v1, n), P2, v2, n) \in [Player -> Seq(Message)]
             /\ Published(Published(q, P1, v1, n), P2, v2, n)[P1] = q[P1] \o [i \in 1 .. n |-> v1]
             /\ Published(Published(q, P1, v1, n), P2, v2, n)[P2] = q[P2] \o [i \in 1 .. n |-> v2]
  <2>1. /\ Published(q, P1, v1, n) \in [Player -> Seq(Message)]
        /\ Published(q, P1, v1, n) = [q EXCEPT ![P1] = q[P1] \o [i \in 1 .. n |-> v1]]
    BY <1>1, <1>3, PublishedTyped DEF Published
  <2> DEFINE r == Published(q, P1, v1, n)
  <2> HIDE DEF r
  <2>2. /\ Published(r, P2, v2, n) \in [Player -> Seq(Message)]
        /\ Published(r, P2, v2, n) = [r EXCEPT ![P2] = r[P2] \o [i \in 1 .. n |-> v2]]
    BY <1>1, <1>3, <2>1, PublishedTyped DEF r, Published
  <2>3. r[P1] = q[P1] \o [i \in 1 .. n |-> v1] /\ r[P2] = q[P2]
    BY <1>3, <2>1 DEF r
  <2> QED BY <1>3, <2>1, <2>2, <2>3 DEF r
<1>6. ASSUME NEW v \in Message
      PROVE  [i \in 1 .. n |-> v] \in Seq({v}) /\ [i \in 1 .. n |-> v] \in Seq(Message)
  BY ClientGameAssumption
<1>7. \A p \in Player : \E w \in Seq({ResultFor(s, m, p)}) :
        /\ w \in Seq(Message)
        /\ sent'[p] = sent[p] \o w
        /\ inbox'[p] = inbox[p] \o w
  <2>1. \E w \in Seq({v1}) :
          w \in Seq(Message) /\ sent'[P1] = sent[P1] \o w /\ inbox'[P1] = inbox[P1] \o w
    BY <1>1, <1>2, <1>4, <1>5, <1>6
  <2>2. \E w \in Seq({v2}) :
          w \in Seq(Message) /\ sent'[P2] = sent[P2] \o w /\ inbox'[P2] = inbox[P2] \o w
    BY <1>1, <1>2, <1>4, <1>5, <1>6
  <2> QED BY <2>1, <2>2 DEF v1, v2, Player
<1>8. inbox' \in [Player -> Seq(Message)] /\ sent' \in [Player -> Seq(Message)]
  BY <1>2, <1>4, <1>5
<1> QED BY <1>7, <1>8 DEF Publishes

\* SettleAbsent publishes for P2 only, and only of a match without P1.
LEMMA SettleAbsentPublishes ==
  ASSUME TypeOK, NEW m \in Match, SettleAbsent(m)
  PROVE  \/ P1 \notin ready[m] /\ Publishes([p \in Player |-> [match |-> m, result |-> "win"]])
         \/ UNCHANGED <<inbox, sent>>
<1> DEFINE v == [match |-> m, result |-> "win"]
<1>1. v \in Message
  BY ClientGameAssumption DEF Message, Match
<1>2. P1 \in Player /\ P2 \in Player /\ P1 # P2
  BY ClientGameAssumption DEF Player
<1>3. inbox \in [Player -> Seq(Message)] /\ sent \in [Player -> Seq(Message)]
  BY DEF TypeOK
<1>4. CASE UNCHANGED <<inbox, sent>>
  BY <1>4
<1>5. CASE /\ P1 \notin ready[m]
           /\ \E n \in 0 .. Copies : /\ inbox' = Published(inbox, P2, v, n)
                                     /\ sent' = Published(sent, P2, v, n)
  <2>1. PICK n \in 0 .. Copies : /\ inbox' = Published(inbox, P2, v, n)
                                 /\ sent' = Published(sent, P2, v, n)
    BY <1>5
  <2> DEFINE w == [i \in 1 .. n |-> v]
  <2> HIDE DEF v
  <2>2. w \in Seq({v}) /\ w \in Seq(Message)
    BY <1>1, ClientGameAssumption
  <2>3. /\ inbox' \in [Player -> Seq(Message)]
        /\ sent' \in [Player -> Seq(Message)]
        /\ inbox' = [inbox EXCEPT ![P2] = inbox[P2] \o w]
        /\ sent' = [sent EXCEPT ![P2] = sent[P2] \o w]
    BY <1>1, <1>2, <1>3, <2>1, PublishedTyped DEF Published
  <2> HIDE DEF w
  <2>4. \E u \in Seq({v}) : u \in Seq(Message) /\ sent'[P2] = sent[P2] \o u /\ inbox'[P2] = inbox[P2] \o u
    BY <1>2, <1>3, <2>2, <2>3
  <2>5. \E u \in Seq({v}) : u \in Seq(Message) /\ sent'[P1] = sent[P1] \o u /\ inbox'[P1] = inbox[P1] \o u
    <3>1. sent'[P1] = sent[P1] /\ inbox'[P1] = inbox[P1]
      BY <1>2, <1>3, <2>3
    <3>2. sent[P1] \in Seq(Message) /\ inbox[P1] \in Seq(Message)
      BY <1>2, <1>3
    <3>3. sent[P1] \o <<>> = sent[P1] /\ inbox[P1] \o <<>> = inbox[P1]
      BY <3>2, ConcatEmptySeq
    <3>4. <<>> \in Seq({v}) /\ <<>> \in Seq(Message)
      OBVIOUS
    <3> QED BY <3>1, <3>3, <3>4
  <2>6. \A p \in Player : \E u \in Seq({v}) :
          u \in Seq(Message) /\ sent'[p] = sent[p] \o u /\ inbox'[p] = inbox[p] \o u
    BY <2>4, <2>5 DEF Player
  <2>7. \A p \in Player : [r \in Player |-> v][p] = v
    OBVIOUS
  <2>8. Publishes([p \in Player |-> v])
    BY <2>3, <2>6, <2>7 DEF Publishes
  <2> QED BY <1>5, <2>8 DEF v
<1> QED BY <1>4, <1>5 DEF SettleAbsent

\* Every message of a player was published before, or is the one published now.
LEMMA PublishedElements ==
  ASSUME TypeOK, NEW v \in [Player -> Message], Publishes(v),
         NEW p \in Player, NEW i \in DOMAIN sent'[p]
  PROVE  \/ i \in DOMAIN sent[p] /\ sent'[p][i] = sent[p][i]
         \/ sent'[p][i] = v[p]
<1>1. PICK w \in Seq({v[p]}) : sent'[p] = sent[p] \o w
  BY DEF Publishes
<1>2. sent[p] \in Seq(Message) /\ v[p] \in Message
  BY DEF TypeOK
<1> QED BY <1>1, <1>2, AppendedElements

-----------------------------------------------------------------------------
(* Type correctness.                                                        *)

JobState == {"none", "received", "sleeping", "over"}

\* The type of the messages, apart from what SettleAbsent and Conclude publish.
LEMMA StartMatchTyped ==
  ASSUME TypeOK, StartMatch PROVE TypeOK'
<1>1. PICK present \in SUBSET Player :
        /\ ready' = [ready EXCEPT ![match + 1] = present]
        /\ client' = [p \in Player |-> IF p \in present THEN "choosing" ELSE "menu"]
  BY DEF StartMatch
<1>2. match' \in 0 .. MaxMatches
  BY ClientGameAssumption DEF StartMatch, TypeOK
<1>3. ready' \in [Match -> SUBSET Player]
  BY <1>1 DEF TypeOK
<1>4. client' \in [Player -> {"menu", "choosing", "cardChan", "gameResult"}]
  BY <1>1
<1> QED BY <1>2, <1>3, <1>4 DEF StartMatch, TypeOK

LEMMA ElectTyped ==
  ASSUME TypeOK, NEW s \in Server, Elect(s) PROVE TypeOK'
<1>1. disruptions' \in 0 .. MaxDisruptions
  BY ClientGameAssumption DEF Elect, Disrupt, TypeOK
<1> QED BY <1>1 DEF Elect, TypeOK, clientVars

LEMMA SettleAbsentTyped ==
  ASSUME TypeOK, NEW m \in Match, SettleAbsent(m) PROVE TypeOK'
<1>1. inbox' \in [Player -> Seq(Message)] /\ sent' \in [Player -> Seq(Message)]
  BY SettleAbsentPublishes DEF Publishes, TypeOK
<1>2. settled' \in [Match -> BOOLEAN]
  BY DEF SettleAbsent, TypeOK
<1>3. disruptions' \in 0 .. MaxDisruptions
  BY ReachedTyped DEF SettleAbsent, TypeOK
<1> QED BY <1>1, <1>2, <1>3 DEF SettleAbsent, TypeOK

\* A callback that goes on.
LEMMA JobTyped ==
  ASSUME TypeOK, NEW s \in Server, NEW m \in Match, NEW p \in Player, NEW j \in JobState
  PROVE  [job EXCEPT ![s][m][p] = j] \in [Server -> [Match -> [Player -> JobState]]]
<1>1. job \in [Server -> [Match -> [Player -> JobState]]]
  BY DEF TypeOK, JobState
<1>2. [job[s][m] EXCEPT ![p] = j] \in [Player -> JobState]
  BY <1>1
<1>3. [job[s] EXCEPT ![m] = [job[s][m] EXCEPT ![p] = j]] \in [Match -> [Player -> JobState]]
  BY <1>1, <1>2
<1> QED BY <1>1, <1>3

\* A server that gets to know a card.
LEMMA KnownTyped ==
  ASSUME TypeOK, NEW s \in Server, NEW m \in Match, NEW p \in Player
  PROVE  [known EXCEPT ![s][m] = @ \cup {p}] \in [Server -> [Match -> SUBSET Player]]
<1>1. known[s][m] \cup {p} \in SUBSET Player
  BY DEF TypeOK
<1>2. [known[s] EXCEPT ![m] = @ \cup {p}] \in [Match -> SUBSET Player]
  BY <1>1 DEF TypeOK
<1> QED BY <1>2 DEF TypeOK

LEMMA PlayCardTyped ==
  ASSUME TypeOK, NEW s \in Server, NEW m \in Match, NEW p \in Player, PlayCard(s, m, p)
  PROVE  TypeOK'
<1>1. job' \in [Server -> [Match -> [Player -> JobState]]]
  BY JobTyped DEF PlayCard, JobState
<1>2. known' \in [Server -> [Match -> SUBSET Player]]
  <2>1. leader \in Server
    BY DEF TypeOK
  <2>2. [known EXCEPT ![leader][m] = @ \cup {p}] \in [Server -> [Match -> SUBSET Player]]
    BY <2>1, KnownTyped
  <2> QED BY <2>2 DEF PlayCard, TypeOK
<1> QED BY <1>1, <1>2 DEF PlayCard, TypeOK, JobState, clientVars

LEMMA ApplyTyped ==
  ASSUME TypeOK, NEW s \in Server, NEW m \in Match, NEW p \in Player, Apply(s, m, p)
  PROVE  TypeOK'
<1>1. known' \in [Server -> [Match -> SUBSET Player]]
  BY KnownTyped DEF Apply
<1> QED BY <1>1 DEF Apply, TypeOK, clientVars

LEMMA ConcludeTyped ==
  ASSUME TypeOK, NEW s \in Server, NEW m \in Match, NEW p \in Player, Conclude(s, m, p)
  PROVE  TypeOK'
<1>1. job' \in [Server -> [Match -> [Player -> JobState]]]
  BY JobTyped DEF Conclude, JobState
<1>2. leader \in Server
  BY DEF TypeOK
<1>3. inbox' \in [Player -> Seq(Message)] /\ sent' \in [Player -> Seq(Message)]
  BY <1>2, SendResultsPublishes DEF Conclude, Publishes, TypeOK
<1>4. disruptions' \in 0 .. MaxDisruptions
  <2>1. CASE SendResults(leader, m)
    BY <2>1, ReachedTyped DEF SendResults
  <2>2. CASE UNCHANGED disruptions
    BY <2>2 DEF TypeOK
  <2> QED BY <2>1, <2>2 DEF Conclude
<1> QED BY <1>1, <1>3, <1>4 DEF Conclude, TypeOK, JobState

LEMMA SendCardsTyped ==
  ASSUME TypeOK, NEW p \in Player, SendCards(p) PROVE TypeOK'
<1>1. PICK c \in Card : card' = [card EXCEPT ![match][p] = c]
  BY DEF SendCards
<1>2. card' \in [Match -> [Player -> Card \cup {0}]]
  <2>1. card \in [Match -> [Player -> Card \cup {0}]]
    BY DEF TypeOK
  <2>2. \A m \in Match : [card[m] EXCEPT ![p] = c] \in [Player -> Card \cup {0}]
    BY <2>1
  <2> QED BY <1>1, <2>1, <2>2
<1>3. job' \in [Server -> [Match -> [Player -> JobState]]]
  <2>1. job \in [Server -> [Match -> [Player -> JobState]]]
    BY DEF TypeOK, JobState
  <2>2. ASSUME NEW f \in [Match -> [Player -> JobState]]
        PROVE  [f EXCEPT ![match][p] = "received"] \in [Match -> [Player -> JobState]]
    <3>1. \A m \in Match : [f[m] EXCEPT ![p] = "received"] \in [Player -> JobState]
      BY DEF JobState
    <3> QED BY <3>1
  <2>3. \A s \in Server :
          [job[s] EXCEPT ![match][p] = "received"] \in [Match -> [Player -> JobState]]
    BY <2>1, <2>2
  <2> QED BY <2>3 DEF SendCards
<1>4. client' \in [Player -> {"menu", "choosing", "cardChan", "gameResult"}]
  BY DEF SendCards, TypeOK
<1> QED BY <1>2, <1>3, <1>4 DEF SendCards, TypeOK, JobState

LEMMA ClientStepTyped ==
  ASSUME TypeOK, NEW p \in Player, ClientStep(p) PROVE TypeOK'
<1>1. CASE TakeMessage(p)
  <2>1. Head(inbox[p]) \in Message /\ Tail(inbox[p]) \in Seq(Message)
    BY <1>1, HeadTailProperties DEF TakeMessage, TypeOK
  <2>2. inbox' \in [Player -> Seq(Message)] /\ holding' \in [Player -> Message]
    BY <1>1, <2>1 DEF TakeMessage, TypeOK
  <2>3. hand' \in [Player -> {"none", "cardChan", "gameResult"}]
    BY <1>1 DEF TakeMessage, TypeOK
  <2> QED BY <1>1, <2>2, <2>3 DEF TakeMessage, TypeOK, serverVars
<1>2. CASE ReceiveCard(p)
  <2>1. /\ client' \in [Player -> {"menu", "choosing", "cardChan", "gameResult"}]
        /\ hand' \in [Player -> {"none", "cardChan", "gameResult"}]
    BY <1>2 DEF ReceiveCard, TypeOK
  <2> QED BY <1>2, <2>1 DEF ReceiveCard, TypeOK, serverVars
<1>3. CASE ReceiveResult(p)
  <2>1. NoMessage \in Message
    BY ClientGameAssumption DEF NoMessage, Message
  <2>2. Append(shown[p], holding[p]) \in Seq(Message)
    BY AppendProperties DEF TypeOK
  <2>3. shown' \in [Player -> Seq(Message)] /\ holding' \in [Player -> Message]
    BY <1>3, <2>1, <2>2 DEF ReceiveResult, TypeOK
  <2>4. /\ client' \in [Player -> {"menu", "choosing", "cardChan", "gameResult"}]
        /\ hand' \in [Player -> {"none", "cardChan", "gameResult"}]
    BY <1>3 DEF ReceiveResult, TypeOK
  <2> QED BY <1>3, <2>3, <2>4 DEF ReceiveResult, TypeOK, serverVars
<1> QED BY <1>1, <1>2, <1>3 DEF ClientStep

LEMMA InitTyped == Init => TypeOK
<1> SUFFICES ASSUME Init PROVE TypeOK
  OBVIOUS
<1>1. NoMessage \in Message
  BY ClientGameAssumption DEF NoMessage, Message
<1>2. disruptions \in 0 .. MaxDisruptions /\ match \in 0 .. MaxMatches
  BY ClientGameAssumption DEF Init
<1>3. <<>> \in Seq(Message)
  OBVIOUS
<1> QED BY <1>1, <1>2, <1>3 DEF Init, TypeOK

LEMMA NextTyped == TypeOK /\ [Next]_vars => TypeOK'
<1> SUFFICES ASSUME TypeOK, [Next]_vars PROVE TypeOK'
  OBVIOUS
<1>1. CASE UNCHANGED vars
  BY <1>1 DEF TypeOK, vars, serverVars, clientVars
<1> QED BY <1>1, StartMatchTyped, ElectTyped, SettleAbsentTyped, PlayCardTyped, ApplyTyped,
           ConcludeTyped, SendCardsTyped, ClientStepTyped DEF Next, ServerStep

\* Every reachable state is well typed, whatever the numbers of servers, members
\* and matches: the model of menuJogo, checkGame and SendGameResult never leaves
\* the states that the code has.
THEOREM TypeCorrect == Spec => []TypeOK
BY InitTyped, NextTyped, PTL DEF Spec

-----------------------------------------------------------------------------
(* The order of the results.                                                *)

InHand(p) == IF hand[p] = "none" THEN <<>> ELSE <<holding[p]>>

LEMMA InHandTyped ==
  ASSUME TypeOK, NEW p \in Player PROVE InHand(p) \in Seq(Message)
BY DEF TypeOK, InHand

LEMMA MessagesAssociative ==
  \A a, b, c \in Seq(Message) : (a \o b) \o c = a \o (b \o c)
BY ConcatAssociative

\* What is published is appended at both ends alike.
LEMMA PublishesInOrder ==
  ASSUME TypeOK, ShownInOrder, NEW v, Publishes(v), UNCHANGED <<hand, holding, shown>>
  PROVE  ShownInOrder'
<1> SUFFICES ASSUME NEW p \in Player
             PROVE  sent'[p] = shown[p] \o InHand(p) \o inbox'[p]
  BY DEF ShownInOrder, InHand
<1>1. PICK w \in Seq(Message) : sent'[p] = sent[p] \o w /\ inbox'[p] = inbox[p] \o w
  BY DEF Publishes
<1> DEFINE front == shown[p] \o InHand(p)
<1>2. front \in Seq(Message)
  BY InHandTyped, ConcatProperties DEF TypeOK
<1>3. inbox[p] \in Seq(Message)
  BY DEF TypeOK
<1>4. sent[p] = front \o inbox[p]
  BY DEF ShownInOrder, InHand
<1> HIDE DEF front
<1>5. (front \o inbox[p]) \o w = front \o (inbox[p] \o w)
  BY <1>1, <1>2, <1>3, MessagesAssociative
<1>6. sent'[p] = front \o inbox'[p]
  BY <1>1, <1>4, <1>5
<1> QED BY <1>6 DEF front

\* The callback takes the first message that waits.
LEMMA TakeMessageInOrder ==
  ASSUME TypeOK, ShownInOrder, NEW p \in Player, TakeMessage(p)
  PROVE  ShownInOrder'
<1> DEFINE q == inbox[p]
<1>1. q \in Seq(Message) /\ q # <<>> /\ shown[p] \in Seq(Message)
  BY DEF TypeOK, TakeMessage
<1>2. sent[p] = shown[p] \o <<>> \o q
  BY DEF ShownInOrder, TakeMessage
<1>3. /\ sent' = sent /\ shown' = shown
      /\ inbox'[p] = Tail(q) /\ hand'[p] = "cardChan" /\ holding'[p] = Head(q)
      /\ \A r \in Player \ {p} : /\ inbox'[r] = inbox[r]
                                 /\ hand'[r] = hand[r]
                                 /\ holding'[r] = holding[r]
  BY DEF TakeMessage, TypeOK
<1> HIDE DEF q
<1>4. Head(q) \in Message /\ Tail(q) \in Seq(Message) /\ <<Head(q)>> \in Seq(Message)
  BY <1>1, HeadTailProperties
<1>5. q = <<Head(q)>> \o Tail(q)
  <2> DEFINE u == <<Head(q)>> \o Tail(q)
  <2>1. u \in Seq(Message) /\ Len(u) = 1 + Len(Tail(q)) /\ Len(Tail(q)) = Len(q) - 1
    BY <1>1, <1>4, ConcatProperties, HeadTailProperties
  <2>2. Len(q) \in Nat
    BY <1>1, LenProperties
  <2>3. ASSUME NEW i \in 1 .. Len(q) PROVE q[i] = u[i]
    <3>1. u[i] = IF i <= 1 THEN <<Head(q)>>[i] ELSE Tail(q)[i - 1]
      <4>1. Len(<<Head(q)>>) = 1
        OBVIOUS
      <4> HIDE DEF u
      <4> QED BY <1>4, <2>1, <2>2, <4>1, ConcatProperties DEF u
    <3>2. CASE i = 1
      BY <1>1, <3>1, <3>2
    <3>3. CASE i > 1
      <4>1. i - 1 \in 1 .. Len(Tail(q))
        BY <2>1, <2>2, <3>3
      <4>2. Tail(q)[i - 1] = q[i]
        BY <1>1, <4>1, <2>2, HeadTailProperties
      <4> QED BY <3>1, <3>3, <4>2
    <3> QED BY <2>2, <3>2, <3>3
  <2> HIDE DEF u
  <2>4. Len(q) = Len(u)
    BY <2>1, <2>2
  <2>5. q = u
    BY <1>1, <2>1, <2>3, <2>4, SeqEqual
  <2> QED BY <2>5 DEF u
<1>6. shown[p] \o <<>> = shown[p]
  BY <1>1, ConcatEmptySeq
<1>7. shown[p] \o (<<Head(q)>> \o Tail(q)) = (shown[p] \o <<Head(q)>>) \o Tail(q)
  BY <1>1, <1>4, ConcatAssociative
<1>8. sent'[p] = (shown'[p] \o <<Head(q)>>) \o Tail(q)
  BY <1>2, <1>3, <1>5, <1>6, <1>7
<1> QED BY <1>3, <1>8 DEF ShownInOrder

\* The same message is then handed over on the other channel.
LEMMA ReceiveCardInOrder ==
  ASSUME TypeOK, ShownInOrder, NEW p \in Player, ReceiveCard(p)
  PROVE  ShownInOrder'
<1>1. /\ UNCHANGED <<sent, shown, inbox, holding>>
      /\ \A r \in Player : (hand'[r] = "none") = (hand[r] = "none")
  BY DEF ReceiveCard, TypeOK
<1> QED BY <1>1 DEF ShownInOrder

\* The message on the screen is the one the callback held.
LEMMA ReceiveResultInOrder ==
  ASSUME TypeOK, ShownInOrder, NEW p \in Player, ReceiveResult(p)
  PROVE  ShownInOrder'
<1>1. shown[p] \in Seq(Message) /\ holding[p] \in Message
  BY DEF TypeOK
<1>2. sent[p] = (shown[p] \o <<holding[p]>>) \o inbox[p]
  BY DEF ShownInOrder, ReceiveResult
<1>3. /\ sent' = sent /\ inbox' = inbox
      /\ shown'[p] = Append(shown[p], holding[p]) /\ hand'[p] = "none"
      /\ \A r \in Player \ {p} : /\ shown'[r] = shown[r]
                                 /\ hand'[r] = hand[r]
                                 /\ holding'[r] = holding[r]
  BY DEF ReceiveResult, TypeOK, serverVars
<1>4. Append(shown[p], holding[p]) = shown[p] \o <<holding[p]>>
  BY <1>1, AppendIsConcat
<1>5. Append(shown[p], holding[p]) \o <<>> = Append(shown[p], holding[p])
  BY <1>1, AppendProperties, ConcatEmptySeq
<1>6. sent'[p] = (shown'[p] \o <<>>) \o inbox'[p]
  BY <1>2, <1>3, <1>4, <1>5
<1> QED BY <1>3, <1>6 DEF ShownInOrder

LEMMA InitInOrder == Init => ShownInOrder
<1> SUFFICES ASSUME Init PROVE ShownInOrder
  OBVIOUS
<1>1. <<>> \o <<>> = <<>>
  BY ConcatEmptySeq, EmptySeq
<1> QED BY <1>1 DEF Init, ShownInOrder

LEMMA NextInOrder == TypeOK /\ ShownInOrder /\ [Next]_vars => ShownInOrder'
<1> SUFFICES ASSUME TypeOK, ShownInOrder, [Next]_vars PROVE ShownInOrder'
  OBVIOUS
<1>1. CASE UNCHANGED <<inbox, holding, hand, shown, sent>>
  BY <1>1 DEF ShownInOrder
<1>2. ASSUME NEW m \in Match, SettleAbsent(m) PROVE ShownInOrder'
  <2>1. UNCHANGED <<holding, hand, shown>>
    BY <1>2 DEF SettleAbsent
  <2>2. CASE Publishes([p \in Player |-> [match |-> m, result |-> "win"]])
    BY <2>1, <2>2, PublishesInOrder
  <2> QED BY <1>1, <1>2, <2>1, <2>2, SettleAbsentPublishes
<1>3. ASSUME NEW s \in Server, NEW m \in Match, NEW p \in Player, Conclude(s, m, p)
      PROVE  ShownInOrder'
  <2>1. UNCHANGED <<holding, hand, shown>> /\ leader \in Server
    BY <1>3 DEF Conclude, TypeOK
  <2>2. CASE SendResults(leader, m)
    <3>1. Publishes([r \in Player |-> ResultFor(leader, m, r)])
      BY <2>1, <2>2, SendResultsPublishes
    <3> QED BY <2>1, <3>1, PublishesInOrder
  <2> QED BY <1>1, <1>3, <2>1, <2>2 DEF Conclude
<1>4. ASSUME NEW s \in Server, NEW m \in Match, NEW p \in Player, PlayCard(s, m, p)
      PROVE  ShownInOrder'
  BY <1>1, <1>4 DEF PlayCard, clientVars
<1>5. ASSUME NEW s \in Server, NEW m \in Match, NEW p \in Player, Apply(s, m, p)
      PROVE  ShownInOrder'
  BY <1>1, <1>5 DEF Apply, clientVars
<1>6. ASSUME NEW s \in Server, Elect(s) PROVE ShownInOrder'
  BY <1>1, <1>6 DEF Elect, clientVars
<1>7. ASSUME NEW p \in Player, SendCards(p) PROVE ShownInOrder'
  BY <1>1, <1>7 DEF SendCards
<1>8. CASE StartMatch
  BY <1>1, <1>8 DEF StartMatch
<1>9. CASE UNCHANGED vars
  BY <1>1, <1>9 DEF vars, clientVars
<1> QED BY <1>2, <1>3, <1>4, <1>5, <1>6, <1>7, <1>8, <1>9, TakeMessageInOrder,
           ReceiveCardInOrder, ReceiveResultInOrder DEF Next, ServerStep, ClientStep

\* However many members publish a result and whenever, no client loses, doubles
\* or reorders one between the callback, the two channels and the screen
\* (ManageGame2 and menuJogo).
THEOREM ShownInOrderCorrect == Spec => []ShownInOrder
<1>1. Init => OrderInv
  BY InitTyped, InitInOrder DEF OrderInv
<1>2. OrderInv /\ [Next]_vars => OrderInv'
  BY NextTyped, NextInOrder DEF OrderInv
<1> QED BY <1>1, <1>2, PTL DEF Spec, OrderInv

-----------------------------------------------------------------------------
(* The truth of the results.                                                *)

\* A step after which a server has a callback or a card only where one had it
\* before, and nobody starts to choose.
LEMMA CardsFinalKept ==
  ASSUME CardsFinal, match' = match,
         \A p \in Player : client'[p] = "choosing" => client[p] = "choosing",
         \A s \in Server, m \in Match, p \in Player :
           job'[s][m][p] # "none" \/ p \in known'[s][m]
             => \E t \in Server : job[t][m][p] # "none" \/ p \in known[t][m]
  PROVE  CardsFinal'
BY DEF CardsFinal

LEMMA StartMatchFinal ==
  ASSUME TypeOK, CardsFinal, StartMatch PROVE CardsFinal'
<1> SUFFICES ASSUME NEW s \in Server, NEW m \in Match, NEW p \in Player,
                    job[s][m][p] # "none" \/ p \in known[s][m]
             PROVE  m <= match' /\ m # match'
  BY DEF StartMatch, CardsFinal
<1>1. m <= match
  BY DEF CardsFinal
<1> QED BY <1>1, ClientGameAssumption DEF StartMatch, TypeOK, Match

\* A callback that exists goes on.
LEMMA JobGoesOn ==
  ASSUME TypeOK, NEW s \in Server, NEW m \in Match, NEW p \in Player, NEW j \in JobState,
         job[s][m][p] # "none", job' = [job EXCEPT ![s][m][p] = j]
  PROVE  \A t \in Server, k \in Match, q \in Player :
           job'[t][k][q] # "none" => job[t][k][q] # "none"
BY DEF TypeOK

\* PlayCard gives one card at most, to the leader.
LEMMA PlayCardKnown ==
  ASSUME TypeOK, NEW s \in Server, NEW m \in Match, NEW p \in Player, PlayCard(s, m, p)
  PROVE  \A t \in Server, k \in Match :
           \/ known'[t][k] = known[t][k]
           \/ t = leader /\ k = m /\ known'[t][k] = known[t][k] \cup {p}
<1>1. known \in [Server -> [Match -> SUBSET Player]] /\ leader \in Server
  BY DEF TypeOK
<1>2. CASE known' = [known EXCEPT ![leader][m] = @ \cup {p}]
  BY <1>1, <1>2
<1>3. CASE known' = known
  BY <1>3
<1> QED BY <1>2, <1>3 DEF PlayCard

LEMMA PlayCardFinal ==
  ASSUME TypeOK, CardsFinal, NEW s \in Server, NEW m \in Match, NEW p \in Player,
         PlayCard(s, m, p)
  PROVE  CardsFinal'
<1>1. \A t \in Server, k \in Match, q \in Player :
        job'[t][k][q] # "none" => job[t][k][q] # "none"
  BY JobGoesOn DEF PlayCard, JobState
<1>2. \A t \in Server, k \in Match, q \in Player :
        q \in known'[t][k] => q \in known[t][k] \/ (k = m /\ q = p)
  BY PlayCardKnown
<1>3. job[s][m][p] # "none"
  BY DEF PlayCard
<1>4. match' = match /\ client' = client
  BY DEF PlayCard, clientVars
<1> QED BY <1>1, <1>2, <1>3, <1>4, CardsFinalKept

LEMMA ApplyFinal ==
  ASSUME TypeOK, CardsFinal, NEW s \in Server, NEW m \in Match, NEW p \in Player,
         Apply(s, m, p)
  PROVE  CardsFinal'
<1>1. \A t \in Server, k \in Match, q \in Player :
        q \in known'[t][k] => q \in known[t][k] \/ (k = m /\ q = p)
  BY DEF Apply, TypeOK
<1>2. \E t \in Server : p \in known[t][m]
  BY DEF Apply
<1>3. match' = match /\ client' = client /\ job' = job
  BY DEF Apply, clientVars
<1> QED BY <1>1, <1>2, <1>3, CardsFinalKept

\* The card that is played is that of the last match, and its player has chosen.
LEMMA SendCardsFinal ==
  ASSUME TypeOK, CardsFinal, NEW p \in Player, SendCards(p) PROVE CardsFinal'
<1>1. ASSUME NEW s \in Server, NEW m \in Match, NEW q \in Player, ~(m = match /\ q = p)
      PROVE  job'[s][m][q] = job[s][m][q]
  BY <1>1 DEF SendCards, TypeOK
<1>2. known' = known /\ match' = match /\ match \in 0 .. MaxMatches
  BY DEF SendCards, TypeOK
<1>3. /\ client'[p] = "cardChan"
      /\ \A q \in Player \ {p} : client'[q] = client[q]
  BY DEF SendCards, TypeOK
<1> SUFFICES ASSUME NEW s \in Server, NEW m \in Match, NEW q \in Player,
                    job'[s][m][q] # "none" \/ q \in known'[s][m]
             PROVE  m <= match /\ (m = match => client'[q] # "choosing")
  BY <1>2 DEF CardsFinal
<1>4. CASE m = match /\ q = p
  BY <1>3, <1>4, ClientGameAssumption DEF Match
<1>5. CASE ~(m = match /\ q = p)
  BY <1>1, <1>2, <1>3, <1>5 DEF CardsFinal
<1> QED BY <1>4, <1>5

LEMMA NextFinal == TypeOK /\ CardsFinal /\ [Next]_vars => CardsFinal'
<1> SUFFICES ASSUME TypeOK, CardsFinal, [Next]_vars PROVE CardsFinal'
  OBVIOUS
<1>1. CASE UNCHANGED <<match, client, job, known>>
  BY <1>1 DEF CardsFinal
<1>2. ASSUME NEW m \in Match, SettleAbsent(m) PROVE CardsFinal'
  BY <1>1, <1>2 DEF SettleAbsent
<1>3. ASSUME NEW s \in Server, NEW m \in Match, NEW p \in Player, Conclude(s, m, p)
      PROVE  CardsFinal'
  <2>1. \A t \in Server, k \in Match, q \in Player :
          job'[t][k][q] # "none" => job[t][k][q] # "none"
    BY <1>3, JobGoesOn DEF Conclude, JobState
  <2>2. match' = match /\ client' = client /\ known' = known
    BY <1>3 DEF Conclude
  <2> QED BY <2>1, <2>2, CardsFinalKept
<1>4. ASSUME NEW s \in Server, Elect(s) PROVE CardsFinal'
  BY <1>1, <1>4 DEF Elect, clientVars
<1>5. ASSUME NEW p \in Player, ClientStep(p) PROVE CardsFinal'
  <2>1. match' = match /\ job' = job /\ known' = known
    BY <1>5 DEF ClientStep, TakeMessage, ReceiveCard, ReceiveResult, serverVars
  <2>2. \A q \in Player : client'[q] = "choosing" => client[q] = "choosing"
    BY <1>5 DEF ClientStep, TakeMessage, ReceiveCard, ReceiveResult, TypeOK
  <2> QED BY <2>1, <2>2, CardsFinalKept
<1>6. CASE UNCHANGED vars
  BY <1>1, <1>6 DEF vars, serverVars, clientVars
<1> QED BY <1>2, <1>3, <1>4, <1>5, <1>6, StartMatchFinal, PlayCardFinal, ApplyFinal,
           SendCardsFinal DEF Next, ServerStep

\* Every step but SettleAbsent and Conclude leaves the published messages alone.
LEMMA SentUnchanged ==
  ASSUME [Next]_vars,
         \A m \in Match : ~SettleAbsent(m),
         \A s \in Server, m \in Match, p \in Player : ~Conclude(s, m, p)
  PROVE  sent' = sent
BY DEF Next, ServerStep, StartMatch, PlayCard, Elect, Apply, SendCards, ClientStep,
       TakeMessage, ReceiveCard, ReceiveResult, vars, clientVars

LEMMA WinIsMessage ==
  ASSUME NEW m \in Match
  PROVE  [p \in Player |-> [match |-> m, result |-> "win"]] \in [Player -> Message]
BY ClientGameAssumption DEF Message, Match

LEMMA ResultsAreMessages ==
  ASSUME NEW s \in Server, NEW m \in Match
  PROVE  [p \in Player |-> ResultFor(s, m, p)] \in [Player -> Message]
BY ResultIsMessage DEF ResultFor

\* A step that publishes messages v for a created match.
LEMMA PublishesCreated ==
  ASSUME TypeOK, SentCreated, match' = match,
         NEW v \in [Player -> Message], Publishes(v),
         \A p \in Player : v[p].match \in 1 .. match
  PROVE  SentCreated'
BY PublishedElements DEF SentCreated

LEMMA NextCreated ==
  TypeOK /\ CardsFinal /\ SentCreated /\ [Next]_vars => SentCreated'
<1> SUFFICES ASSUME TypeOK, CardsFinal, SentCreated, [Next]_vars PROVE SentCreated'
  OBVIOUS
<1>1. CASE sent' = sent
  <2>1. match \in Int
    BY ClientGameAssumption DEF TypeOK
  <2>2. match' = match \/ match' = match + 1
    BY DEF Next, ServerStep, StartMatch, SettleAbsent, Conclude, PlayCard, Elect, Apply,
       SendCards, ClientStep, TakeMessage, ReceiveCard, ReceiveResult, vars, serverVars
  <2> QED BY <1>1, <2>1, <2>2 DEF SentCreated
<1>2. ASSUME NEW m \in Match, SettleAbsent(m) PROVE SentCreated'
  <2>1. m \in 1 .. match /\ match' = match
    BY <1>2, ClientGameAssumption DEF SettleAbsent, TypeOK, Match
  <2>2. CASE Publishes([p \in Player |-> [match |-> m, result |-> "win"]])
    BY <2>1, <2>2, WinIsMessage, PublishesCreated
  <2> QED BY <1>1, <1>2, <2>2, SettleAbsentPublishes
<1>3. ASSUME NEW s \in Server, NEW m \in Match, NEW p \in Player, Conclude(s, m, p)
      PROVE  SentCreated'
  <2>1. m <= match /\ match' = match /\ leader \in Server
    BY <1>3 DEF Conclude, CardsFinal, TypeOK
  <2>2. m \in 1 .. match
    BY <2>1, ClientGameAssumption DEF TypeOK, Match
  <2>3. CASE SendResults(leader, m)
    <3>1. Publishes([r \in Player |-> ResultFor(leader, m, r)])
      BY <2>1, <2>3, SendResultsPublishes
    <3>2. \A r \in Player : ResultFor(leader, m, r).match = m
      BY DEF ResultFor
    <3> QED BY <2>1, <2>2, <3>1, <3>2, ResultsAreMessages, PublishesCreated
  <2> QED BY <1>1, <1>3, <2>3 DEF Conclude
<1> QED BY <1>1, <1>2, <1>3, SentUnchanged

\* Where nothing was disrupted nothing was before, and the leader is the same.
LEMMA DisruptionsStay ==
  ASSUME TypeOK, [Next]_vars, disruptions' = 0
  PROVE  disruptions = 0 /\ leader' = leader
<1>1. disruptions \in Nat
  BY ClientGameAssumption DEF TypeOK
<1>2. ~Disrupt
  BY <1>1 DEF Disrupt
<1>3. ASSUME NEW n, Reached(n) PROVE disruptions' = disruptions
  BY <1>2, <1>3 DEF Reached
<1>4. ASSUME NEW m \in Match, SettleAbsent(m)
      PROVE  disruptions' = disruptions /\ leader' = leader
  BY <1>3, <1>4 DEF SettleAbsent
<1>5. ASSUME NEW s \in Server, NEW m \in Match, NEW p \in Player, Conclude(s, m, p)
      PROVE  disruptions' = disruptions /\ leader' = leader
  BY <1>3, <1>5 DEF Conclude, SendResults
<1>6. ASSUME NEW s \in Server PROVE ~Elect(s)
  BY <1>2 DEF Elect
<1> QED
  BY <1>4, <1>5, <1>6 DEF Next, ServerStep, StartMatch, PlayCard, Apply, SendCards,
     ClientStep, TakeMessage, ReceiveCard, ReceiveResult, vars, serverVars

\* A server learns cards from the leader's list or from a server that has them.
LEMMA NextLeaderFirst ==
  TypeOK /\ LeaderFirst /\ [Next]_vars => LeaderFirst'
<1> SUFFICES ASSUME TypeOK, LeaderFirst, [Next]_vars, disruptions' = 0,
                    NEW r \in Server, NEW k \in Match
             PROVE  known'[r][k] \subseteq known'[leader'][k]
  BY DEF LeaderFirst
<1>2. disruptions = 0 /\ leader' = leader
  BY DisruptionsStay
<1>1. ASSUME NEW s \in Server PROVE ~Elect(s)
  BY <1>2, ClientGameAssumption DEF Elect, Disrupt
<1>3. known[r][k] \subseteq known[leader][k] /\ leader \in Server
  BY <1>2 DEF LeaderFirst, TypeOK
<1>4. CASE known' = known
  BY <1>2, <1>3, <1>4
<1>5. ASSUME NEW s \in Server, NEW m \in Match, NEW p \in Player, PlayCard(s, m, p)
      PROVE  known'[r][k] \subseteq known'[leader'][k]
  BY <1>2, <1>3, <1>5, PlayCardKnown
<1>6. ASSUME NEW s \in Server, NEW m \in Match, NEW p \in Player, Apply(s, m, p)
      PROVE  known'[r][k] \subseteq known'[leader'][k]
  <2>1. p \in known[leader][m]
    BY <1>2, <1>6 DEF Apply, LeaderFirst
  <2> QED BY <1>2, <1>3, <1>6, <2>1 DEF Apply, TypeOK
<1> QED BY <1>1, <1>4, <1>5, <1>6 DEF Next, ServerStep, StartMatch, SettleAbsent, Conclude,
     SendCards, ClientStep, TakeMessage, ReceiveCard, ReceiveResult, vars, serverVars

\* What is true of a published message stays true under one leader: neither its
\* cards nor the answers to its match change any more.
LEMMA ReadyKept ==
  ASSUME TypeOK, [Next]_vars, NEW k \in Match, k <= match PROVE ready'[k] = ready[k]
<1>1. CASE StartMatch
  <2>1. k # match + 1
    BY ClientGameAssumption DEF TypeOK, Match
  <2> QED BY <1>1, <2>1 DEF StartMatch, TypeOK
<1>2. CASE ready' = ready
  BY <1>2
<1> QED BY <1>1, <1>2 DEF Next, ServerStep, SettleAbsent, Conclude, PlayCard, Elect, Apply,
     SendCards, ClientStep, TakeMessage, ReceiveCard, ReceiveResult, vars, serverVars

LEMMA CardKept ==
  ASSUME TypeOK, CardsFinal, [Next]_vars, NEW s \in Server, NEW k \in Match,
         NEW p \in Player, p \in known[s][k]
  PROVE  card'[k][p] = card[k][p]
<1>1. ASSUME NEW q \in Player, SendCards(q) PROVE card'[k][p] = card[k][p]
  <2>1. ~(k = match /\ p = q)
    BY <1>1 DEF CardsFinal, SendCards
  <2> QED BY <1>1, <2>1 DEF SendCards, TypeOK
<1>2. CASE card' = card
  BY <1>2
<1> QED BY <1>1, <1>2 DEF Next, ServerStep, StartMatch, SettleAbsent, Conclude, PlayCard, Elect,
     Apply, ClientStep, TakeMessage, ReceiveCard, ReceiveResult, vars, serverVars

\* No server forgets a card.
LEMMA KnownKept ==
  ASSUME TypeOK, [Next]_vars, NEW s \in Server, NEW k \in Match
  PROVE  known[s][k] \subseteq known'[s][k]
<1>1. ASSUME NEW t \in Server, NEW m \in Match, NEW p \in Player, PlayCard(t, m, p)
      PROVE  known[s][k] \subseteq known'[s][k]
  BY <1>1, PlayCardKnown
<1>2. ASSUME NEW t \in Server, NEW m \in Match, NEW p \in Player, Apply(t, m, p)
      PROVE  known[s][k] \subseteq known'[s][k]
  BY <1>2 DEF Apply, TypeOK
<1>3. CASE known' = known
  BY <1>3
<1> QED BY <1>1, <1>2, <1>3 DEF Next, ServerStep, StartMatch, SettleAbsent, Conclude, Elect,
     SendCards, ClientStep, TakeMessage, ReceiveCard, ReceiveResult, vars, serverVars

LEMMA TrueResultKept ==
  ASSUME TypeOK, TypeOK', CardsFinal, [Next]_vars, leader' = leader,
         NEW p \in Player, NEW u \in Message, u.match \in 1 .. match, TrueResult(p, u)
  PROVE  TrueResult(p, u)'
<1>1. u.match \in Match /\ u.match <= match
  BY ClientGameAssumption DEF TypeOK, Match
<1>2. SUFFICES ASSUME ready[u.match] = Player
      PROVE  /\ known'[leader][u.match] = Player
             /\ u.result = ResultOf(card'[u.match][P1], card'[u.match][P2], p)
  BY <1>1, ReadyKept DEF TrueResult
<1>3. /\ known[leader][u.match] = Player
      /\ u.result = ResultOf(card[u.match][P1], card[u.match][P2], p)
      /\ leader \in Server
  BY <1>2 DEF TrueResult, TypeOK
<1>4. known'[leader][u.match] = Player
  <2>1. known[leader][u.match] \subseteq known'[leader][u.match]
    BY <1>1, <1>3, KnownKept
  <2>2. known'[leader][u.match] \subseteq Player
    BY <1>1, <1>3 DEF TypeOK
  <2> QED BY <1>3, <2>1, <2>2
<1>5. \A r \in Player : card'[u.match][r] = card[u.match][r]
  BY <1>1, <1>3, CardKept
<1> QED BY <1>3, <1>4, <1>5 DEF Player

\* Of a step that publishes v: what is new is true.
LEMMA PublishesTrue ==
  ASSUME TypeOK, TypeOK', CardsFinal, SentCreated, AllTrue, [Next]_vars,
         disruptions = 0, leader' = leader,
         NEW v \in [Player -> Message], Publishes(v),
         \A p \in Player : TrueResult(p, v[p])'
  PROVE  AllTrue'
<1> SUFFICES ASSUME NEW p \in Player, NEW i \in DOMAIN sent'[p]
             PROVE  TrueResult(p, sent[p][i])'
  BY DEF AllTrue
<1>1. CASE i \in DOMAIN sent[p] /\ sent'[p][i] = sent[p][i]
  <2>1. PICK u \in Message : u = sent[p][i]
    BY <1>1, ElementOfSeq DEF TypeOK
  <2>2. u.match \in 1 .. match /\ TrueResult(p, u)
    BY <1>1, <2>1 DEF SentCreated, AllTrue
  <2>3. TrueResult(p, u)'
    BY <2>2, TrueResultKept
  <2> QED BY <1>1, <2>1, <2>3 DEF TrueResult
<1>2. CASE sent'[p][i] = v[p]
  BY <1>2 DEF TrueResult
<1> QED BY <1>1, <1>2, PublishedElements

LEMMA NextTrue == ResultsInv /\ [Next]_vars => AllTrue'
<1> SUFFICES ASSUME TypeOK, CardsFinal, SentCreated, LeaderFirst, AllTrue, [Next]_vars,
                    disruptions' = 0
             PROVE  AllTrue'
  BY DEF ResultsInv, AllTrue
<1>2. disruptions = 0 /\ leader' = leader /\ leader \in Server
  BY DisruptionsStay DEF TypeOK
<1>3. TypeOK'
  BY NextTyped
<1>4. CASE sent' = sent
  <2> SUFFICES ASSUME NEW p \in Player, NEW i \in DOMAIN sent[p]
               PROVE  TrueResult(p, sent[p][i])'
    BY <1>4 DEF AllTrue
  <2>1. PICK u \in Message : u = sent[p][i]
    BY ElementOfSeq DEF TypeOK
  <2>2. u.match \in 1 .. match /\ TrueResult(p, u)
    BY <1>2, <2>1 DEF SentCreated, AllTrue
  <2>3. TrueResult(p, u)'
    BY <1>2, <1>3, <2>2, TrueResultKept
  <2> QED BY <1>4, <2>1, <2>3 DEF TrueResult
<1>5. ASSUME NEW m \in Match, SettleAbsent(m) PROVE AllTrue'
  <2>1. CASE /\ P1 \notin ready[m]
             /\ Publishes([p \in Player |-> [match |-> m, result |-> "win"]])
    <3>1. ready'[m] # Player
      BY <1>5, <2>1 DEF SettleAbsent, Player
    <3>2. \A p \in Player : TrueResult(p, [match |-> m, result |-> "win"])'
      BY <3>1 DEF TrueResult
    <3> QED BY <1>2, <1>3, <2>1, <3>2, WinIsMessage, PublishesTrue DEF TrueResult
  <2> QED BY <1>4, <1>5, <2>1, SettleAbsentPublishes
<1>6. ASSUME NEW s \in Server, NEW m \in Match, NEW p \in Player, Conclude(s, m, p)
      PROVE  AllTrue'
  <2>1. CASE known[s][m] = Player /\ SendResults(leader, m)
    <3>1. known[leader][m] = Player
      <4>1. known[s][m] \subseteq known[leader][m]
        BY <1>2 DEF LeaderFirst
      <4>2. known[leader][m] \subseteq Player
        BY <1>2 DEF TypeOK
      <4> QED BY <2>1, <4>1, <4>2
    <3>2. known' = known /\ card' = card
      BY <1>6 DEF Conclude
    <3>3. PICK v \in [Player -> Message] : v = [r \in Player |-> ResultFor(leader, m, r)]
      BY <1>2, ResultsAreMessages
    <3>4. \A r \in Player :
            v[r] = [match |-> m, result |-> ResultOf(card[m][P1], card[m][P2], r)]
      BY <3>1, <3>3, ClientGameAssumption DEF ResultFor, Card1, Card2, Player
    <3>5. \A r \in Player : TrueResult(r, v[r])'
      BY <1>2, <3>1, <3>2, <3>4 DEF TrueResult
    <3>6. Publishes(v)
      BY <1>2, <2>1, <3>3, SendResultsPublishes
    <3> QED BY <1>2, <1>3, <3>5, <3>6, PublishesTrue
  <2> QED BY <1>2, <1>4, <1>6, <2>1 DEF Conclude
<1> QED BY <1>4, <1>5, <1>6, SentUnchanged

LEMMA InitResults == Init => ResultsInv
<1> SUFFICES ASSUME Init PROVE ResultsInv
  OBVIOUS
<1>1. CardsFinal /\ LeaderFirst
  BY DEF Init, CardsFinal, LeaderFirst
<1>2. \A p \in Player : DOMAIN sent[p] = {}
  BY DEF Init
<1>3. SentCreated /\ AllTrue
  BY <1>2 DEF SentCreated, AllTrue
<1> QED BY <1>1, <1>3, InitTyped DEF ResultsInv

\* While the leader does not change, no server sends a result that the cards of a
\* match both played do not give, however late its callback asks and however far
\* it lags (checkGame and handleSendGameResult).
THEOREM ResultsTrueCorrect == Spec => []ResultsTrue
<1>1. ResultsInv /\ [Next]_vars => ResultsInv'
  BY NextTyped, NextFinal, NextCreated, NextLeaderFirst, NextTrue DEF ResultsInv
<1>2. ResultsInv => ResultsTrue
  BY DEF ResultsInv, AllTrue, TrueResult, ResultsTrue
<1> QED BY <1>1, <1>2, InitResults, PTL DEF Spec
=============================================================================
