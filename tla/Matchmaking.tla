----------------------------- MODULE Matchmaking ------------------------------
(***************************************************************************)
(* How waiting clients get a match: RequestFindMatch of                    *)
(* src/client/API/pubsub.go, the callback of topic.findMatch in            *)
(* src/server/API/pubsub.go, and what it calls: JoinQueue, CreateMatch and *)
(* checkMatchmaking.                                                       *)
(*                                                                         *)
(* Every subscribed server handles the message of every client (StartUp    *)
(* shows how a server comes not to be subscribed).  How a command gets     *)
(* into the log and to the servers is GameCluster's subject: here the      *)
(* queue is the leader's, and a follower's view of it may be out of date.  *)
(***************************************************************************)
EXTENDS Integers, Sequences, FiniteSets

CONSTANTS
  Client,
  Server,
  NoClient,
  MaxRequests,  \* bound on requests for a match
  MaxFailures,  \* bound on commands not applied and questions that reach no member
  MaxStale      \* bound on views that are out of date

ASSUME MatchmakingAssumption ==
  /\ IsFiniteSet(Server)
  /\ NoClient \notin Client
  /\ MaxRequests \in Nat
  /\ MaxFailures \in Nat
  /\ MaxStale \in Nat

VARIABLES
  \* The clients.
  client,    \* client[c]: where c is; asking and queued ones listen on topic.matchmaking
  current,   \* current[c]: the request that c waits for, 0 if none
  requests,
  offer,     \* offer[c]: the match that the callback of c was told of
  game,      \* game[c]: the match c plays
  \* The callbacks, one message at a time.
  subscribed, \* the servers that the broker reaches
  inbox,     \* inbox[s]: messages of topic.findMatch
  callback,  \* callback[s]: what the callback of s does next
  replies,   \* replies[r]: published on the inbox of request r
  \* The leader.
  leader,
  queue,     \* gameQueue
  halted,    \* CreateMatch panicked with s.mu held
  \* What the properties relate.
  failures, stale, overfull

clientVars == <<client, current, requests, offer, game>>
serverVars == <<subscribed, inbox, callback, replies>>
leaderVars == <<leader, queue, halted>>
causeVars == <<failures, stale, overfull>>
vars == <<clientVars, serverVars, leaderVars, causeVars>>

Request == 1 .. MaxRequests
NoMatch == <<>>
Idle == [stage |-> "idle", match |-> NoMatch, request |-> 0, who |-> NoClient]

Init ==
  /\ client = [c \in Client |-> "menu"]
  /\ current = [c \in Client |-> 0]
  /\ requests = 0
  /\ offer = [c \in Client |-> NoMatch]
  /\ game = [c \in Client |-> NoMatch]
  /\ subscribed \in SUBSET Server \ {{}}
  /\ inbox = [s \in Server |-> <<>>]
  /\ callback = [s \in Server |-> Idle]
  /\ replies = [r \in Request |-> {}]
  /\ leader \in Server
  /\ queue = <<>>
  /\ halted = FALSE
  /\ failures = 0
  /\ stale = 0
  /\ overfull = FALSE

-----------------------------------------------------------------------------
(* RequestFindMatch.                                                        *)

FindMatch(c) ==
  /\ client[c] = "menu"
  /\ requests < MaxRequests
  /\ requests' = requests + 1
  /\ client' = [client EXCEPT ![c] = "asking"]
  /\ current' = [current EXCEPT ![c] = requests + 1]
  /\ inbox' = [s \in Server |-> IF s \in subscribed
       THEN Append(inbox[s], [request |-> requests + 1, who |-> c]) ELSE inbox[s]]
  /\ UNCHANGED <<offer, game, subscribed, callback, replies, leaderVars, causeVars>>

\* The request of c is over: what comes for it now is dropped.
Over(c) ==
  /\ current' = [current EXCEPT ![c] = 0]
  /\ replies' = [replies EXCEPT ![current[c]] = {}]

\* The first reply decides.  One without an err, and a follower's "null" has
\* none, is taken for a place in the queue.
ReceiveReply(c) ==
  /\ client[c] = "asking"
  /\ \E a \in replies[current[c]] :
       /\ client' = [client EXCEPT ![c] = IF a = "err" THEN "menu" ELSE "queued"]
       /\ offer' = IF a = "err" THEN [offer EXCEPT ![c] = NoMatch] ELSE offer
  /\ Over(c)
  /\ UNCHANGED <<requests, game, subscribed, inbox, callback, leaderVars, causeVars>>

\* After a second; the place in the queue stays.
TimeOut(c) ==
  /\ client[c] = "asking"
  /\ client' = [client EXCEPT ![c] = "menu"]
  /\ offer' = [offer EXCEPT ![c] = NoMatch]
  /\ Over(c)
  /\ UNCHANGED <<requests, game, subscribed, inbox, callback, leaderVars, causeVars>>

\* <-onQueue, and Unsubscribe.
EnterMatch(c) ==
  /\ client[c] = "queued"
  /\ offer[c] # NoMatch
  /\ client' = [client EXCEPT ![c] = "playing"]
  /\ game' = [game EXCEPT ![c] = offer[c]]
  /\ offer' = [offer EXCEPT ![c] = NoMatch]
  /\ UNCHANGED <<current, requests, serverVars, leaderVars, causeVars>>

LeaveMatch(c) ==
  /\ client[c] = "playing"
  /\ client' = [client EXCEPT ![c] = "menu"]
  /\ game' = [game EXCEPT ![c] = NoMatch]
  /\ UNCHANGED <<current, requests, offer, serverVars, leaderVars, causeVars>>

-----------------------------------------------------------------------------
(* The callback.                                                            *)

Goto(s, stage) ==
  callback' = [callback EXCEPT ![s] = IF stage = "idle" THEN Idle ELSE [@ EXCEPT !.stage = stage]]
Publish(s, a) ==
  LET r == callback[s].request IN
  replies' = IF \E c \in Client : current[c] = r
             THEN [replies EXCEPT ![r] = @ \cup {a}] ELSE replies

Take(s) ==
  /\ callback[s].stage = "idle"
  /\ inbox[s] # <<>>
  /\ inbox' = [inbox EXCEPT ![s] = Tail(@)]
  /\ callback' = [callback EXCEPT ![s] =
       [stage |-> "join", match |-> NoMatch,
        request |-> Head(inbox[s]).request, who |-> Head(inbox[s]).who]]
  /\ UNCHANGED <<clientVars, subscribed, replies, leaderVars, causeVars>>

Fail ==
  /\ failures < MaxFailures
  /\ failures' = failures + 1

\* Mutation of JoinQueue: the id of the request is taken for the player's.
JoinQueueRequest(s) ==
  /\ callback[s].stage = "join"
  /\ ~halted
  /\ queue' = Append(queue, callback[s].request)
  /\ Publish(s, "ok")
  /\ Goto(s, "check")
  /\ UNCHANGED <<clientVars, subscribed, inbox, leader, halted, causeVars>>

\* JoinQueue does not look whether the player waits already.
JoinQueue(s) ==
  /\ callback[s].stage = "join"
  /\ ~halted
  /\ queue' = Append(queue, callback[s].who)
  /\ overfull' = (overfull \/ Len(queue) >= 2)
  /\ Publish(s, "ok")
  /\ Goto(s, "check")
  /\ UNCHANGED <<clientVars, subscribed, inbox, leader, halted, failures, stale>>

\* The leader returns, a follower goes on.
JoinFailed(s) ==
  /\ callback[s].stage = "join"
  /\ Fail
  /\ Publish(s, IF s = leader THEN "err" ELSE "null")
  /\ Goto(s, IF s = leader THEN "idle" ELSE "check")
  /\ UNCHANGED <<clientVars, subscribed, inbox, leaderVars, stale, overfull>>

Look(s, two) == Goto(s, IF two THEN "create" ELSE "idle")

\* 100 ms after the join: len(s.gameQueue) == 2.
CheckQueue(s) ==
  /\ callback[s].stage = "check"
  /\ Look(s, Len(queue) = 2)
  /\ UNCHANGED <<clientVars, subscribed, inbox, replies, leaderVars, causeVars>>

\* A follower looks at its own queue.
CheckStaleQueue(s) ==
  /\ callback[s].stage = "check"
  /\ s # leader
  /\ stale < MaxStale
  /\ stale' = stale + 1
  /\ Look(s, Len(queue) # 2)
  /\ UNCHANGED <<clientVars, subscribed, inbox, replies, leaderVars, failures, overfull>>

\* Mutation of CreateMatch: the queue that is left is not computed.
CreateMatchKeeping(s) ==
  /\ callback[s].stage = "create"
  /\ ~halted
  /\ Len(queue) >= 2
  /\ callback' = [callback EXCEPT ![s] =
       [@ EXCEPT !.stage = "ask1", !.match = <<queue[1], queue[2]>>]]
  /\ UNCHANGED <<clientVars, subscribed, inbox, replies, leaderVars, causeVars>>

CreateMatch(s) ==
  /\ callback[s].stage = "create"
  /\ ~halted
  /\ Len(queue) >= 2
  /\ queue' = SubSeq(queue, 3, Len(queue))
  /\ callback' = [callback EXCEPT ![s] =
       [@ EXCEPT !.stage = "ask1", !.match = <<queue[1], queue[2]>>]]
  /\ UNCHANGED <<clientVars, subscribed, inbox, replies, leader, halted, causeVars>>

\* The error is ignored, and the players that are asked are nobody.
CreateMatchFailed(s) ==
  /\ callback[s].stage = "create"
  /\ Len(queue) >= 2
  /\ Fail
  /\ Goto(s, "idle")
  /\ UNCHANGED <<clientVars, subscribed, inbox, replies, leaderVars, stale, overfull>>

\* Fewer than two, since another callback made a match in between.
CreateMatchPanics(s) ==
  /\ callback[s].stage = "create"
  /\ Len(queue) < 2
  /\ halted' = TRUE
  /\ Goto(s, "idle")
  /\ UNCHANGED <<clientVars, subscribed, inbox, replies, leader, queue, causeVars>>

\* Mutation of Ask: the match is told to the players that already know they wait.
AskQueued(s, stage, i, next) ==
  /\ callback[s].stage = stage
  /\ LET p == callback[s].match[i] IN
       offer' = IF client[p] = "queued" THEN [offer EXCEPT ![p] = callback[s].match] ELSE offer
  /\ Goto(s, next)
  /\ UNCHANGED <<client, current, requests, game, subscribed, inbox, replies, leaderVars, causeVars>>

\* checkMatchmaking of the i-th player.  The first match a client is told of
\* counts; one that does not listen is not told, nor anyone when s.members is
\* empty or nobody on it is reached.
Ask(s, stage, i, next) ==
  /\ callback[s].stage = stage
  /\ \/ LET p == callback[s].match[i] IN
          /\ offer' = IF client[p] \in {"asking", "queued"} /\ offer[p] = NoMatch
                      THEN [offer EXCEPT ![p] = callback[s].match] ELSE offer
          /\ UNCHANGED failures
     \/ Fail /\ UNCHANGED offer
  /\ Goto(s, next)
  /\ UNCHANGED <<client, current, requests, game, subscribed, inbox, replies, leaderVars>>
  /\ UNCHANGED <<stale, overfull>>

-----------------------------------------------------------------------------
Callback(s) ==
  \/ Take(s) \/ JoinQueue(s) \/ JoinFailed(s) \/ CheckQueue(s) \/ CheckStaleQueue(s)
  \/ CreateMatch(s) \/ CreateMatchFailed(s) \/ CreateMatchPanics(s)
  \/ Ask(s, "ask1", 1, "ask2") \/ Ask(s, "ask2", 2, "idle")

Next ==
  \/ \E s \in Server : Callback(s)
  \/ \E c \in Client :
       FindMatch(c) \/ ReceiveReply(c) \/ TimeOut(c) \/ EnterMatch(c) \/ LeaveMatch(c)

Spec == Init /\ [][Next]_vars

\* Callbacks run; a client takes what it is sent.
FairSpec ==
  /\ Spec
  /\ \A s \in Server : WF_vars(Callback(s))
  /\ \A c \in Client : WF_vars(ReceiveReply(c) \/ TimeOut(c)) /\ WF_vars(EnterMatch(c))

-----------------------------------------------------------------------------
MatchOrNone == {NoMatch} \cup (Client \X Client)

TypeOK ==
  /\ client \in [Client -> {"menu", "asking", "queued", "playing"}]
  /\ current \in [Client -> 0 .. MaxRequests]
  /\ requests \in 0 .. MaxRequests
  /\ offer \in [Client -> MatchOrNone]
  /\ game \in [Client -> MatchOrNone]
  /\ subscribed \subseteq Server
  /\ inbox \in [Server -> Seq([request : Request, who : Client])]
  /\ callback \in [Server -> [stage : {"idle", "join", "check", "create", "ask1", "ask2"},
                              match : MatchOrNone, request : 0 .. MaxRequests,
                              who : Client \cup {NoClient}]]
  /\ replies \in [Request -> SUBSET {"ok", "err", "null"}]
  /\ leader \in Server
  /\ queue \in Seq(Client)
  /\ halted \in BOOLEAN
  /\ failures \in 0 .. MaxFailures
  /\ stale \in 0 .. MaxStale
  /\ overfull \in BOOLEAN

\* While one server alone is subscribed, be it a follower, its commands are
\* applied and its queue is the leader's: no third player gets into the queue
\* before the two are matched, so the test for exactly two never misses, and no
\* match is made of fewer.  Timeouts, repeated requests and games that end
\* meanwhile do not matter.
AloneNeverMisses ==
  Cardinality(subscribed) = 1 /\ failures = 0 /\ stale = 0 => ~overfull /\ ~halted

\* Two clients wait for each other for good only if a command or a question was
\* lost, the queue once had more than two, a follower looked at an old queue, or
\* the leader panicked.
PairServed ==
  \A pair \in {p \in SUBSET Client : Cardinality(p) = 2} :
    (\A c \in pair : client[c] = "queued")
      ~> ((\E c \in pair : client[c] # "queued")
            \/ failures > 0 \/ overfull \/ stale > 0 \/ halted)
=============================================================================
