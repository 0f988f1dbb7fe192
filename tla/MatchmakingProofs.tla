-------------------------- MODULE MatchmakingProofs --------------------------
(* The server that alone hears the clients never misses two that wait.       *)
EXTENDS Matchmaking, FiniteSetTheorems, TLAPS

\* What a callback may become.
Stage == {"idle", "join", "check", "create", "ask1", "ask2"}
CallbackType ==
  [stage : Stage, match : MatchOrNone, request : 0 .. MaxRequests,
   who : Client \cup {NoClient}]
Busy(cb) ==
  /\ cb.stage # "idle" => cb.request \in Request /\ cb.who \in Client
  /\ cb.stage \in {"ask1", "ask2"} => cb.match \in Client \X Client

\* A callback at work has a message, and when it asks the players, a match.
CallbackBusy == \A s \in Server : Busy(callback[s])

TypeInv == TypeOK /\ CallbackBusy

LEMMA TypeInit == Init => TypeInv
<1> SUFFICES ASSUME Init PROVE TypeInv
  OBVIOUS
<1> USE MatchmakingAssumption
<1>1. callback \in [Server -> CallbackType]
  BY DEF Init, Idle, MatchOrNone, CallbackType, Stage
<1>2. CallbackBusy
  BY DEF Init, Idle, CallbackBusy, Busy
<1>3. client \in [Client -> {"menu", "asking", "queued", "playing"}]
  BY DEF Init
<1>4. queue \in Seq(Client) /\ inbox \in [Server -> Seq([request : Request, who : Client])]
  BY DEF Init
<1>5. offer \in [Client -> MatchOrNone] /\ game \in [Client -> MatchOrNone]
  BY DEF Init, MatchOrNone
<1>6. /\ requests \in 0 .. MaxRequests /\ current \in [Client -> 0 .. MaxRequests]
      /\ failures \in 0 .. MaxFailures /\ stale \in 0 .. MaxStale
  BY DEF Init
<1>7. /\ subscribed \subseteq Server
      /\ replies \in [Request -> SUBSET {"ok", "err", "null"}]
      /\ leader \in Server /\ halted \in BOOLEAN /\ overfull \in BOOLEAN
  BY DEF Init
<1> QED BY <1>1, <1>2, <1>3, <1>4, <1>5, <1>6, <1>7 DEF TypeInv, TypeOK, CallbackType, Stage

LEMMA HeadTail ==
  ASSUME NEW S, NEW q \in Seq(S), q # <<>>
  PROVE  Head(q) \in S /\ Tail(q) \in Seq(S)
  OBVIOUS

\* Whatever the stage that follows, the callback keeps its message.
LEMMA GotoKeeps ==
  ASSUME TypeInv, NEW s \in Server, callback[s].stage # "idle", NEW stage \in Stage,
         stage = "ask2" => callback[s].stage = "ask1", stage # "ask1", Goto(s, stage)
  PROVE  callback' \in [Server -> CallbackType] /\ CallbackBusy'
<1>1. callback \in [Server -> CallbackType] /\ \A t \in Server : Busy(callback[t])
  BY DEF TypeInv, TypeOK, CallbackBusy, Busy, CallbackType, Stage
<1> DEFINE cb == IF stage = "idle" THEN Idle ELSE [callback[s] EXCEPT !.stage = stage]
<1>2. cb \in CallbackType /\ Busy(cb)
  <2>1. CASE stage = "idle"
    BY <2>1, MatchmakingAssumption DEF CallbackType, Busy, Idle, Stage, MatchOrNone
  <2>2. CASE stage # "idle"
    <3>1. callback[s] \in CallbackType /\ Busy(callback[s])
      BY <1>1
    <3> QED BY <2>2, <3>1 DEF CallbackType, Busy
  <2> QED BY <2>1, <2>2
<1>3. callback' = [callback EXCEPT ![s] = cb]
  BY DEF Goto
<1> HIDE DEF cb
<1>4. callback' \in [Server -> CallbackType] /\ \A t \in Server : Busy(callback'[t])
  BY <1>1, <1>2, <1>3
<1> QED BY <1>4 DEF CallbackBusy

LEMMA PublishTypes ==
  ASSUME TypeInv, NEW s \in Server, callback[s].stage # "idle",
         NEW a \in {"ok", "err", "null"}, Publish(s, a)
  PROVE  replies' \in [Request -> SUBSET {"ok", "err", "null"}]
<1>1. callback[s].request \in Request
  BY DEF TypeInv, CallbackBusy, Busy
<1>2. replies \in [Request -> SUBSET {"ok", "err", "null"}]
  BY DEF TypeInv, TypeOK
<1> QED BY <1>1, <1>2 DEF Publish

LEMMA TypeStep == TypeInv /\ [Next]_vars => TypeInv'
<1> SUFFICES ASSUME TypeInv, [Next]_vars PROVE TypeInv'
  OBVIOUS
<1> USE MatchmakingAssumption
<1>a. TypeOK /\ CallbackBusy
  BY DEF TypeInv
<1>1. CASE UNCHANGED vars
  BY <1>1, <1>a
  DEF vars, clientVars, serverVars, leaderVars, causeVars, TypeInv, TypeOK, CallbackBusy
<1>2. ASSUME NEW c \in Client, FindMatch(c) PROVE TypeInv'
  <2>1. requests + 1 \in Request
    BY <1>2, <1>a DEF FindMatch, TypeOK, Request
  <2>2. inbox' \in [Server -> Seq([request : Request, who : Client])]
    <3> DEFINE M == [request : Request, who : Client]
               m == [request |-> requests + 1, who |-> c]
    <3>1. m \in M
      BY <2>1
    <3>2. \A s \in Server : inbox[s] \in Seq(M)
      BY <1>a DEF TypeOK
    <3>3. inbox' = [s \in Server |->
                      IF s \in subscribed THEN Append(inbox[s], m) ELSE inbox[s]]
      BY <1>2 DEF FindMatch
    <3> HIDE DEF M, m
    <3>4. inbox' \in [Server -> Seq(M)]
      BY <3>1, <3>2, <3>3
    <3> QED BY <3>4 DEF M
  <2>3. current' \in [Client -> 0 .. MaxRequests] /\ requests' \in 0 .. MaxRequests
    BY <1>2, <1>a, <2>1 DEF FindMatch, TypeOK, Request
  <2>4. client' \in [Client -> {"menu", "asking", "queued", "playing"}]
    BY <1>2, <1>a DEF FindMatch, TypeOK
  <2> QED
    BY <1>2, <1>a, <2>2, <2>3, <2>4
    DEF FindMatch, TypeInv, TypeOK, CallbackBusy, leaderVars, causeVars
<1>3. ASSUME NEW c \in Client, ReceiveReply(c) \/ TimeOut(c) PROVE TypeInv'
  <2>1. offer' \in [Client -> MatchOrNone]
    BY <1>3, <1>a DEF ReceiveReply, TimeOut, TypeOK, MatchOrNone
  <2>2. replies' \in [Request -> SUBSET {"ok", "err", "null"}]
    BY <1>3, <1>a DEF ReceiveReply, TimeOut, Over, TypeOK
  <2>3. client' \in [Client -> {"menu", "asking", "queued", "playing"}]
    BY <1>3, <1>a DEF ReceiveReply, TimeOut, TypeOK
  <2>4. current' \in [Client -> 0 .. MaxRequests]
    <3>1. current' = [current EXCEPT ![c] = 0] /\ current \in [Client -> 0 .. MaxRequests]
      BY <1>3, <1>a DEF ReceiveReply, TimeOut, Over, TypeOK
    <3>2. 0 \in 0 .. MaxRequests
      OBVIOUS
    <3> QED BY <3>1, <3>2
  <2>5. UNCHANGED <<requests, game, subscribed, inbox, callback, leader, queue, halted,
                    failures, stale, overfull>>
    BY <1>3 DEF ReceiveReply, TimeOut, leaderVars, causeVars
  <2>6. CallbackBusy'
    BY <1>a, <2>5 DEF CallbackBusy
  <2>7. TypeOK'
    BY <1>a, <2>1, <2>2, <2>3, <2>4, <2>5, Zenon DEF TypeOK
  <2> QED BY <2>6, <2>7 DEF TypeInv
<1>4. ASSUME NEW c \in Client, EnterMatch(c) \/ LeaveMatch(c) PROVE TypeInv'
  <2>1. client' \in [Client -> {"menu", "asking", "queued", "playing"}]
    BY <1>4, <1>a DEF EnterMatch, LeaveMatch, TypeOK
  <2>2. offer' \in [Client -> MatchOrNone] /\ game' \in [Client -> MatchOrNone]
    <3>1. NoMatch \in MatchOrNone /\ offer[c] \in MatchOrNone
      BY <1>a DEF TypeOK, MatchOrNone
    <3>2. offer \in [Client -> MatchOrNone] /\ game \in [Client -> MatchOrNone]
      BY <1>a DEF TypeOK
    <3> QED BY <1>4, <3>1, <3>2 DEF EnterMatch, LeaveMatch
  <2>3. UNCHANGED <<current, requests, serverVars, leaderVars, causeVars>>
    BY <1>4 DEF EnterMatch, LeaveMatch
  <2> QED
    BY <1>a, <2>1, <2>2, <2>3
    DEF TypeInv, TypeOK, CallbackBusy, serverVars, leaderVars, causeVars
<1>5. ASSUME NEW s \in Server, Take(s) PROVE TypeInv'
  <2>1. /\ inbox[s] \in Seq([request : Request, who : Client]) /\ inbox[s] # <<>>
    BY <1>5, <1>a DEF Take, TypeOK
  <2>2. /\ Head(inbox[s]) \in [request : Request, who : Client]
        /\ Tail(inbox[s]) \in Seq([request : Request, who : Client])
    BY <2>1, HeadTail
  <2>3. inbox' \in [Server -> Seq([request : Request, who : Client])]
    BY <1>5, <1>a, <2>2 DEF Take, TypeOK
  <2> DEFINE cb == [stage |-> "join", match |-> NoMatch,
                    request |-> Head(inbox[s]).request, who |-> Head(inbox[s]).who]
  <2>4. cb \in CallbackType /\ Busy(cb)
    BY <2>2 DEF CallbackType, Busy, Stage, MatchOrNone, Request
  <2>5. callback' = [callback EXCEPT ![s] = cb]
    BY <1>5 DEF Take
  <2> HIDE DEF cb
  <2>6. callback \in [Server -> CallbackType] /\ \A t \in Server : Busy(callback[t])
    BY <1>a DEF TypeOK, CallbackBusy, Busy, CallbackType, Stage
  <2>7. callback' \in [Server -> CallbackType] /\ \A t \in Server : Busy(callback'[t])
    BY <2>4, <2>5, <2>6
  <2>8. CallbackBusy'
    BY <2>7 DEF CallbackBusy
  <2> QED
    BY <1>5, <1>a, <2>3, <2>7, <2>8
    DEF Take, TypeInv, TypeOK, CallbackType, Stage, clientVars, leaderVars, causeVars
<1>6. ASSUME NEW s \in Server, JoinQueue(s) PROVE TypeInv'
  <2>1. callback' \in [Server -> CallbackType] /\ CallbackBusy'
    BY <1>6, GotoKeeps DEF JoinQueue, Stage
  <2>2. replies' \in [Request -> SUBSET {"ok", "err", "null"}]
    BY <1>6, PublishTypes DEF JoinQueue
  <2>3. callback[s].who \in Client
    BY <1>6, <1>a DEF JoinQueue, CallbackBusy, Busy
  <2>4. queue' \in Seq(Client) /\ overfull' \in BOOLEAN
    BY <1>6, <1>a, <2>3 DEF JoinQueue, TypeOK
  <2> QED
    BY <1>6, <1>a, <2>1, <2>2, <2>4
    DEF JoinQueue, TypeInv, TypeOK, CallbackType, Stage, clientVars
<1>7. ASSUME NEW s \in Server, JoinFailed(s) PROVE TypeInv'
  <2>1. callback' \in [Server -> CallbackType] /\ CallbackBusy'
    BY <1>7, GotoKeeps DEF JoinFailed, Stage
  <2>2. replies' \in [Request -> SUBSET {"ok", "err", "null"}]
    BY <1>7, PublishTypes DEF JoinFailed
  <2>3. failures' \in 0 .. MaxFailures
    BY <1>7, <1>a DEF JoinFailed, Fail, TypeOK
  <2>4. UNCHANGED <<clientVars, subscribed, inbox, leaderVars, stale, overfull>>
    BY <1>7 DEF JoinFailed
  <2> QED
    BY <1>a, <2>1, <2>2, <2>3, <2>4
    DEF TypeInv, TypeOK, CallbackType, Stage, clientVars, leaderVars
<1>8. ASSUME NEW s \in Server, CheckQueue(s) \/ CheckStaleQueue(s) PROVE TypeInv'
  <2>1. callback' \in [Server -> CallbackType] /\ CallbackBusy'
    BY <1>8, GotoKeeps DEF CheckQueue, CheckStaleQueue, Look, Stage
  <2>2. stale' \in 0 .. MaxStale
    BY <1>8, <1>a DEF CheckQueue, CheckStaleQueue, TypeOK, causeVars
  <2>3. UNCHANGED <<clientVars, subscribed, inbox, replies, leaderVars, failures, overfull>>
    BY <1>8 DEF CheckQueue, CheckStaleQueue, causeVars
  <2> QED
    BY <1>a, <2>1, <2>2, <2>3
    DEF TypeInv, TypeOK, CallbackType, Stage, clientVars, leaderVars
<1>9. ASSUME NEW s \in Server, CreateMatch(s) PROVE TypeInv'
  <2>1. queue \in Seq(Client) /\ Len(queue) >= 2
    BY <1>9, <1>a DEF CreateMatch, TypeOK
  <2>2. <<queue[1], queue[2]>> \in Client \X Client
    BY <2>1
  <2>3. SubSeq(queue, 3, Len(queue)) \in Seq(Client)
    BY <2>1
  <2> DEFINE cb == [callback[s] EXCEPT !.stage = "ask1", !.match = <<queue[1], queue[2]>>]
  <2>4. callback \in [Server -> CallbackType] /\ \A t \in Server : Busy(callback[t])
    BY <1>a DEF TypeOK, CallbackBusy, Busy, CallbackType, Stage
  <2>5. cb \in CallbackType /\ Busy(cb)
    <3>1. callback[s] \in CallbackType /\ Busy(callback[s]) /\ callback[s].stage = "create"
      BY <1>9, <2>4 DEF CreateMatch
    <3> QED BY <2>2, <3>1 DEF CallbackType, Busy, Stage, MatchOrNone
  <2>6. callback' = [callback EXCEPT ![s] = cb]
    BY <1>9 DEF CreateMatch
  <2> HIDE DEF cb
  <2>7. callback' \in [Server -> CallbackType] /\ \A t \in Server : Busy(callback'[t])
    BY <2>4, <2>5, <2>6
  <2>8. CallbackBusy'
    BY <2>7 DEF CallbackBusy
  <2> QED
    BY <1>9, <1>a, <2>3, <2>7, <2>8
    DEF CreateMatch, TypeInv, TypeOK, CallbackType, Stage, clientVars, causeVars
<1>10. ASSUME NEW s \in Server, CreateMatchFailed(s) \/ CreateMatchPanics(s) PROVE TypeInv'
  <2>1. callback' \in [Server -> CallbackType] /\ CallbackBusy'
    <3>1. callback[s].stage = "create" /\ Goto(s, "idle")
      BY <1>10 DEF CreateMatchFailed, CreateMatchPanics
    <3> QED BY <3>1, GotoKeeps DEF Stage
  <2>2. /\ failures' = failures \/ (failures < MaxFailures /\ failures' = failures + 1)
        /\ halted' = halted \/ halted' = TRUE
    BY <1>10 DEF CreateMatchFailed, CreateMatchPanics, Fail, leaderVars, causeVars
  <2>4. failures' \in 0 .. MaxFailures
    BY <1>a, <2>2 DEF TypeOK
  <2>5. halted' \in BOOLEAN
    BY <1>a, <2>2, Zenon DEF TypeOK
  <2>3. UNCHANGED <<clientVars, subscribed, inbox, replies, leader, queue, stale, overfull>>
    BY <1>10 DEF CreateMatchFailed, CreateMatchPanics, leaderVars, causeVars
  <2> QED
    BY <1>a, <2>1, <2>3, <2>4, <2>5
    DEF TypeInv, TypeOK, CallbackType, Stage, clientVars
<1>11. ASSUME NEW s \in Server, Ask(s, "ask1", 1, "ask2") \/ Ask(s, "ask2", 2, "idle")
       PROVE  TypeInv'
  <2>1. callback' \in [Server -> CallbackType] /\ CallbackBusy'
    BY <1>11, GotoKeeps DEF Ask, Stage
  <2>2. callback[s].match \in MatchOrNone /\ offer \in [Client -> MatchOrNone]
    BY <1>11, <1>a DEF Ask, CallbackBusy, TypeOK, MatchOrNone
  <2>3. offer' \in [Client -> MatchOrNone]
    BY <1>11, <2>2 DEF Ask
  <2>4. failures' \in 0 .. MaxFailures
    BY <1>11, <1>a, MatchmakingAssumption DEF Ask, Fail, TypeOK
  <2> QED
    BY <1>11, <1>a, <2>1, <2>3, <2>4
    DEF Ask, TypeInv, TypeOK, CallbackType, Stage, leaderVars, causeVars
<1> QED
  BY <1>1, <1>2, <1>3, <1>4, <1>5, <1>6, <1>7, <1>8, <1>9, <1>10, <1>11 DEF Next, Callback

\* Every reachable state of the clients, the callbacks and the queue is well
\* typed: only players wait, and a match is two of them.
THEOREM TypeCorrect == Spec => []TypeOK
<1>1. TypeInv => TypeOK
  BY DEF TypeInv
<1> QED
  BY <1>1, TypeInit, TypeStep, PTL DEF Spec
-----------------------------------------------------------------------------
(* One server hears the clients.                                            *)

\* What the stage of its callback tells of the length of the queue.
QueueFits(stage, n) ==
  /\ stage \in {"idle", "join"} => n <= 1
  /\ stage = "check" => n <= 2
  /\ stage = "create" => n = 2
  /\ stage \in {"ask1", "ask2"} => n = 0

OthersIdle(s) == \A o \in Server \ {s} : callback[o].stage = "idle" /\ inbox[o] = <<>>

Followed(s) ==
  OthersIdle(s) /\ QueueFits(callback[s].stage, Len(queue)) /\ ~overfull /\ ~halted

\* Nothing else touches the queue between a join of that server and its test.
QueueFollowed ==
  failures = 0 /\ stale = 0 => \A s \in Server : subscribed = {s} => Followed(s)

AloneInv == TypeInv /\ QueueFollowed

LEMMA AloneInit == Init => QueueFollowed
<1> SUFFICES ASSUME Init, NEW s \in Server PROVE Followed(s)
  BY DEF QueueFollowed
<1>1. OthersIdle(s) /\ callback[s].stage = "idle"
  BY DEF Init, Idle, OthersIdle
<1>2. Len(queue) = 0 /\ overfull = FALSE /\ halted = FALSE
  BY DEF Init
<1> QED BY <1>1, <1>2 DEF Followed, QueueFits

\* The causes stay once they are there, and nobody subscribes later.
LEMMA CausesStay ==
  ASSUME TypeInv, [Next]_vars, failures' = 0, stale' = 0
  PROVE  failures = 0 /\ stale = 0
<1> USE DEF clientVars, serverVars, leaderVars, causeVars
<1>1. failures \in Nat /\ stale \in Nat
  BY MatchmakingAssumption DEF TypeInv, TypeOK
<1>2. /\ failures' = failures \/ failures' = failures + 1
      /\ stale' = stale \/ stale' = stale + 1
  <2>1. ASSUME NEW s \in Server, Callback(s)
        PROVE  /\ failures' = failures \/ failures' = failures + 1
               /\ stale' = stale \/ stale' = stale + 1
    BY <2>1
    DEF Callback, Take, JoinQueue, JoinFailed, CheckQueue, CheckStaleQueue, CreateMatch,
        CreateMatchFailed, CreateMatchPanics, Ask, Fail
  <2> QED
    BY <2>1 DEF Next, vars, FindMatch, ReceiveReply, TimeOut, EnterMatch, LeaveMatch
<1> QED BY <1>1, <1>2

LEMMA SubscribedStay == [Next]_vars => subscribed' = subscribed
  BY DEF Next, vars, Callback, FindMatch, ReceiveReply, TimeOut, EnterMatch, LeaveMatch, Take,
         JoinQueue, JoinFailed, CheckQueue, CheckStaleQueue, CreateMatch, CreateMatchFailed,
         CreateMatchPanics, Ask, clientVars, serverVars, leaderVars, causeVars

\* A step of the callback that only changes its own stage.
LEMMA OthersStay ==
  ASSUME NEW s \in Server, OthersIdle(s), TypeInv, UNCHANGED inbox,
         \E cb : callback' = [callback EXCEPT ![s] = cb]
  PROVE  OthersIdle(s)'
  BY DEF OthersIdle, TypeInv, TypeOK

LEMMA AloneStep == AloneInv /\ [Next]_vars => QueueFollowed'
<1> SUFFICES ASSUME AloneInv, [Next]_vars, NEW s \in Server, subscribed' = {s},
                    failures' = 0, stale' = 0
             PROVE  Followed(s)'
  BY DEF QueueFollowed
<1>a. TypeInv /\ failures = 0 /\ stale = 0 /\ subscribed = {s}
  BY CausesStay, SubscribedStay DEF AloneInv
<1>b. Followed(s)
  BY <1>a DEF AloneInv, QueueFollowed
<1>c. /\ OthersIdle(s) /\ QueueFits(callback[s].stage, Len(queue)) /\ ~overfull /\ ~halted
      /\ queue \in Seq(Client) /\ callback \in [Server -> CallbackType]
  BY <1>a, <1>b DEF Followed, TypeInv, TypeOK, CallbackType, Stage
<1> DEFINE n == Len(queue)
<1>d. n \in Nat
  BY <1>c
<1> HIDE DEF n
<1>1. CASE UNCHANGED <<inbox, callback, queue, halted, overfull>>
  BY <1>1, <1>b DEF Followed, OthersIdle
<1>2. ASSUME NEW c \in Client, FindMatch(c) PROVE Followed(s)'
  <2>1. OthersIdle(s)'
    BY <1>2, <1>a, <1>c DEF FindMatch, OthersIdle
  <2>2. UNCHANGED <<callback, queue, halted, overfull>>
    BY <1>2 DEF FindMatch, leaderVars, causeVars
  <2> QED BY <1>c, <2>1, <2>2 DEF Followed
<1>3. ASSUME NEW c \in Client, ReceiveReply(c) \/ TimeOut(c) \/ EnterMatch(c) \/ LeaveMatch(c)
      PROVE  Followed(s)'
  BY <1>1, <1>3
  DEF ReceiveReply, TimeOut, EnterMatch, LeaveMatch, serverVars, leaderVars, causeVars
<1>4. ASSUME NEW o \in Server, o # s PROVE ~Callback(o)
  <2>1. callback[o].stage = "idle" /\ inbox[o] = <<>>
    BY <1>4, <1>c DEF OthersIdle
  <2> QED
    BY <2>1
    DEF Callback, Take, JoinQueue, JoinFailed, CheckQueue, CheckStaleQueue, CreateMatch,
        CreateMatchFailed, CreateMatchPanics, Ask
<1>5. CASE Take(s)
  <2>1. OthersIdle(s)'
    BY <1>5, <1>c DEF Take, OthersIdle
  <2>2. callback[s].stage = "idle" /\ callback'[s].stage = "join"
    BY <1>5, <1>c DEF Take
  <2>3. UNCHANGED <<queue, halted, overfull>>
    BY <1>5 DEF Take, leaderVars, causeVars
  <2> QED BY <1>c, <2>1, <2>2, <2>3 DEF Followed, QueueFits
<1>6. CASE JoinQueue(s)
  <2>1. OthersIdle(s)'
    BY <1>6, <1>a, <1>c, OthersStay DEF JoinQueue, Goto
  <2>2. callback[s].stage = "join" /\ callback'[s].stage = "check"
    BY <1>6, <1>c DEF JoinQueue, Goto, CallbackType
  <2>3. n <= 1
    BY <1>c, <2>2 DEF QueueFits, n
  <2>4. Len(queue') = n + 1 /\ overfull' = (overfull \/ n >= 2) /\ halted' = halted
    BY <1>6, <1>c DEF JoinQueue, n
  <2>5. QueueFits(callback'[s].stage, Len(queue'))
    BY <1>d, <2>2, <2>3, <2>4 DEF QueueFits
  <2>6. ~(n >= 2)
    BY <1>d, <2>3
  <2>7. ~overfull' /\ ~halted'
    BY <1>c, <2>4, <2>6, Zenon
  <2> QED BY <2>1, <2>5, <2>7 DEF Followed
<1>7. ~JoinFailed(s) /\ ~CreateMatchFailed(s) /\ ~CheckStaleQueue(s)
  BY <1>a DEF JoinFailed, CreateMatchFailed, CheckStaleQueue, Fail
<1>8. CASE CheckQueue(s)
  <2>1. OthersIdle(s)'
    BY <1>8, <1>a, <1>c, OthersStay DEF CheckQueue, Look, Goto
  <2>2. /\ callback[s].stage = "check"
        /\ callback'[s].stage = IF n = 2 THEN "create" ELSE "idle"
    BY <1>8, <1>c DEF CheckQueue, Look, Goto, Idle, CallbackType, n
  <2>3. n <= 2
    BY <1>c, <2>2 DEF QueueFits, n
  <2>4. UNCHANGED <<queue, halted, overfull>>
    BY <1>8 DEF CheckQueue, leaderVars, causeVars
  <2>5. QueueFits(callback'[s].stage, n)
    BY <1>d, <2>2, <2>3 DEF QueueFits
  <2> QED BY <1>c, <2>1, <2>4, <2>5 DEF Followed, n
<1>9. CASE CreateMatch(s)
  <2>1. OthersIdle(s)'
    BY <1>9, <1>a, <1>c, OthersStay DEF CreateMatch, leaderVars
  <2>2. callback[s].stage = "create" /\ callback'[s].stage = "ask1"
    BY <1>9, <1>c DEF CreateMatch, CallbackType
  <2>3. n = 2
    BY <1>c, <2>2 DEF QueueFits, n
  <2>4. queue' = SubSeq(queue, 3, 2) /\ halted' = halted /\ overfull' = overfull
    BY <1>9, <2>3 DEF CreateMatch, causeVars, n
  <2>5. Len(queue') = 0
    BY <1>c, <2>4
  <2> QED BY <1>c, <2>1, <2>2, <2>4, <2>5 DEF Followed, QueueFits
<1>10. ~CreateMatchPanics(s)
  <2>1. callback[s].stage = "create" => n = 2
    BY <1>c DEF QueueFits, n
  <2> QED BY <2>1 DEF CreateMatchPanics, n
<1>11. CASE Ask(s, "ask1", 1, "ask2") \/ Ask(s, "ask2", 2, "idle")
  <2>1. OthersIdle(s)'
    BY <1>11, <1>a, <1>c, OthersStay DEF Ask, Goto
  <2>2. /\ callback[s].stage \in {"ask1", "ask2"}
        /\ callback'[s].stage \in {"ask2", "idle"}
    BY <1>11, <1>c DEF Ask, Goto, Idle, CallbackType
  <2>3. UNCHANGED <<queue, halted, overfull>>
    BY <1>11 DEF Ask, leaderVars, causeVars
  <2> QED BY <1>c, <2>1, <2>2, <2>3 DEF Followed, QueueFits
<1>12. CASE UNCHANGED vars
  BY <1>1, <1>12 DEF vars, serverVars, leaderVars, causeVars
<1> QED
  BY <1>2, <1>3, <1>4, <1>5, <1>6, <1>7, <1>8, <1>9, <1>10, <1>11, <1>12 DEF Next, Callback

\* A server that alone hears the clients never misses two of them that wait,
\* for any number of clients, requests and timeouts.
THEOREM AloneNeverMissesCorrect == Spec => []AloneNeverMisses
<1>1. AloneInv => AloneNeverMisses
  <2> SUFFICES ASSUME AloneInv, Cardinality(subscribed) = 1, failures = 0, stale = 0
               PROVE  ~overfull /\ ~halted
    BY DEF AloneNeverMisses
  <2>1. subscribed \subseteq Server
    BY DEF AloneInv, TypeInv, TypeOK
  <2>2. IsFiniteSet(subscribed)
    BY <2>1, MatchmakingAssumption, FS_Subset
  <2>3. PICK s : subscribed = {s}
    BY <2>2, FS_Singleton
  <2> QED BY <2>1, <2>3 DEF AloneInv, QueueFollowed, Followed
<1>2. Init => AloneInv
  BY TypeInit, AloneInit DEF AloneInv
<1>3. AloneInv /\ [Next]_vars => AloneInv'
  BY TypeStep, AloneStep DEF AloneInv
<1> QED
  BY <1>1, <1>2, <1>3, PTL DEF Spec
=============================================================================
