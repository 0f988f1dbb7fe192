-------------------------- MODULE GameClusterProofs --------------------------
(***************************************************************************)
(* Theorems about the servers: types, agreement on the log, the refinement *)
(* of ReplicatedState, acknowledged commands, matched players, the causes  *)
(* of divergence, and what a server that leads alone guarantees.           *)
(* Each part defines its inductive invariant and ends in its theorem.      *)
(***************************************************************************)
EXTENDS GameCluster, FiniteSetTheorems, TLAPS

LEMMA ApplyTypes ==
  ASSUME NEW s \in StoreState, NEW c \in Command
  PROVE  ApplyCommand(s, c) \in StoreState
<1>1. PlayersAfter(s, c) \in [PlayerId -> Player]
  BY DEF PlayersAfter, StoreState, Command, Player
<1>2. MatchHistoryAfter(s, c) \in [MatchId \cup {NoMatch} -> Match]
  BY DEF MatchHistoryAfter, StoreState, Command
<1>3. GameQueueAfter(s, c) \in Seq(PlayerId)
  BY DEF GameQueueAfter, StoreState, Command
<1>4. CardsAfter(s, c) \in Seq(Pack)
  BY DEF CardsAfter, StoreState, Command
<1>5. MembersAfter(s, c) \in SUBSET MemberID
  BY DEF MembersAfter, StoreState, Command
<1>6. DataAfter(s, c) \in [Key -> Value \cup {NoValue}]
  BY DEF DataAfter, StoreState, Command
<1> QED
  BY <1>1, <1>2, <1>3, <1>4, <1>5, <1>6 DEF ApplyCommand, StoreState, Command

LEMMA ZeroTypes ==
  /\ ZeroPlayer \in Player
  /\ ZeroMatch \in Match
  /\ ZeroCommand \in Command
  /\ NewStore \in StoreState
  /\ Base \in StoreState
<1> USE StoreAssumption, ClusterAssumption
<1>1. ZeroPlayer \in Player
  BY DEF ZeroPlayer, Player, PlayerId
<1>2. ZeroMatch \in Match
  BY DEF ZeroMatch, NewMatch, Match, PlayerId, Card
<1>3. ZeroCommand \in Command
  BY <1>2 DEF ZeroCommand, Command, Operation, PlayerId
<1>4. NewStore \in StoreState
  <2>1. [i \in Pack |-> i] \in Seq(Pack)
    BY DEF Pack
  <2> QED BY <1>1, <1>2, <2>1 DEF NewStore, StoreState, PlayerId
<1>5. Base \in StoreState
  <2> DEFINE player(p) == IF p \in 1 .. Accounts THEN [Id |-> p, Cards |-> <<>>]
                                                ELSE ZeroPlayer
             match(g) == IF g = FirstMatch /\ g # NoMatch
                         THEN NewMatch(g, 1, 2)
                         ELSE ZeroMatch
  <2>1. \A p \in PlayerId : player(p) \in Player
    BY <1>1 DEF Player, PlayerId
  <2>2. \A g \in MatchId \cup {NoMatch} : match(g) \in Match
    BY <1>2 DEF Match, PlayerId, NewMatch, Card
  <2>3. Accounts \in PlayerId
    BY DEF PlayerId
  <2> QED
    BY <1>4, <2>1, <2>2, <2>3 DEF Base, StoreState
<1> QED BY <1>1, <1>2, <1>3, <1>4, <1>5

\* An execution that has begun has every field of its record.
LEMMA Begun == TypeOK => \A o \in Op : ops[o].pc # "idle" => ops[o] \in OpRecord
  BY DEF TypeOK, IdleOp

\* The states an execution may be given have their type.
LEMMA StageTypes ==
  ASSUME NEW op \in OpRecord, NEW cmd \in Command,
         NEW pc \in {"mutated", "built"}
  PROVE  /\ At(op, pc, cmd) \in OpRecord
         /\ [At(op, pc, cmd) EXCEPT !.live = TRUE] \in OpRecord
  BY DEF At, OpRecord, OpState

LEMMA OpTypes ==
  ASSUME NEW op \in OpRecord, NEW k \in Nat
  PROVE  /\ \A pc \in OpState, cmd \in Command : At(op, pc, cmd) \in OpRecord
         /\ \A pc \in OpState : [op EXCEPT !.pc = pc] \in OpRecord
         /\ [op EXCEPT !.live = FALSE] \in OpRecord
         /\ [op EXCEPT !.from = NoNode] \in OpRecord
         /\ [op EXCEPT !.pc = "waiting", !.live = FALSE, !.index = k] \in OpRecord
         /\ Failed(op) \in OpRecord
         /\ Settled(op) \in OpRecord
<1>1. \A pc \in OpState, cmd \in Command : At(op, pc, cmd) \in OpRecord
  BY DEF OpRecord, At
<1>2. \A pc \in OpState : [op EXCEPT !.pc = pc] \in OpRecord
  BY DEF OpRecord
<1>3. /\ [op EXCEPT !.live = FALSE] \in OpRecord
      /\ [op EXCEPT !.from = NoNode] \in OpRecord
  BY DEF OpRecord
<1>4. [op EXCEPT !.pc = "waiting", !.live = FALSE, !.index = k] \in OpRecord
  BY DEF OpRecord, OpState
<1>5. Failed(op) \in OpRecord
  BY DEF OpRecord, OpState, Failed
<1>6. Settled(op) \in OpRecord
  BY DEF OpRecord, OpState, Settled
<1> QED BY <1>1, <1>2, <1>3, <1>4, <1>5, <1>6

LEMMA CrashTypes ==
  ASSUME NEW op \in OpRecord \cup {IdleOp}, NEW n \in Node
  PROVE  AfterCrash(op, n) \in OpRecord \cup {IdleOp}
<1>1. CASE op = IdleOp
  BY <1>1, RaftAssumption DEF AfterCrash, IdleOp, Running
<1>2. CASE op \in OpRecord
  <2> DEFINE orphan == IF op.from = n THEN [op EXCEPT !.from = NoNode] ELSE op
  <2>1. orphan \in OpRecord
    BY <1>2, OpTypes
  <2>2. Settled(orphan) \in OpRecord /\ Failed(orphan) \in OpRecord
    BY <2>1, OpTypes
  <2>3. [Failed(orphan) EXCEPT !.pc = "lost"] \in OpRecord
    BY <2>2, OpTypes DEF OpState
  <2> QED BY <2>1, <2>2, <2>3 DEF AfterCrash
<1> QED BY <1>1, <1>2

LEMMA BeginTypes ==
  ASSUME NEW pc \in OpState, NEW f \in Node \cup {NoNode}, NEW n \in Node,
         NEW a \in Argument, NEW cmd \in Command
  PROVE  Begin(pc, f, n, a, cmd) \in OpRecord
  BY DEF Begin, OpRecord, Argument

LEMMA BlankTypes == \A kind \in Operation : Blank(kind) \in Command
  BY ZeroTypes DEF Blank, Command

LEMMA CountTypes ==
  ASSUME NEW s \in StoreState, NEW c \in PlayerId
  PROVE  [s EXCEPT !.count = c] \in StoreState
  BY DEF StoreState

LEMMA CalledTypes ==
  ASSUME NEW kind \in Operation, NEW f \in Node \cup {NoNode}, NEW n \in Node,
         NEW a \in Argument
  PROVE  Called(kind, f, n, a) \in OpRecord
  BY BlankTypes, BeginTypes DEF Called, OpState

LEMMA ArgumentTypes ==
  /\ NoArgument \in Argument
  /\ \A kind \in Operation : Arguments(kind) \subseteq Argument
<1>1. NoArgument \in Argument
  BY StoreAssumption DEF NoArgument, Argument, PlayerId, Card
<1>2. \A p \in PlayerId : [NoArgument EXCEPT !.player = p] \in Argument
  BY <1>1 DEF Argument
<1> QED BY <1>1, <1>2 DEF Arguments, KnownPlayer

LEMMA AdminTypes == \A kind \in Operation : AdminCommands(kind) \subseteq Command
<1> SUFFICES ASSUME NEW kind \in Operation PROVE AdminCommands(kind) \subseteq Command
  OBVIOUS
<1>1. \A k \in Key, v \in Value : SetCommand(k, v) \in Command
  BY BlankTypes DEF SetCommand, Command, Operation
<1>2. \A m \in MemberID : [Blank(kind) EXCEPT !.MemberID = {m}] \in Command
  BY BlankTypes DEF Command
<1> QED BY <1>1, <1>2 DEF AdminCommands

LEMMA TypeInit == Init => TypeOK
  BY ZeroTypes, RaftAssumption, StoreAssumption, ClusterAssumption
  DEF Init, RaftInit, TypeOK, IdleOp, OpRecord, OpState, SnapshotRecord, PlayerId, Card

LEMMA TypeStep == TypeOK /\ [Next]_vars => TypeOK'
<1> SUFFICES ASSUME TypeOK, [Next]_vars PROVE TypeOK'
  OBVIOUS
<1> USE DEF TypeOK
<1>1. CASE UNCHANGED vars
  BY <1>1 DEF vars, raftVars, serverVars, clientVars
<1>2. ASSUME NEW o \in Op, Request(o) PROVE TypeOK'
  <2>1. ASSUME NEW kind \in Kinds, AdminRequest(o, kind) PROVE TypeOK'
    <3>1. \A n \in Node, c \in AdminCommands(kind) :
            Begin("built", NoNode, n, NoArgument, c) \in OpRecord
      BY AdminTypes, ArgumentTypes, BeginTypes, ClusterAssumption DEF OpState
    <3> QED
      BY <2>1, <3>1 DEF AdminRequest, raftVars, serverVars
  <2>2. ASSUME NEW kind \in Kinds, GameRequest(o, kind) PROVE TypeOK'
    <3>1. leader \in Node
      BY <2>2 DEF GameRequest
    <3>2. \A f \in Node, a \in Arguments(kind) : Called(kind, f, leader, a) \in OpRecord
      BY <3>1, ArgumentTypes, CalledTypes, ClusterAssumption
    <3> QED
      BY <2>2, <3>2 DEF GameRequest, raftVars, serverVars
  <2> QED
    BY <1>2, <2>1, <2>2 DEF Request
<1>3. ASSUME NEW o \in Op, CreatePlayer(o) PROVE TypeOK'
  <2> DEFINE n == ops[o].node
             id == NextId(n)
  <2>1. ops[o] \in OpRecord
    BY <1>3, Begun DEF CreatePlayer, CanLock
  <2>2. n \in Node /\ ops[o].cmd \in Command
    BY <2>1 DEF OpRecord
  <2>3. id \in PlayerId
    BY <1>3, <2>2 DEF CreatePlayer, NextId, StoreState, PlayerId
  <2>4. At(ops[o], "mutated", [ops[o].cmd EXCEPT !.PlayerID = id]) \in OpRecord
    <3>1. [ops[o].cmd EXCEPT !.PlayerID = id] \in Command
      BY <2>2, <2>3 DEF Command
    <3> QED BY <2>1, <3>1, StageTypes
  <2>5. [fsm[n] EXCEPT !.count = id] \in StoreState
    <3>1. fsm[n] \in StoreState
      BY <2>2
    <3> QED BY <2>3, <3>1, CountTypes
  <2>6. fsm' \in [Node -> StoreState]
    BY <1>3, <2>2, <2>5 DEF CreatePlayer
  <2>7. ops' \in [Op -> OpRecord \cup {IdleOp}]
    <3>1. ops' = [ops EXCEPT ![o] =
                    At(ops[o], "mutated", [ops[o].cmd EXCEPT !.PlayerID = id])]
      BY <1>3 DEF CreatePlayer
    <3>2. ops \in [Op -> OpRecord \cup {IdleOp}]
      OBVIOUS
    <3> HIDE DEF id, TypeOK
    <3> QED BY <2>4, <3>1, <3>2
  <2> QED BY <1>3, <2>6, <2>7 DEF CreatePlayer, raftVars
<1>4. ASSUME NEW o \in Op, OpenPack(o) PROVE TypeOK'
  <2> DEFINE n == ops[o].node
             id == ops[o].player
             player == fsm[n].players[id]
             deck == fsm[n].Cards
             cards(i) == Append(player.Cards, deck[i])
             opened(i) == [fsm[n].players EXCEPT ![id] =
                             [Id |-> player.Id, Cards |-> cards(i)]]
             cmd(i) == [ops[o].cmd EXCEPT !.PlayerID = player.Id, !.PlayerCards = cards(i)]
  <2>1. ops[o] \in OpRecord
    BY <1>4, Begun DEF OpenPack, CanLock
  <2>2. n \in Node /\ id \in PlayerId /\ ops[o].cmd \in Command
    BY <2>1 DEF OpRecord
  <2>3. fsm[n] \in StoreState /\ deck \in Seq(Pack) /\ player \in Player
    <3>1. fsm[n] \in StoreState
      BY <2>2
    <3> QED BY <2>2, <3>1 DEF StoreState
  <2>4. PICK i \in 1 .. Len(deck) :
          /\ fsm' = [fsm EXCEPT ![n] = [@ EXCEPT !.Cards = SwapRemove(deck, i),
                                                 !.players = opened(i)]]
          /\ ops' = [p \in Op |-> IF p = o THEN At(ops[o], "mutated", cmd(i))
                                            ELSE SwapSeen(ops[p], n, i)]
    BY <1>4 DEF OpenPack
  <2>5. cards(i) \in Seq(Pack) /\ deck[i] \in Pack /\ deck[Len(deck)] \in Pack
        /\ player.Id \in PlayerId
    BY <2>3 DEF Player
  <2>6. SwapRemove(deck, i) \in Seq(Pack)
    BY <2>3, <2>5 DEF SwapRemove
  <2>7. opened(i) \in [PlayerId -> Player]
    BY <2>2, <2>3, <2>5 DEF StoreState, Player
  <2>8. [fsm[n] EXCEPT !.Cards = SwapRemove(deck, i), !.players = opened(i)] \in StoreState
    BY <2>3, <2>6, <2>7 DEF StoreState
  <2>9. fsm' \in [Node -> StoreState]
    BY <2>4, <2>8
  <2>10. At(ops[o], "mutated", cmd(i)) \in OpRecord
    <3>1. cmd(i) \in Command
      BY <2>2, <2>5 DEF Command
    <3> QED BY <2>1, <3>1, StageTypes
  <2>11. ASSUME NEW p \in Op PROVE SwapSeen(ops[p], n, i) \in OpRecord \cup {IdleOp}
    <3>1. CASE ops[p] = IdleOp
      BY <3>1 DEF SwapSeen, IdleOp
    <3>2. CASE ops[p] \in OpRecord
      <4>1. /\ ops[p].cmd \in Command /\ ops[p].pc \in OpState
            /\ ops[p].cmd.Cards \in Seq(Pack)
        BY <3>2 DEF OpRecord, Command
      <4>2. i <= Len(ops[p].cmd.Cards)
              => [ops[p].cmd.Cards EXCEPT ![i] = deck[Len(deck)]] \in Seq(Pack)
        BY <4>1, <2>5
      <4>3. i <= Len(ops[p].cmd.Cards)
              => [ops[p].cmd EXCEPT !.Cards =
                    [ops[p].cmd.Cards EXCEPT ![i] = deck[Len(deck)]]] \in Command
        BY <4>1, <4>2 DEF Command
      <4> HIDE DEF deck
      <4> QED BY <3>2, <4>1, <4>3, OpTypes DEF SwapSeen, deck
    <3> QED BY <3>1, <3>2
  <2>12. ops' \in [Op -> OpRecord \cup {IdleOp}]
    BY <2>4, <2>10, <2>11
  <2> QED
    BY <1>4, <2>9, <2>12 DEF OpenPack, raftVars
<1>5. ASSUME NEW o \in Op, JoinQueue(o) PROVE TypeOK'
  <2>1. ops[o] \in OpRecord
    BY <1>5, Begun DEF JoinQueue, CanLock
  <2>2. ops[o].cmd \in Command /\ ops[o].player \in PlayerId
    BY <2>1 DEF OpRecord
  <2>3. [ops[o].cmd EXCEPT !.PlayerID = ops[o].player] \in Command
    BY <2>2 DEF Command
  <2>4. At(ops[o], "built", [ops[o].cmd EXCEPT !.PlayerID = ops[o].player]) \in OpRecord
    BY <2>1, <2>3, StageTypes
  <2> QED
    BY <1>5, <2>4 DEF JoinQueue, raftVars, serverVars
<1>6. ASSUME NEW o \in Op, CreateMatch(o) PROVE TypeOK'
  <2> DEFINE queue == fsm[ops[o].node].gameQueue
             match == NewMatch(o, queue[1], queue[2])
             rest == NewQueue(queue)
  <2>1. ops[o] \in OpRecord
    BY <1>6, Begun DEF CreateMatch, CanLock
  <2>2. ops[o].node \in Node /\ ops[o].cmd \in Command
    BY <2>1 DEF OpRecord
  <2>3. queue \in Seq(PlayerId) /\ Len(queue) >= 2
    BY <1>6, <2>2 DEF CreateMatch, StoreState
  <2>4. match \in Match
    BY <2>3, ClusterAssumption, StoreAssumption DEF NewMatch, Match, Card
  <2>5. rest \in Seq(PlayerId)
    BY <2>3 DEF NewQueue
  <2>6. At(ops[o], "built", [ops[o].cmd EXCEPT !.GameId = match, !.GameQueue = rest])
          \in OpRecord
    <3>1. [ops[o].cmd EXCEPT !.GameId = match, !.GameQueue = rest] \in Command
      BY <2>2, <2>4, <2>5 DEF Command
    <3> QED BY <2>1, <3>1, StageTypes
  <2> QED
    BY <1>6, <2>6 DEF CreateMatch, raftVars, serverVars
<1>7. ASSUME NEW o \in Op, PlayCard(o) PROVE TypeOK'
  <2> DEFINE n == ops[o].node
             old == fsm[n].matchHistory[ops[o].game]
             game == Played(old, ops[o].player, ops[o].card)
             history == [fsm[n].matchHistory EXCEPT ![ops[o].game] = game]
  <2>1. ops[o] \in OpRecord
    BY <1>7, Begun DEF PlayCard, CanLock
  <2>2. /\ n \in Node /\ ops[o].cmd \in Command
        /\ ops[o].game \in MatchId \cup {NoMatch} /\ ops[o].card \in Card
    BY <2>1 DEF OpRecord
  <2>3. fsm[n] \in StoreState /\ old \in Match
    <3>1. fsm[n] \in StoreState
      BY <2>2
    <3> QED BY <2>2, <3>1 DEF StoreState
  <2>4. game \in Match
    BY <2>2, <2>3 DEF Match, Played
  <2>5. history \in [MatchId \cup {NoMatch} -> Match]
    BY <2>3, <2>4 DEF StoreState
  <2>6. [fsm[n] EXCEPT !.matchHistory = history] \in StoreState
    BY <2>3, <2>5 DEF StoreState
  <2>7. At(ops[o], "built", [ops[o].cmd EXCEPT !.GameId = game]) \in OpRecord
    <3>1. [ops[o].cmd EXCEPT !.GameId = game] \in Command
      BY <2>2, <2>4 DEF Command
    <3> QED BY <2>1, <3>1, StageTypes
  <2> QED
    BY <1>7, <2>6, <2>7 DEF PlayCard, raftVars
<1>8. ASSUME NEW o \in Op, BuildCommand(o) PROVE TypeOK'
  <2>1. ops[o] \in OpRecord
    BY <1>8, Begun DEF BuildCommand
  <2>2. leader \in Node /\ ops[o].cmd \in Command
    BY <1>8, <2>1 DEF BuildCommand, OpRecord
  <2>3. fsm[leader].count \in PlayerId /\ fsm[leader].Cards \in Seq(Pack)
    BY <2>2 DEF StoreState
  <2>4. /\ [ops[o].cmd EXCEPT !.Count = fsm[leader].count] \in Command
        /\ [ops[o].cmd EXCEPT !.Cards = fsm[leader].Cards] \in Command
    BY <2>2, <2>3 DEF Command
  <2>5. WithShared(ops[o], fsm[leader]) \in OpRecord
    BY <2>1, <2>4, StageTypes DEF WithShared
  <2> QED
    BY <1>8, <2>5 DEF BuildCommand, raftVars, serverVars
<1>9. ASSUME NEW o \in Op, Enqueue(o) PROVE TypeOK'
  <2>1. ops[o] \in OpRecord
    BY <1>9, Begun DEF Enqueue
  <2>2. ops[o].cmd \in Command /\ Len(log) + 1 \in Nat
    BY <2>1 DEF OpRecord
  <2>3. [ops[o] EXCEPT !.pc = "waiting", !.live = FALSE, !.index = Len(log) + 1] \in OpRecord
    BY <2>1, <2>2, OpTypes
  <2> QED
    BY <1>9, <2>2, <2>3 DEF Enqueue, RaftPropose, serverVars
<1>10. ASSUME NEW o \in Op, Reject(o) PROVE TypeOK'
  BY <1>10, Begun, OpTypes DEF Reject, raftVars, serverVars
<1>11. ASSUME NEW o \in Op, CheckQueue(o) PROVE TypeOK'
  BY <1>11, Begun, OpTypes DEF CheckQueue, raftVars, serverVars
<1>12. ASSUME NEW o \in Op, StartMatch(o) PROVE TypeOK'
  <2>1. ops[o] \in OpRecord
    BY <1>12, Begun DEF StartMatch, QueueReady
  <2>2. ops[o].from \in Node \cup {NoNode} /\ Settled(ops[o]) \in OpRecord
    BY <2>1, OpTypes DEF OpRecord
  <2>3. \A m \in Node : Called("create_game", ops[o].from, m, NoArgument) \in OpRecord
    BY <2>2, CalledTypes, ArgumentTypes DEF Operation
  <2> QED
    BY <1>12, <2>2, <2>3 DEF StartMatch, raftVars, serverVars
<1>13. ASSUME NEW n \in Node, Crash(n), restarts' \in Nat PROVE TypeOK'
  <2>1. ops' \in [Op -> OpRecord \cup {IdleOp}]
    BY <1>13, CrashTypes DEF Crash
  <2> QED
    BY <1>13, <2>1 DEF Crash, RaftCrash, SnapshotRecord
<1>14. ASSUME NEW o \in Op, PanicInCallback(o) PROVE TypeOK'
  <2>1. ops[o].node \in Node
    BY <1>14, Begun DEF PanicInCallback, Panics, CanLock, OpRecord
  <2> QED
    BY <1>13, <1>14, <2>1 DEF PanicInCallback
<1>15. ASSUME NEW o \in Op, PanicInREST(o) PROVE TypeOK'
  BY <1>15, Begun, OpTypes DEF PanicInREST, Panics, CanLock, OpState, raftVars
<1>16. ASSUME NEW o \in Op, MatchUnanswered(o) PROVE TypeOK'
  <2>1. ops[o].from \in Node
    BY <1>16, Begun DEF MatchUnanswered, QueueReady, OpRecord
  <2> QED
    BY <1>13, <1>16, <2>1 DEF MatchUnanswered
<1>17. ASSUME NEW n \in Node, ApplyNext(n) PROVE TypeOK'
  <2> DEFINE i == applied[n] + 1
  <2>1. i \in 1 .. Len(log) /\ log[i] \in Command
    BY <1>17 DEF ApplyNext
  <2>2. ApplyCommand(fsm[n], log[i]) \in StoreState
    BY <2>1, ApplyTypes
  <2>3. ops' \in [Op -> OpRecord \cup {IdleOp}]
    <3> SUFFICES ASSUME NEW o \in Op PROVE ops'[o] \in OpRecord \cup {IdleOp}
      BY <1>17 DEF ApplyNext
    <3>1. CASE ops[o] = IdleOp
      BY <1>17, <3>1, RaftAssumption DEF ApplyNext, IdleOp
    <3>2. CASE ops[o] \in OpRecord
      BY <1>17, <3>2, OpTypes DEF ApplyNext, OpState
    <3> QED BY <3>1, <3>2
  <2>4. acked' \subseteq Op
    BY <1>17 DEF ApplyNext
  <2>5. fsm' \in [Node -> StoreState] /\ applied' \in [Node -> Nat]
    BY <1>17, <2>1, <2>2 DEF ApplyNext
  <2> QED
    BY <1>17, <2>3, <2>4, <2>5 DEF ApplyNext, raftVars
<1>18. ASSUME NEW n \in Node, TakeSnapshot(n) PROVE TypeOK'
  BY <1>18 DEF TakeSnapshot, SnapshotOf, SnapshotRecord, raftVars, clientVars
<1>19. ASSUME NEW n \in Node, InstallSnapshot(n) PROVE TypeOK'
  <2>1. ops' \in [Op -> OpRecord \cup {IdleOp}]
    <3> SUFFICES ASSUME NEW o \in Op PROVE ops'[o] \in OpRecord \cup {IdleOp}
      BY <1>19 DEF InstallSnapshot
    <3>1. CASE ops[o] = IdleOp
      BY <1>19, <3>1, RaftAssumption DEF InstallSnapshot, IdleOp
    <3>2. CASE ops[o] \in OpRecord
      BY <1>19, <3>2, OpTypes DEF InstallSnapshot
    <3> QED BY <3>1, <3>2
  <2>2. leader \in Node
    BY <1>19 DEF InstallSnapshot
  <2> QED
    BY <1>19, <2>1, <2>2 DEF InstallSnapshot, SnapshotRecord, raftVars
<1>20. ASSUME NEW n \in Node, BecomeLeader(n) PROVE TypeOK'
  BY <1>20 DEF BecomeLeader, RaftElect, serverVars, clientVars
<1>21. ASSUME NEW n \in Node, Restart(n) PROVE TypeOK'
  BY <1>13, <1>21 DEF Restart
<1>22. CASE Commit
  <2>1. promised[Len(promised)] \in StoreState /\ log[commitIndex + 1] \in Command
    BY <1>22 DEF Commit, RaftCommit
  <2> QED
    BY <1>22, <2>1, ApplyTypes DEF Commit, RaftCommit, serverVars, clientVars
<1>23. CASE LoseLeadership
  <2>1. ops' \in [Op -> OpRecord \cup {IdleOp}]
    BY <1>23, Begun, OpTypes DEF LoseLeadership
  <2> QED
    BY <1>23, <2>1 DEF LoseLeadership, RaftStepDown, serverVars
<1> QED
  BY <1>1, <1>2, <1>3, <1>4, <1>5, <1>6, <1>7, <1>8, <1>9, <1>10, <1>11, <1>12,
     <1>14, <1>15, <1>16, <1>17, <1>18, <1>19, <1>20, <1>21, <1>22, <1>23
  DEF Next, HandlerStep, ServerStep

\* Every reachable state is well typed, whatever the servers, executions,
\* bounds and packs.
THEOREM TypeCorrect == Spec => []TypeOK
<1>1. Init => TypeOK
  BY TypeInit
<1>2. TypeOK /\ [Next]_vars => TypeOK'
  BY TypeStep
<1> QED
  BY <1>1, <1>2, PTL DEF Spec

-----------------------------------------------------------------------------
(***************************************************************************)
(* The fields that only commands write agree with the log on every server, *)
(* whatever the servers, executions, failures and snapshots: the proof of  *)
(* LogDrivenAgreement.                                                     *)
(***************************************************************************)

\* promised records what the committed commands make of the initial store.
PromisedFollowsLog ==
  /\ Len(promised) = commitIndex + 1
  /\ \A i \in 1 .. commitIndex :
       promised[i + 1] = ApplyCommand(promised[i], log[i])

\* A copy that holds the first i commands shows their log-driven fields.
ShowsPrefix(s, i) ==
  /\ i <= commitIndex
  /\ LogView(s) = LogView(promised[i + 1])

StoresFollowLog == \A n \in Node : ShowsPrefix(fsm[n], applied[n])

SnapshotsFollowLog ==
  \A n \in Node : ShowsPrefix(snapshots[n].state, snapshots[n].index)

\* Restart and Restore bring a snapshot back, so what a snapshot holds has to
\* be part of the invariant.
AgreementInv ==
  /\ TypeOK
  /\ PromisedFollowsLog
  /\ StoresFollowLog
  /\ SnapshotsFollowLog

\* Apply computes the log-driven fields from those fields and the command.
LEMMA ApplyView ==
  ASSUME NEW s, NEW t, NEW c, LogView(s) = LogView(t)
  PROVE  LogView(ApplyCommand(s, c)) = LogView(ApplyCommand(t, c))
<1>1. s.gameQueue = t.gameQueue /\ s.members = t.members /\ s.data = t.data
  BY DEF LogView
<1> QED
  BY <1>1 DEF LogView, ApplyCommand, GameQueueAfter, MembersAfter, DataAfter

LEMMA AgreementInit == Init => AgreementInv
<1> SUFFICES ASSUME Init PROVE AgreementInv
  OBVIOUS
<1>1. TypeOK
  BY TypeInit
<1>2. PromisedFollowsLog
  BY DEF Init, RaftInit, PromisedFollowsLog
<1>3. StoresFollowLog /\ SnapshotsFollowLog
  BY DEF Init, RaftInit, StoresFollowLog, SnapshotsFollowLog, ShowsPrefix
<1> QED BY <1>1, <1>2, <1>3 DEF AgreementInv

\* A step that leaves the committed commands alone keeps what copies show.
LEMMA PrefixKept ==
  ASSUME AgreementInv, UNCHANGED <<commitIndex, promised>>,
         \A i \in 1 .. commitIndex : log'[i] = log[i]
  PROVE  /\ PromisedFollowsLog'
         /\ \A s, i : ShowsPrefix(s, i) => ShowsPrefix(s, i)'
  BY DEF AgreementInv, PromisedFollowsLog, ShowsPrefix

LEMMA AgreementStep == AgreementInv /\ [Next]_vars => AgreementInv'
<1> SUFFICES ASSUME AgreementInv, [Next]_vars PROVE AgreementInv'
  OBVIOUS
<1>a. TypeOK /\ TypeOK'
  BY TypeStep DEF AgreementInv
<1>b. /\ commitIndex \in Nat /\ Len(log) \in Nat /\ commitIndex <= Len(log)
      /\ fsm \in [Node -> StoreState] /\ applied \in [Node -> Nat]
      /\ snapshots \in [Node -> SnapshotRecord]
      /\ log \in Seq(Command) /\ promised \in Seq(StoreState)
  BY <1>a DEF TypeOK
\* Most steps are of one kind: they write the other fields of a store, if any.
<1>c. ASSUME UNCHANGED <<commitIndex, promised, snapshots, applied>>,
             \A i \in 1 .. commitIndex : log'[i] = log[i],
             \A n \in Node : LogView(fsm'[n]) = LogView(fsm[n])
      PROVE  AgreementInv'
  <2>1. StoresFollowLog' /\ SnapshotsFollowLog'
    BY <1>c DEF AgreementInv, StoresFollowLog, SnapshotsFollowLog, ShowsPrefix
  <2>2. PromisedFollowsLog'
    BY <1>c, PrefixKept
  <2> QED BY <1>a, <2>1, <2>2 DEF AgreementInv
<1>1. CASE UNCHANGED vars
  BY <1>1, <1>c DEF vars, raftVars, serverVars
<1>2. ASSUME NEW o \in Op, Request(o) PROVE AgreementInv'
  BY <1>2, <1>c DEF Request, AdminRequest, GameRequest, raftVars, serverVars
<1>3. ASSUME NEW o \in Op, CreatePlayer(o) PROVE AgreementInv'
  <2>1. \A n \in Node : LogView(fsm'[n]) = LogView(fsm[n])
    BY <1>3, <1>b DEF CreatePlayer, LogView, StoreState
  <2> QED BY <1>3, <1>c, <2>1 DEF CreatePlayer, raftVars
<1>4. ASSUME NEW o \in Op, OpenPack(o) PROVE AgreementInv'
  <2>1. \A n \in Node : LogView(fsm'[n]) = LogView(fsm[n])
    BY <1>4, <1>b DEF OpenPack, LogView, StoreState
  <2> QED BY <1>4, <1>c, <2>1 DEF OpenPack, raftVars
<1>5. ASSUME NEW o \in Op, PlayCard(o) PROVE AgreementInv'
  <2>1. \A n \in Node : LogView(fsm'[n]) = LogView(fsm[n])
    BY <1>5, <1>b DEF PlayCard, LogView, StoreState
  <2> QED BY <1>5, <1>c, <2>1 DEF PlayCard, raftVars
<1>6. ASSUME NEW o \in Op,
             \/ JoinQueue(o) \/ CreateMatch(o) \/ BuildCommand(o) \/ Reject(o)
             \/ CheckQueue(o) \/ StartMatch(o) \/ PanicInREST(o)
      PROVE  AgreementInv'
  BY <1>6, <1>c DEF JoinQueue, CreateMatch, BuildCommand, Reject, CheckQueue, StartMatch,
                    PanicInREST, raftVars, serverVars
<1>7. ASSUME NEW o \in Op, Enqueue(o) PROVE AgreementInv'
  <2>1. \A i \in 1 .. commitIndex : log'[i] = log[i]
    BY <1>7, <1>b DEF Enqueue, RaftPropose
  <2> QED BY <1>7, <1>c, <2>1 DEF Enqueue, RaftPropose, serverVars
<1>8. ASSUME NEW n \in Node, Crash(n) PROVE AgreementInv'
  <2>1. PromisedFollowsLog' /\ SnapshotsFollowLog'
    BY <1>8, PrefixKept DEF Crash, RaftCrash, AgreementInv, SnapshotsFollowLog
  <2>2. StoresFollowLog'
    <3> SUFFICES ASSUME NEW m \in Node PROVE ShowsPrefix(fsm[m], applied[m])'
      BY DEF StoresFollowLog
    <3>1. ShowsPrefix(fsm[m], applied[m]) /\ ShowsPrefix(snapshots[n].state, snapshots[n].index)
      BY DEF AgreementInv, StoresFollowLog, SnapshotsFollowLog
    <3>2. \/ fsm'[m] = fsm[m] /\ applied'[m] = applied[m]
          \/ fsm'[m] = snapshots[n].state /\ applied'[m] = snapshots[n].index
      BY <1>8, <1>b DEF Crash
    <3> QED BY <1>8, <3>1, <3>2 DEF Crash, RaftCrash, ShowsPrefix
  <2> QED BY <1>a, <2>1, <2>2 DEF AgreementInv
<1>9. ASSUME NEW o \in Op, PanicInCallback(o) \/ MatchUnanswered(o) PROVE AgreementInv'
  <2>1. CASE PanicInCallback(o)
    <3>1. ops[o].node \in Node
      BY <2>1, <1>a, Begun DEF PanicInCallback, Panics, CanLock, OpRecord
    <3> QED BY <1>8, <2>1, <3>1 DEF PanicInCallback
  <2>2. CASE MatchUnanswered(o)
    <3>1. ops[o].from \in Node
      BY <2>2, <1>a, Begun DEF MatchUnanswered, QueueReady, OpRecord
    <3> QED BY <1>8, <2>2, <3>1 DEF MatchUnanswered
  <2> QED BY <1>9, <2>1, <2>2
<1>10. ASSUME NEW n \in Node, ApplyNext(n) PROVE AgreementInv'
  <2> DEFINE i == applied[n] + 1
  <2>1. i \in 1 .. commitIndex
    BY <1>10, <1>b DEF ApplyNext
  <2>2. PromisedFollowsLog' /\ SnapshotsFollowLog'
    BY <1>10, PrefixKept DEF ApplyNext, raftVars, AgreementInv, SnapshotsFollowLog
  <2>3. LogView(ApplyCommand(fsm[n], log[i])) = LogView(promised[i + 1])
    <3>1. LogView(fsm[n]) = LogView(promised[i])
      BY <1>b DEF AgreementInv, StoresFollowLog, ShowsPrefix
    <3>2. promised[i + 1] = ApplyCommand(promised[i], log[i])
      BY <2>1 DEF AgreementInv, PromisedFollowsLog
    <3> QED BY <3>1, <3>2, ApplyView
  <2>4. StoresFollowLog'
    <3> SUFFICES ASSUME NEW m \in Node PROVE ShowsPrefix(fsm[m], applied[m])'
      BY DEF StoresFollowLog
    <3>1. CASE m = n
      <4>1. fsm'[m] = ApplyCommand(fsm[n], log[i]) /\ applied'[m] = i
        BY <1>10, <1>b, <3>1 DEF ApplyNext
      <4> QED BY <1>10, <2>1, <2>3, <4>1 DEF ApplyNext, raftVars, ShowsPrefix
    <3>2. CASE m # n
      <4>1. fsm'[m] = fsm[m] /\ applied'[m] = applied[m]
        BY <1>10, <1>b, <3>2 DEF ApplyNext
      <4> QED
        BY <1>10, <4>1 DEF ApplyNext, raftVars, ShowsPrefix, AgreementInv, StoresFollowLog
    <3> QED BY <3>1, <3>2
  <2> QED BY <1>a, <2>2, <2>4 DEF AgreementInv
<1>11. ASSUME NEW n \in Node, TakeSnapshot(n) PROVE AgreementInv'
  <2>1. PromisedFollowsLog' /\ StoresFollowLog'
    BY <1>11, PrefixKept DEF TakeSnapshot, raftVars, AgreementInv, StoresFollowLog
  <2>2. SnapshotsFollowLog'
    <3> SUFFICES ASSUME NEW m \in Node
                 PROVE  ShowsPrefix(snapshots[m].state, snapshots[m].index)'
      BY DEF SnapshotsFollowLog
    <3>1. ShowsPrefix(fsm[n], applied[n]) /\ ShowsPrefix(snapshots[m].state, snapshots[m].index)
      BY DEF AgreementInv, StoresFollowLog, SnapshotsFollowLog
    <3>2. \/ snapshots'[m] = snapshots[m]
          \/ snapshots'[m].state = fsm[n] /\ snapshots'[m].index = applied[n]
      BY <1>11, <1>b DEF TakeSnapshot, SnapshotOf
    <3> QED BY <1>11, <3>1, <3>2 DEF TakeSnapshot, raftVars, ShowsPrefix
  <2> QED BY <1>a, <2>1, <2>2 DEF AgreementInv
<1>12. ASSUME NEW n \in Node, InstallSnapshot(n) PROVE AgreementInv'
  <2>1. leader \in Node
    BY <1>12, <1>a DEF InstallSnapshot, TypeOK
  <2>2. PromisedFollowsLog'
    BY <1>12, PrefixKept DEF InstallSnapshot, raftVars
  <2>3. ASSUME NEW m \in Node
        PROVE  /\ ShowsPrefix(fsm[m], applied[m])'
               /\ ShowsPrefix(snapshots[m].state, snapshots[m].index)'
    <3>1. /\ ShowsPrefix(fsm[m], applied[m])
          /\ ShowsPrefix(snapshots[m].state, snapshots[m].index)
          /\ ShowsPrefix(snapshots[leader].state, snapshots[leader].index)
      BY <2>1 DEF AgreementInv, StoresFollowLog, SnapshotsFollowLog
    <3>2. /\ \/ fsm'[m] = fsm[m] /\ applied'[m] = applied[m]
             \/ fsm'[m] = snapshots[leader].state /\ applied'[m] = snapshots[leader].index
          /\ snapshots'[m] \in {snapshots[m], snapshots[leader]}
      BY <1>12, <1>b DEF InstallSnapshot
    <3> QED BY <1>12, <3>1, <3>2 DEF InstallSnapshot, raftVars, ShowsPrefix
  <2> QED BY <1>a, <2>2, <2>3 DEF AgreementInv, StoresFollowLog, SnapshotsFollowLog
<1>13. ASSUME NEW n \in Node, BecomeLeader(n) PROVE AgreementInv'
  <2>1. PICK k \in commitIndex .. Len(log) : log' = SubSeq(log, 1, k)
    BY <1>13 DEF BecomeLeader, RaftElect
  <2>2. \A i \in 1 .. commitIndex : log'[i] = log[i]
    BY <1>b, <2>1
  <2> QED BY <1>13, <1>c, <2>2 DEF BecomeLeader, RaftElect, serverVars
<1>14. ASSUME NEW n \in Node, Restart(n) PROVE AgreementInv'
  BY <1>8, <1>14 DEF Restart
<1>15. CASE LoseLeadership
  BY <1>15, <1>c DEF LoseLeadership, RaftStepDown, serverVars
<1>16. CASE Commit
  <2> DEFINE next == ApplyCommand(promised[Len(promised)], log[commitIndex + 1])
  <2>1. Len(promised) = commitIndex + 1 /\ promised' = Append(promised, next)
        /\ commitIndex' = commitIndex + 1 /\ log' = log
    BY <1>16 DEF Commit, RaftCommit, AgreementInv, PromisedFollowsLog
  <2>2. \A i \in 1 .. commitIndex + 1 : promised'[i] = promised[i]
    BY <1>b, <2>1
  <2>3. Len(promised') = commitIndex + 2 /\ promised'[commitIndex + 2] = next
    BY <1>b, <2>1
  <2>4. PromisedFollowsLog'
    <3>1. Len(promised') = commitIndex' + 1
      BY <1>b, <2>1, <2>3
    <3>2. ASSUME NEW i \in 1 .. commitIndex'
          PROVE  promised'[i + 1] = ApplyCommand(promised'[i], log'[i])
      <4>1. CASE i = commitIndex + 1
        BY <1>b, <2>1, <2>2, <2>3, <4>1
      <4>2. CASE i \in 1 .. commitIndex
        BY <1>b, <2>1, <2>2, <4>2 DEF AgreementInv, PromisedFollowsLog
      <4> QED BY <1>b, <2>1, <3>2, <4>1, <4>2
    <3> QED BY <3>1, <3>2 DEF PromisedFollowsLog
  <2>5. ASSUME NEW s, NEW i \in Nat, ShowsPrefix(s, i)
        PROVE  i <= commitIndex' /\ LogView(s) = LogView(promised'[i + 1])
    BY <1>b, <2>1, <2>2, <2>5 DEF ShowsPrefix
  <2>6. StoresFollowLog' /\ SnapshotsFollowLog'
    BY <1>16, <1>b, <2>5
    DEF Commit, serverVars, AgreementInv, StoresFollowLog, SnapshotsFollowLog, ShowsPrefix,
        SnapshotRecord
  <2> QED BY <1>a, <2>4, <2>6 DEF AgreementInv
<1> QED
  BY <1>1, <1>2, <1>3, <1>4, <1>5, <1>6, <1>7, <1>9, <1>10, <1>11, <1>12, <1>13,
     <1>14, <1>15, <1>16
  DEF Next, HandlerStep, ServerStep

\* On every server the queue, the members and the data are exactly those of a
\* prefix of the committed commands, for any number of servers and failures.
THEOREM LogDrivenCorrect == Spec => []LogDrivenAgreement
<1>1. Init => AgreementInv
  BY AgreementInit
<1>2. AgreementInv /\ [Next]_vars => AgreementInv'
  BY AgreementStep
<1>3. AgreementInv => LogDrivenAgreement
  BY DEF AgreementInv, StoresFollowLog, ShowsPrefix, LogDrivenAgreement, Promised, LogView
<1> QED
  BY <1>1, <1>2, <1>3, PTL DEF Spec

-----------------------------------------------------------------------------
(***************************************************************************)
(* On the fields that only commands write, the servers implement           *)
(* ReplicatedState: the proof of ImplementsReplicatedState.                *)
(***************************************************************************)

\* What a step is on the replicated object when it leaves the object alone.
Silent ==
  /\ UNCHANGED <<applied, snapshots, promised>>
  /\ \A n \in Node : LogView(fsm'[n]) = LogView(fsm[n])

LEMMA SilentStutters == Silent => UNCHANGED Replicated!vars
  BY DEF Silent, Replicated!vars

\* A store's log-driven fields are a state of the replicated object.
LEMMA ViewTypes == \A s \in StoreState : LogView(s) \in LogViews
  BY DEF LogView, LogViews, StoreState

\* The decided states, one for each state that was promised.
ViewsOf(states) == [i \in 1 .. Len(states) |-> LogView(states[i])]

LEMMA ViewsOfTypes ==
  ASSUME NEW states \in Seq(StoreState)
  PROVE  ViewsOf(states) \in Seq(LogViews) /\ Len(ViewsOf(states)) = Len(states)
<1>1. \A i \in 1 .. Len(states) : states[i] \in StoreState
  OBVIOUS
<1>2. \A i \in 1 .. Len(states) : LogView(states[i]) \in LogViews
  BY <1>1, ViewTypes
<1> QED BY <1>2 DEF ViewsOf

\* The steps that write no command and move no server along the history.
LEMMA SilentSteps ==
  ASSUME TypeOK,
         \/ UNCHANGED vars
         \/ \E o \in Op :
              \/ Request(o)
              \/ CreatePlayer(o) \/ OpenPack(o) \/ JoinQueue(o) \/ CreateMatch(o)
              \/ PlayCard(o) \/ BuildCommand(o) \/ Enqueue(o) \/ Reject(o)
              \/ CheckQueue(o) \/ StartMatch(o) \/ PanicInREST(o)
         \/ \E n \in Node : BecomeLeader(n)
         \/ LoseLeadership
  PROVE  Silent
<1>1. fsm \in [Node -> StoreState]
  BY DEF TypeOK
<1>2. CASE UNCHANGED vars
  BY <1>2 DEF vars, serverVars, Silent
<1>3. ASSUME NEW o \in Op, Request(o) PROVE Silent
  BY <1>3 DEF Request, AdminRequest, GameRequest, serverVars, Silent
<1>4. ASSUME NEW o \in Op, CreatePlayer(o) PROVE Silent
  <2>1. \A n \in Node : LogView(fsm'[n]) = LogView(fsm[n])
    BY <1>1, <1>4 DEF CreatePlayer, LogView, StoreState
  <2> QED BY <1>4, <2>1 DEF CreatePlayer, Silent
<1>5. ASSUME NEW o \in Op, OpenPack(o) PROVE Silent
  <2>1. \A n \in Node : LogView(fsm'[n]) = LogView(fsm[n])
    <3>1. PICK cards, players :
            fsm' = [fsm EXCEPT ![ops[o].node] =
                      [@ EXCEPT !.Cards = cards, !.players = players]]
      BY <1>5 DEF OpenPack
    <3> QED BY <1>1, <3>1 DEF LogView, StoreState
  <2> QED BY <1>5, <2>1 DEF OpenPack, Silent
<1>6. ASSUME NEW o \in Op, PlayCard(o) PROVE Silent
  <2>1. \A n \in Node : LogView(fsm'[n]) = LogView(fsm[n])
    BY <1>1, <1>6 DEF PlayCard, LogView, StoreState
  <2> QED BY <1>6, <2>1 DEF PlayCard, Silent
<1>7. ASSUME NEW o \in Op,
             \/ JoinQueue(o) \/ CreateMatch(o) \/ BuildCommand(o) \/ Enqueue(o)
             \/ Reject(o) \/ CheckQueue(o) \/ StartMatch(o) \/ PanicInREST(o)
      PROVE  Silent
  BY <1>7 DEF JoinQueue, CreateMatch, BuildCommand, Enqueue, Reject, CheckQueue,
              StartMatch, PanicInREST, serverVars, Silent
<1>8. ASSUME NEW n \in Node, BecomeLeader(n) PROVE Silent
  BY <1>8 DEF BecomeLeader, serverVars, Silent
<1>9. CASE LoseLeadership
  BY <1>9 DEF LoseLeadership, serverVars, Silent
<1> QED BY <1>2, <1>3, <1>4, <1>5, <1>6, <1>7, <1>8, <1>9

\* A server that moves shows the decided state it moves to.
LEMMA ShowStep ==
  ASSUME AgreementInv, AgreementInv', UNCHANGED <<commitIndex, promised>>,
         NEW n \in Node, NEW i \in Nat, applied' = [applied EXCEPT ![n] = i],
         \A m \in Node \ {n} : fsm'[m] = fsm[m]
  PROVE  /\ [m \in Node |-> applied'[m] + 1] =
                [[m \in Node |-> applied[m] + 1] EXCEPT ![n] = i + 1]
         /\ [m \in Node |-> LogView(fsm'[m])] =
                [[m \in Node |-> LogView(fsm[m])] EXCEPT ![n] = ViewsOf(promised)[i + 1]]
<1>1. applied \in [Node -> Nat] /\ promised \in Seq(StoreState)
  BY DEF AgreementInv, TypeOK
<1>2. i <= commitIndex /\ LogView(fsm'[n]) = LogView(promised[i + 1])
  BY <1>1 DEF AgreementInv, StoresFollowLog, ShowsPrefix
<1>3. commitIndex \in Nat /\ Len(promised) = commitIndex + 1
  BY DEF AgreementInv, TypeOK, PromisedFollowsLog
<1>4. i + 1 \in 1 .. Len(promised)
  BY <1>2, <1>3
<1>5. ViewsOf(promised)[i + 1] = LogView(promised[i + 1])
  BY <1>4 DEF ViewsOf
<1>6. [m \in Node |-> applied'[m] + 1] =
        [[m \in Node |-> applied[m] + 1] EXCEPT ![n] = i + 1]
  BY <1>1
<1>7. [m \in Node |-> LogView(fsm'[m])] =
        [[m \in Node |-> LogView(fsm[m])] EXCEPT ![n] = ViewsOf(promised)[i + 1]]
  BY <1>2, <1>5
<1> QED BY <1>6, <1>7

LEMMA ReplicatedInit == Init => Replicated!Init
<1> SUFFICES ASSUME Init PROVE Replicated!Init
  OBVIOUS
<1>1. promised = <<Base>> /\ promised \in Seq(StoreState)
  BY TypeInit DEF Init, TypeOK
<1>2. ViewsOf(promised) \in Seq(LogViews) /\ Len(ViewsOf(promised)) = 1
  BY <1>1, ViewsOfTypes
<1>3. ViewsOf(promised)[1] = LogView(Base)
  BY <1>1 DEF ViewsOf
<1> QED BY <1>2, <1>3 DEF Init, ViewsOf, Replicated!Init

LEMMA ReplicatedStep ==
  AgreementInv /\ AgreementInv' /\ [Next]_vars => [Replicated!Next]_(Replicated!vars)
<1> SUFFICES ASSUME AgreementInv, AgreementInv', [Next]_vars
             PROVE  [Replicated!Next]_(Replicated!vars)
  OBVIOUS
<1>a. TypeOK /\ TypeOK'
  BY DEF AgreementInv
<1>b. /\ fsm \in [Node -> StoreState] /\ applied \in [Node -> Nat]
      /\ snapshots \in [Node -> SnapshotRecord] /\ promised \in Seq(StoreState)
      /\ commitIndex \in Nat /\ Len(promised) = commitIndex + 1
  BY <1>a DEF AgreementInv, TypeOK, PromisedFollowsLog
<1>1. ASSUME Silent PROVE [Replicated!Next]_(Replicated!vars)
  BY <1>1, SilentStutters
<1>2. ASSUME NEW n \in Node, Crash(n) PROVE Replicated!Recover(n)
  <2>1. snapshots[n].index \in Nat
    BY <1>b DEF SnapshotRecord
  <2>2. /\ [m \in Node |-> applied'[m] + 1] =
               [[m \in Node |-> applied[m] + 1] EXCEPT ![n] = snapshots[n].index + 1]
        /\ [m \in Node |-> LogView(fsm'[m])] =
               [[m \in Node |-> LogView(fsm[m])] EXCEPT
                  ![n] = ViewsOf(promised)[snapshots[n].index + 1]]
    <3>1. /\ applied' = [applied EXCEPT ![n] = snapshots[n].index]
          /\ UNCHANGED <<commitIndex, promised>>
          /\ \A m \in Node \ {n} : fsm'[m] = fsm[m]
      BY <1>2, <1>b DEF Crash, RaftCrash
    <3> QED BY <2>1, <3>1, ShowStep
  <2> QED BY <1>2, <2>2 DEF Crash, ViewsOf, Replicated!Recover, Replicated!Show
<1>3. ASSUME NEW o \in Op, PanicInCallback(o) \/ MatchUnanswered(o)
      PROVE  \E n \in Node : Crash(n)
  <2>1. CASE PanicInCallback(o)
    <3>1. ops[o].node \in Node
      BY <2>1, <1>a, Begun DEF PanicInCallback, Panics, CanLock, OpRecord
    <3> QED BY <2>1, <3>1 DEF PanicInCallback
  <2>2. CASE MatchUnanswered(o)
    <3>1. ops[o].from \in Node
      BY <2>2, <1>a, Begun DEF MatchUnanswered, QueueReady, OpRecord
    <3> QED BY <2>2, <3>1 DEF MatchUnanswered
  <2> QED BY <1>3, <2>1, <2>2
<1>4. ASSUME NEW n \in Node, ApplyNext(n) PROVE Replicated!Learn(n)
  <2>1. applied[n] + 1 \in Nat /\ applied[n] < commitIndex
    BY <1>4, <1>b DEF ApplyNext
  <2>2. /\ [m \in Node |-> applied'[m] + 1] =
               [[m \in Node |-> applied[m] + 1] EXCEPT ![n] = (applied[n] + 1) + 1]
        /\ [m \in Node |-> LogView(fsm'[m])] =
               [[m \in Node |-> LogView(fsm[m])] EXCEPT
                  ![n] = ViewsOf(promised)[(applied[n] + 1) + 1]]
    <3>1. /\ applied' = [applied EXCEPT ![n] = applied[n] + 1]
          /\ UNCHANGED <<commitIndex, promised>>
          /\ \A m \in Node \ {n} : fsm'[m] = fsm[m]
      BY <1>4, <1>b DEF ApplyNext, raftVars
    <3> QED BY <2>1, <3>1, ShowStep
  <2>3. Len(ViewsOf(promised)) = Len(promised)
    BY <1>b, ViewsOfTypes
  <2> QED BY <1>4, <1>b, <2>1, <2>2, <2>3 
    DEF ApplyNext, ViewsOf, Replicated!Learn, Replicated!Show
<1>5. ASSUME NEW n \in Node, TakeSnapshot(n) PROVE Replicated!Save(n)
  <2>1. [m \in Node |-> snapshots'[m].index + 1] =
          [[m \in Node |-> snapshots[m].index + 1] EXCEPT ![n] = applied[n] + 1]
    BY <1>5, <1>b DEF TakeSnapshot, SnapshotOf
  <2> QED BY <1>5, <2>1 DEF TakeSnapshot, Replicated!Save
<1>6. ASSUME NEW n \in Node, InstallSnapshot(n) PROVE Replicated!CatchUp(n)
  <2>1. leader \in Node
    BY <1>6, <1>a DEF InstallSnapshot, TypeOK
  <2>2. snapshots[leader].index \in Nat
    BY <1>b, <2>1 DEF SnapshotRecord
  <2>3. /\ [m \in Node |-> applied'[m] + 1] =
               [[m \in Node |-> applied[m] + 1] EXCEPT ![n] = snapshots[leader].index + 1]
        /\ [m \in Node |-> LogView(fsm'[m])] =
               [[m \in Node |-> LogView(fsm[m])] EXCEPT
                  ![n] = ViewsOf(promised)[snapshots[leader].index + 1]]
    <3>1. /\ applied' = [applied EXCEPT ![n] = snapshots[leader].index]
          /\ UNCHANGED <<commitIndex, promised>>
          /\ \A m \in Node \ {n} : fsm'[m] = fsm[m]
      BY <1>6, <1>b DEF InstallSnapshot, raftVars
    <3> QED BY <2>2, <3>1, ShowStep
  <2>4. snapshots[leader].index + 1 > applied[n] + 1
    BY <1>6, <1>b, <2>2 DEF InstallSnapshot
  <2>5. [m \in Node |-> snapshots'[m].index + 1] =
          [[m \in Node |-> snapshots[m].index + 1] EXCEPT
             ![n] = snapshots[leader].index + 1]
    BY <1>6, <1>b, <2>1 DEF InstallSnapshot
  <2> QED
    BY <1>6, <2>1, <2>3, <2>4, <2>5
    DEF InstallSnapshot, ViewsOf, Replicated!CatchUp, Replicated!Show
<1>7. ASSUME Commit PROVE Replicated!Decide
  <2> DEFINE next == ApplyCommand(promised[Len(promised)], log[commitIndex + 1])
  <2>1. /\ promised' = Append(promised, next)
        /\ promised' \in Seq(StoreState)
    BY <1>7, <1>a DEF Commit, TypeOK
  <2>2. Len(promised') = Len(promised) + 1
        /\ \A i \in 1 .. Len(promised) : promised'[i] = promised[i]
    BY <1>b, <2>1
  <2>3. ViewsOf(promised) \in Seq(LogViews) /\ Len(ViewsOf(promised)) = Len(promised)
    BY <1>b, ViewsOfTypes
  <2>4. ViewsOf(promised') \in Seq(LogViews) /\ Len(ViewsOf(promised')) = Len(promised')
    BY <2>1, ViewsOfTypes
  <2>5. SubSeq(ViewsOf(promised'), 1, Len(ViewsOf(promised))) = ViewsOf(promised)
    BY <1>b, <2>2, <2>3, <2>4 DEF ViewsOf
  <2> QED
    BY <1>7, <2>2, <2>3, <2>4, <2>5 DEF Commit, serverVars, ViewsOf, Replicated!Decide
<1> QED
  BY <1>a, <1>1, <1>2, <1>3, <1>4, <1>5, <1>6, <1>7, SilentSteps
  DEF Next, HandlerStep, ServerStep, Restart, Replicated!Next

\* On the queue, the members and the data the servers implement one replicated
\* object, whatever their number and failures: they move forward one decided
\* state at a time, catch up with what another stored, and fall back only to
\* what they stored themselves.
THEOREM ReplicationCorrect == Spec => ImplementsReplicatedState
<1>1. Init => AgreementInv /\ Replicated!Init
  BY AgreementInit, ReplicatedInit
<1>2. AgreementInv /\ [Next]_vars => AgreementInv'
  BY AgreementStep
<1> QED
  BY <1>1, <1>2, ReplicatedStep, PTL
  DEF Spec, ImplementsReplicatedState, Replicated!Spec

-----------------------------------------------------------------------------
(***************************************************************************)
(* What a client was told of stays in the committed log: the proof of      *)
(* AckedCommitted.                                                         *)
(***************************************************************************)

\* The log holds o's command where its future says.
Placed(o) ==
  /\ ops[o].index \in 1 .. Len(log)
  /\ log[ops[o].index] = ops[o].cmd

\* A command that shares the deck has not been marshalled.
LiveBuilt == \A o \in Op : ops[o].live => ops[o].pc = "built"

\* Only the leader waits for commands that a change of leader can lose.
WaitingPlaced ==
  \A o \in Op :
    ops[o].pc = "waiting" =>
      Placed(o) /\ (ops[o].index <= commitIndex \/ ops[o].node = leader)

AckedOver == \A o \in acked : ops[o].pc \in {"joined", "ok"}

AckedInv ==
  TypeOK /\ LiveBuilt /\ WaitingPlaced /\ AckedOver /\ AckedCommitted

\* What a step may do to an execution without touching the invariant.
Quiet(o) ==
  /\ ops'[o].live => ops'[o].pc = "built"
  /\ ops'[o].pc = "waiting" =>
       /\ ops[o].pc = "waiting"
       /\ ops'[o].index = ops[o].index
       /\ ops'[o].cmd = ops[o].cmd
       /\ ops'[o].node = ops[o].node
  /\ o \in acked =>
       /\ ops'[o].pc \in {"joined", "ok"}
       /\ ops'[o].index = ops[o].index
       /\ ops'[o].cmd = ops[o].cmd

-----------------------------------------------------------------------------
LEMMA QuietSame ==
  ASSUME AckedInv, NEW o \in Op, ops'[o] = ops[o]
  PROVE  Quiet(o)
  BY DEF AckedInv, LiveBuilt, AckedOver, Quiet

\* An execution whose client has no answer may do anything but wait.
LEMMA QuietOther ==
  ASSUME AckedInv, NEW o \in Op, ops[o].pc \notin {"joined", "ok"},
         ops'[o].pc # "waiting", ops'[o].live => ops'[o].pc = "built"
  PROVE  Quiet(o)
  BY DEF AckedInv, AckedOver, Quiet

LEMMA QuietKeeps ==
  ASSUME AckedInv, UNCHANGED <<log, commitIndex, leader, acked>>,
         \A o \in Op : Quiet(o)
  PROVE  LiveBuilt' /\ WaitingPlaced' /\ AckedOver' /\ AckedCommitted'
<1>1. acked \subseteq Op
  BY DEF AckedInv, TypeOK
<1>2. LiveBuilt' /\ AckedOver'
  BY <1>1 DEF Quiet, LiveBuilt, AckedOver
<1>3. WaitingPlaced'
  BY DEF Quiet, AckedInv, WaitingPlaced, Placed
<1>4. AckedCommitted'
  BY <1>1 DEF Quiet, AckedInv, AckedCommitted
<1> QED BY <1>2, <1>3, <1>4

\* The next stage of an execution that has no place in the log yet.
LEMMA StageQuiet ==
  ASSUME AckedInv, NEW o \in Op, ops[o].pc \in {"called", "mutated"},
         NEW pc \in {"mutated", "built"}, NEW cmd,
         ops' = [ops EXCEPT ![o] = At(ops[o], pc, cmd)]
  PROVE  \A p \in Op : Quiet(p)
<1>1. ops \in [Op -> OpRecord \cup {IdleOp}] /\ ops[o] \in OpRecord
  BY Begun DEF AckedInv, TypeOK
<1>2. ops'[o].pc = pc /\ ops'[o].live = ops[o].live
  BY <1>1 DEF At, OpRecord
<1>3. ~ops[o].live
  BY DEF AckedInv, LiveBuilt
<1>4. Quiet(o)
  BY <1>2, <1>3, QuietOther
<1>5. ASSUME NEW p \in Op \ {o} PROVE Quiet(p)
  BY <1>1, QuietSame
<1> QED BY <1>4, <1>5

LEMMA FailedFields ==
  ASSUME NEW op \in OpRecord
  PROVE  Failed(op).pc \in {"joined", "failed"} /\ ~Failed(op).live
  BY DEF Failed, OpRecord

LEMMA SettledFields ==
  ASSUME NEW op \in OpRecord
  PROVE  /\ Settled(op).pc = IF op.index = 0 THEN "failed" ELSE "ok"
         /\ Settled(op).index = op.index
         /\ Settled(op).cmd = op.cmd
         /\ Settled(op).live = op.live
  BY DEF Settled, OpRecord

LEMMA CrashFields ==
  ASSUME NEW op \in OpRecord \cup {IdleOp}, NEW n \in Node,
         op.live => op.pc = "built"
  PROVE  LET new == AfterCrash(op, n)
         IN /\ new.live => new.pc = "built"
            /\ new.pc = "waiting" =>
                 /\ op.pc = "waiting" /\ op.node # n
                 /\ new.index = op.index /\ new.cmd = op.cmd /\ new.node = op.node
            /\ op.pc \in {"joined", "ok"} /\ op.index # 0 =>
                 /\ new.pc \in {"joined", "ok"}
                 /\ new.index = op.index /\ new.cmd = op.cmd
<1> DEFINE orphan == IF op.from = n THEN [op EXCEPT !.from = NoNode] ELSE op
<1>1. CASE op = IdleOp
  BY <1>1, RaftAssumption DEF AfterCrash, IdleOp, Running
<1>2. CASE op \in OpRecord
  <2>1. /\ orphan \in OpRecord
        /\ orphan.pc = op.pc /\ orphan.index = op.index /\ orphan.cmd = op.cmd
        /\ orphan.live = op.live /\ orphan.node = op.node
    BY <1>2 DEF OpRecord
  <2>2. /\ Failed(orphan) \in OpRecord
        /\ Failed(orphan).pc \in {"joined", "failed"} /\ ~Failed(orphan).live
    BY <2>1, OpTypes, FailedFields
  <2>3. LET lost == [Failed(orphan) EXCEPT !.pc = "lost"]
        IN lost.pc = "lost" /\ ~lost.live
    BY <2>2 DEF OpRecord
  <2>4. CASE op.pc = "joined" /\ op.from = n
    <3>1. AfterCrash(op, n) = Settled(orphan)
      BY <2>4 DEF AfterCrash, Running
    <3>2. ~op.live
      BY <2>4
    <3> HIDE DEF orphan
    <3> QED BY <2>1, <2>4, <3>1, <3>2, SettledFields
  <2>5. CASE op.pc \in Running /\ op.node = n
    BY <2>1, <2>2, <2>3, <2>5 DEF AfterCrash, Running
  <2>6. CASE /\ ~(op.pc = "joined" /\ op.from = n)
             /\ ~(op.pc \in Running /\ op.node = n)
    BY <2>1, <2>6 DEF AfterCrash, Running
  <2> QED BY <2>4, <2>5, <2>6
<1> QED BY <1>1, <1>2

LEMMA AckedInit == Init => AckedInv
  BY TypeInit
  DEF Init, RaftInit, IdleOp, AckedInv, LiveBuilt, WaitingPlaced, AckedOver, AckedCommitted

-----------------------------------------------------------------------------
LEMMA AckedStep == AckedInv /\ [Next]_vars => AckedInv'
<1> SUFFICES ASSUME AckedInv, [Next]_vars PROVE AckedInv'
  OBVIOUS
<1>a. TypeOK /\ TypeOK'
  BY TypeStep DEF AckedInv
<1>b. /\ commitIndex \in Nat /\ Len(log) \in Nat /\ commitIndex <= Len(log)
      /\ log \in Seq(Command) /\ leader \in Node \cup {NoNode}
      /\ ops \in [Op -> OpRecord \cup {IdleOp}] /\ acked \subseteq Op
      /\ applied \in [Node -> Nat]
  BY <1>a DEF TypeOK
<1>c. ASSUME UNCHANGED <<log, commitIndex, leader, acked>>, \A o \in Op : Quiet(o)
      PROVE  AckedInv'
  BY <1>a, <1>c, QuietKeeps DEF AckedInv
\* An acknowledged execution is none of those that have no answer.
<1>d. ASSUME NEW o \in acked
      PROVE  /\ ops[o] \in OpRecord
             /\ ops[o].pc \in {"joined", "ok"}
             /\ ops[o].index \in 1 .. commitIndex
             /\ log[ops[o].index] = ops[o].cmd
  BY <1>a, <1>b, Begun DEF AckedInv, AckedOver, AckedCommitted
<1>1. CASE UNCHANGED vars
  <2>1. \A o \in Op : Quiet(o)
    BY <1>1, QuietSame DEF vars, clientVars
  <2> QED BY <1>1, <1>c, <2>1 DEF vars, raftVars, clientVars
<1>2. ASSUME NEW o \in Op, Request(o) PROVE AckedInv'
  <2>1. /\ UNCHANGED <<log, commitIndex, leader, acked>> /\ ops[o].pc = "idle"
        /\ \A p \in Op \ {o} : ops'[p] = ops[p]
        /\ ops'[o].pc \in {"called", "built"} /\ ~ops'[o].live
    BY <1>2, <1>b DEF Request, AdminRequest, GameRequest, Called, Begin, raftVars
  <2>2. Quiet(o)
    BY <2>1, QuietOther
  <2>3. ASSUME NEW p \in Op \ {o} PROVE Quiet(p)
    BY <2>1, QuietSame
  <2> QED BY <1>c, <2>1, <2>2, <2>3
<1>3. ASSUME NEW o \in Op, CreatePlayer(o) PROVE AckedInv'
  BY <1>3, <1>c, StageQuiet DEF CreatePlayer, CanLock, raftVars
<1>4. ASSUME NEW o \in Op, OpenPack(o) PROVE AckedInv'
  <2> DEFINE n == ops[o].node
             player == fsm[n].players[ops[o].player]
             cmd(i) == [ops[o].cmd EXCEPT !.PlayerID = player.Id,
                          !.PlayerCards = Append(player.Cards, fsm[n].Cards[i])]
  <2>1. PICK i \in 1 .. Len(fsm[n].Cards) :
          ops' = [p \in Op |-> IF p = o THEN At(ops[o], "mutated", cmd(i))
                                        ELSE SwapSeen(ops[p], n, i)]
    BY <1>4 DEF OpenPack
  <2>2. Quiet(o)
    <3>1. ops[o] \in OpRecord /\ ops[o].pc = "called"
      BY <1>4, <1>a, Begun DEF OpenPack, CanLock
    <3>2. ~ops[o].live
      BY <3>1 DEF AckedInv, LiveBuilt
    <3>3. ops'[o].pc = "mutated" /\ ~ops'[o].live
      BY <2>1, <3>1, <3>2 DEF At, OpRecord
    <3> QED BY <3>1, <3>3, QuietOther
  <2>3. ASSUME NEW p \in Op \ {o} PROVE Quiet(p)
    <3>1. CASE ~ops[p].live
      BY <2>1, <3>1, QuietSame DEF SwapSeen
    <3>2. CASE ops[p].live
      <4>1. ops[p].pc = "built"
        BY <3>2 DEF AckedInv, LiveBuilt
      <4>2. ops[p] \in OpRecord
        BY <1>a, <4>1, Begun
      <4>3. ops'[p].pc = "built"
        BY <2>1, <4>1, <4>2 DEF SwapSeen, At, OpRecord
      <4> QED BY <4>1, <4>3, QuietOther
    <3> QED BY <3>1, <3>2
  <2> QED BY <1>4, <1>c, <2>2, <2>3 DEF OpenPack, raftVars
<1>5. ASSUME NEW o \in Op, JoinQueue(o) PROVE AckedInv'
  BY <1>5, <1>c, StageQuiet DEF JoinQueue, CanLock, raftVars
<1>6. ASSUME NEW o \in Op, CreateMatch(o) PROVE AckedInv'
  BY <1>6, <1>c, StageQuiet DEF CreateMatch, CanLock, raftVars
<1>7. ASSUME NEW o \in Op, PlayCard(o) PROVE AckedInv'
  BY <1>7, <1>c, StageQuiet DEF PlayCard, CanLock, raftVars
<1>8. ASSUME NEW o \in Op, BuildCommand(o) PROVE AckedInv'
  <2>1. ops[o] \in OpRecord /\ ops[o].pc = "mutated"
    BY <1>8, <1>a, Begun DEF BuildCommand
  <2>2. ops'[o].pc = "built"
    BY <1>8, <1>b, <2>1 DEF BuildCommand, WithShared, At, OpRecord
  <2>3. \A p \in Op \ {o} : ops'[p] = ops[p]
    BY <1>8, <1>b DEF BuildCommand
  <2>4. \A p \in Op : Quiet(p)
    BY <2>1, <2>2, <2>3, QuietOther, QuietSame
  <2> QED BY <1>8, <1>c, <2>4 DEF BuildCommand, raftVars
<1>9. ASSUME NEW o \in Op, Reject(o) PROVE AckedInv'
  <2>1. ops[o] \in OpRecord /\ ops[o].pc \in {"mutated", "built"}
    BY <1>9, <1>a, Begun DEF Reject
  <2>2. ops'[o].pc \in {"joined", "failed"} /\ ~ops'[o].live
    BY <1>9, <1>b, <2>1, FailedFields DEF Reject
  <2>3. \A p \in Op \ {o} : ops'[p] = ops[p]
    BY <1>9, <1>b DEF Reject
  <2>4. \A p \in Op : Quiet(p)
    BY <2>1, <2>2, <2>3, QuietOther, QuietSame
  <2> QED BY <1>9, <1>c, <2>4 DEF Reject, raftVars
\* A join that was answered settles: it keeps its place and its command.
<1>e. ASSUME NEW o \in Op, ops[o].pc = "joined", ops'[o] = Settled(ops[o])
      PROVE  Quiet(o)
  <2>1. ops[o] \in OpRecord /\ ~ops[o].live
    BY <1>a, <1>e, Begun DEF AckedInv, LiveBuilt
  <2>2. o \in acked => ops[o].index # 0
    BY <1>b, <1>d
  <2> QED BY <1>e, <2>1, <2>2, SettledFields DEF Quiet
<1>10. ASSUME NEW o \in Op, CheckQueue(o) PROVE AckedInv'
  <2>1. /\ ops[o].pc = "joined" /\ ops'[o] = Settled(ops[o])
        /\ \A p \in Op \ {o} : ops'[p] = ops[p]
    BY <1>10, <1>b DEF CheckQueue
  <2>2. \A p \in Op : Quiet(p)
    BY <1>e, <2>1, QuietSame
  <2> QED BY <1>10, <1>c, <2>2 DEF CheckQueue, raftVars
<1>11. ASSUME NEW o \in Op, StartMatch(o) PROVE AckedInv'
  <2>1. PICK p \in Op, m \in Node :
          /\ ops[p].pc = "idle"
          /\ ops' = [ops EXCEPT
               ![o] = Settled(@),
               ![p] = Called("create_game", ops[o].from, m, NoArgument)]
    BY <1>11 DEF StartMatch
  <2>2. ops[o].pc = "joined"
    BY <1>11 DEF StartMatch, QueueReady
  <2>3. p # o /\ ops'[o] = Settled(ops[o])
    BY <1>b, <2>1, <2>2
  <2>4. ops'[p].pc = "called" /\ ~ops'[p].live
    BY <1>b, <2>1, <2>3 DEF Called, Begin
  <2>5. \A q \in Op \ {o, p} : ops'[q] = ops[q]
    BY <1>b, <2>1
  <2>6. \A q \in Op : Quiet(q)
    BY <1>e, <2>1, <2>2, <2>3, <2>4, <2>5, QuietOther, QuietSame
  <2> QED BY <1>11, <1>c, <2>6 DEF StartMatch, raftVars
<1>12. ASSUME NEW o \in Op, PanicInREST(o) PROVE AckedInv'
  <2>1. ops[o] \in OpRecord /\ ops[o].pc = "called"
    BY <1>12, <1>a, Begun DEF PanicInREST, Panics, CanLock
  <2>2. ops'[o].pc = "panicked" /\ ops'[o].live = ops[o].live
    BY <1>12, <1>b, <2>1 DEF PanicInREST, OpRecord
  <2>3. ~ops[o].live
    BY <2>1 DEF AckedInv, LiveBuilt
  <2>4. \A p \in Op \ {o} : ops'[p] = ops[p]
    BY <1>12, <1>b DEF PanicInREST
  <2>5. \A p \in Op : Quiet(p)
    BY <2>1, <2>2, <2>3, <2>4, QuietOther, QuietSame
  <2> QED BY <1>12, <1>c, <2>5 DEF PanicInREST, raftVars
<1>13. ASSUME NEW n \in Node, TakeSnapshot(n) PROVE AckedInv'
  <2>1. \A o \in Op : Quiet(o)
    BY <1>13, QuietSame DEF TakeSnapshot, clientVars
  <2> QED BY <1>13, <1>c, <2>1 DEF TakeSnapshot, raftVars, clientVars
\* A command that shares a deck no longer: nothing else of its execution changes.
<1>f. ASSUME NEW o \in Op, ops'[o] = [ops[o] EXCEPT !.live = FALSE]
      PROVE  /\ Quiet(o)
             /\ ops'[o].index = ops[o].index /\ ops'[o].cmd = ops[o].cmd
  <2>1. /\ ops'[o].pc = ops[o].pc /\ ~ops'[o].live /\ ops'[o].index = ops[o].index
        /\ ops'[o].cmd = ops[o].cmd /\ ops'[o].node = ops[o].node
    BY <1>b, <1>f DEF OpRecord, IdleOp
  <2> QED BY <1>d, <2>1 DEF Quiet
<1>14. ASSUME NEW n \in Node, InstallSnapshot(n) PROVE AckedInv'
  <2>1. \A o \in Op : ops'[o] \in {ops[o], [ops[o] EXCEPT !.live = FALSE]}
    BY <1>14 DEF InstallSnapshot
  <2>2. \A o \in Op : Quiet(o)
    BY <1>f, <2>1, QuietSame
  <2> QED BY <1>14, <1>c, <2>2 DEF InstallSnapshot, raftVars
<1>15. ASSUME NEW o \in Op, Enqueue(o) PROVE AckedInv'
  <2>1. ops[o] \in OpRecord /\ ops[o].pc = "built" /\ o \notin acked
    BY <1>15, <1>a, <1>d, Begun DEF Enqueue
  <2>2. /\ log' = Append(log, ops[o].cmd)
        /\ UNCHANGED <<commitIndex, leader, acked>> /\ leader = ops[o].node
        /\ \A p \in Op \ {o} : ops'[p] = ops[p]
    BY <1>15, <1>b DEF Enqueue, RaftPropose
  <2>3. /\ ops'[o].pc = "waiting" /\ ~ops'[o].live /\ ops'[o].index = Len(log) + 1
        /\ ops'[o].cmd = ops[o].cmd /\ ops'[o].node = ops[o].node
    BY <1>15, <1>b, <2>1 DEF Enqueue, OpRecord
  <2>4. /\ \A i \in 1 .. Len(log) : log'[i] = log[i]
        /\ log'[Len(log) + 1] = ops[o].cmd /\ Len(log') = Len(log) + 1
    <3>1. ops[o].cmd \in Command
      BY <2>1 DEF OpRecord
    <3> QED BY <1>b, <2>2, <3>1
  <2>5. LiveBuilt' /\ AckedOver'
    <3>1. LiveBuilt'
      BY <2>2, <2>3 DEF AckedInv, LiveBuilt
    <3>2. AckedOver'
      BY <1>b, <1>d, <2>1, <2>2 DEF AckedOver
    <3> QED BY <3>1, <3>2
  <2>6. WaitingPlaced'
    <3>1. ASSUME NEW p \in Op \ {o}, ops[p].pc = "waiting"
          PROVE  /\ ops[p].index \in 1 .. Len(log) + 1
                 /\ log'[ops[p].index] = ops[p].cmd
                 /\ ops[p].index <= commitIndex \/ ops[p].node = leader
      BY <1>b, <2>4, <3>1 DEF AckedInv, WaitingPlaced, Placed
    <3>2. Len(log) + 1 \in 1 .. Len(log')
      BY <1>b, <2>4
    <3> QED BY <2>2, <2>3, <2>4, <3>1, <3>2 DEF WaitingPlaced, Placed
  <2>7. AckedCommitted'
    BY <1>b, <1>d, <2>1, <2>2, <2>4 DEF AckedCommitted
  <2> QED BY <1>a, <2>5, <2>6, <2>7 DEF AckedInv
<1>16. ASSUME NEW n \in Node, ApplyNext(n) PROVE AckedInv'
  <2> DEFINE answered == {o \in Op : /\ ops[o].pc = "waiting" /\ ops[o].node = n
                                     /\ ops[o].index = applied[n] + 1}
  <2>1. /\ UNCHANGED <<log, commitIndex, leader>> /\ acked' = acked \cup answered
        /\ applied[n] + 1 \in 1 .. commitIndex
    BY <1>16, <1>b DEF ApplyNext, raftVars
  <2>2. ASSUME NEW o \in answered
        PROVE  /\ ops'[o].pc \in {"joined", "ok"} /\ ~ops'[o].live
               /\ ops'[o].index = ops[o].index /\ ops'[o].cmd = ops[o].cmd
               /\ ops[o].index \in 1 .. commitIndex /\ log[ops[o].index] = ops[o].cmd
    <3>1. ops[o] \in OpRecord /\ ~ops[o].live
      BY <1>a, Begun DEF AckedInv, LiveBuilt
    <3>2. \E pc \in {"joined", "ok"} : ops'[o] = [ops[o] EXCEPT !.pc = pc]
      BY <1>16 DEF ApplyNext
    <3>3. log[ops[o].index] = ops[o].cmd
      BY DEF AckedInv, WaitingPlaced, Placed
    <3> QED BY <2>1, <3>1, <3>2, <3>3 DEF OpRecord
  <2>3. ASSUME NEW o \in Op \ answered
        PROVE  Quiet(o)
    <3>1. ops'[o] \in {ops[o], [ops[o] EXCEPT !.live = FALSE]}
      BY <1>16 DEF ApplyNext
    <3> QED BY <1>f, <3>1, QuietSame
  <2>4. LiveBuilt' /\ AckedOver'
    BY <1>b, <2>1, <2>2, <2>3 DEF LiveBuilt, AckedOver, Quiet
  <2>5. WaitingPlaced'
    BY <2>1, <2>2, <2>3 DEF AckedInv, WaitingPlaced, Placed, Quiet
  <2>6. AckedCommitted'
    <3>1. ASSUME NEW o \in acked' PROVE /\ ops'[o].index \in 1 .. commitIndex
                                        /\ log[ops'[o].index] = ops'[o].cmd
      BY <1>b, <1>d, <2>1, <2>2, <2>3, <3>1 DEF Quiet
    <3> QED BY <2>1, <3>1 DEF AckedCommitted
  <2> QED BY <1>a, <2>4, <2>5, <2>6 DEF AckedInv
<1>17. CASE LoseLeadership
  <2>1. PICK kept \in SUBSET {o \in Op : /\ ops[o].pc = "waiting"
                                         /\ ops[o].index <= commitIndex} :
          ops' = [o \in Op |-> IF /\ ops[o].pc = "waiting" /\ ops[o].node = leader
                                  /\ o \notin kept
                               THEN Failed(ops[o]) ELSE ops[o]]
    BY <1>17 DEF LoseLeadership
  <2>2. UNCHANGED <<log, commitIndex, acked>>
    BY <1>17 DEF LoseLeadership, RaftStepDown
  <2>3. ASSUME NEW o \in Op
        PROVE  /\ Quiet(o)
               /\ ops'[o].pc = "waiting" => ops[o].index <= commitIndex
    <3>1. CASE ops'[o] = ops[o] /\ (ops[o].pc = "waiting" => o \in kept \/ ops[o].node # leader)
      BY <3>1, QuietSame DEF AckedInv, WaitingPlaced
    <3>2. CASE ops[o].pc = "waiting" /\ ops'[o] = Failed(ops[o])
      <4>1. ops[o] \in OpRecord
        BY <1>a, <3>2, Begun
      <4> QED BY <3>2, <4>1, FailedFields, QuietOther
    <3> QED BY <2>1, <3>1, <3>2
  <2>4. LiveBuilt' /\ AckedOver'
    BY <1>b, <2>2, <2>3 DEF Quiet, LiveBuilt, AckedOver
  <2>5. WaitingPlaced'
    BY <2>2, <2>3 DEF Quiet, AckedInv, WaitingPlaced, Placed
  <2>6. AckedCommitted'
    BY <1>b, <2>2, <2>3 DEF Quiet, AckedInv, AckedCommitted
  <2> QED BY <1>a, <2>4, <2>5, <2>6 DEF AckedInv
<1>18. CASE Commit
  <2>1. commitIndex' = commitIndex + 1 /\ UNCHANGED <<log, leader, ops, acked>>
    BY <1>18 DEF Commit, RaftCommit, clientVars
  <2>2. LiveBuilt' /\ AckedOver'
    BY <2>1 DEF AckedInv, LiveBuilt, AckedOver
  <2>3. WaitingPlaced'
    <3>1. ASSUME NEW o \in Op, ops[o].pc = "waiting"
          PROVE  /\ Placed(o)
                 /\ ops[o].index <= commitIndex + 1 \/ ops[o].node = leader
      BY <1>b, <3>1 DEF AckedInv, WaitingPlaced, Placed
    <3> QED BY <2>1, <3>1 DEF WaitingPlaced, Placed
  <2>4. AckedCommitted'
    <3>1. \A o \in acked : ops[o].index \in 1 .. commitIndex + 1
      BY <1>b, <1>d
    <3> QED BY <1>d, <2>1, <3>1 DEF AckedCommitted
  <2> QED BY <1>a, <2>2, <2>3, <2>4 DEF AckedInv
<1>19. ASSUME NEW n \in Node, BecomeLeader(n) PROVE AckedInv'
  <2>1. PICK k \in commitIndex .. Len(log) : log' = SubSeq(log, 1, k)
    BY <1>19 DEF BecomeLeader, RaftElect
  <2>2. /\ leader = NoNode /\ UNCHANGED <<commitIndex, ops, acked>>
    BY <1>19 DEF BecomeLeader, RaftElect, clientVars
  <2>3. /\ \A i \in 1 .. commitIndex : log'[i] = log[i] /\ i \in 1 .. Len(log')
    BY <1>b, <2>1
  <2>4. ASSUME NEW o \in Op, ops[o].pc = "waiting"
        PROVE  ops[o].index \in 1 .. commitIndex /\ log[ops[o].index] = ops[o].cmd
    <3>1. ops[o] \in OpRecord
      BY <1>a, <2>4, Begun
    <3>2. ops[o].node # leader
      BY <2>2, <3>1, RaftAssumption DEF OpRecord
    <3> QED BY <1>b, <2>4, <3>2 DEF AckedInv, WaitingPlaced, Placed
  <2>5. LiveBuilt' /\ AckedOver'
    BY <2>2 DEF AckedInv, LiveBuilt, AckedOver
  <2>6. WaitingPlaced'
    <3>1. \A o \in Op : ops[o].pc = "waiting" => ops[o].index <= commitIndex
      BY <1>b, <2>4
    <3> QED BY <2>2, <2>3, <2>4, <3>1 DEF WaitingPlaced, Placed
  <2>7. AckedCommitted'
    BY <1>d, <2>2, <2>3 DEF AckedCommitted
  <2> QED BY <1>a, <2>5, <2>6, <2>7 DEF AckedInv
<1>20. ASSUME NEW n \in Node, Crash(n) PROVE AckedInv'
  <2>1. /\ UNCHANGED <<log, commitIndex, acked>>
        /\ leader' = IF leader = n THEN NoNode ELSE leader
        /\ \A o \in Op : ops'[o] = AfterCrash(ops[o], n)
    BY <1>20 DEF Crash, RaftCrash
  <2>2. ASSUME NEW o \in Op
        PROVE  Quiet(o) /\ (ops'[o].pc = "waiting" => ops[o].node # n)
    <3>1. ops[o] \in OpRecord \cup {IdleOp} /\ (ops[o].live => ops[o].pc = "built")
      BY <1>b DEF AckedInv, LiveBuilt
    <3>2. o \in acked => ops[o].index # 0 /\ ops[o].pc \in {"joined", "ok"}
      BY <1>b, <1>d
    <3> QED BY <2>1, <3>1, <3>2, CrashFields DEF Quiet
  <2>3. LiveBuilt' /\ AckedOver'
    BY <1>b, <2>1, <2>2 DEF Quiet, LiveBuilt, AckedOver
  <2>4. WaitingPlaced'
    BY <2>1, <2>2 DEF Quiet, AckedInv, WaitingPlaced, Placed
  <2>5. AckedCommitted'
    BY <1>b, <2>1, <2>2 DEF Quiet, AckedInv, AckedCommitted
  <2> QED BY <1>a, <2>3, <2>4, <2>5 DEF AckedInv
<1>21. ASSUME NEW o \in Op, PanicInCallback(o) \/ MatchUnanswered(o) PROVE AckedInv'
  <2>1. CASE PanicInCallback(o)
    <3>1. ops[o].node \in Node
      BY <2>1, <1>a, Begun DEF PanicInCallback, Panics, CanLock, OpRecord
    <3> QED BY <1>20, <2>1, <3>1 DEF PanicInCallback
  <2>2. CASE MatchUnanswered(o)
    <3>1. ops[o].from \in Node
      BY <2>2, <1>a, Begun DEF MatchUnanswered, QueueReady, OpRecord
    <3> QED BY <1>20, <2>2, <3>1 DEF MatchUnanswered
  <2> QED BY <1>21, <2>1, <2>2
<1>22. ASSUME NEW n \in Node, Restart(n) PROVE AckedInv'
  BY <1>20, <1>22 DEF Restart
<1> QED
  BY <1>1, <1>2, <1>3, <1>4, <1>5, <1>6, <1>7, <1>8, <1>9, <1>10, <1>11, <1>12, <1>13,
     <1>14, <1>15, <1>16, <1>17, <1>18, <1>19, <1>21, <1>22
  DEF Next, HandlerStep, ServerStep

\* Whoever was told of success has his command in the committed log, for any
\* number of servers, losses of the lead, restarts and panics.
THEOREM AckedCommittedCorrect == Spec => []AckedCommitted
<1>1. AckedInv => AckedCommitted
  BY DEF AckedInv
<1> QED
  BY <1>1, AckedInit, AckedStep, PTL DEF Spec

-----------------------------------------------------------------------------
(***************************************************************************)
(* Whoever is matched had joined before: the proof of                      *)
(* MatchedPlayersJoined.                                                   *)
(***************************************************************************)

\* A committed command, the i-th or an earlier one, let p join.
Joined(p, i) ==
  \E j \in 1 .. commitIndex :
    j <= i /\ log[j].Op = "join_game_queue" /\ log[j].PlayerID = p

\* The players a match is made of and those it leaves waiting.
Named(cmd) ==
  {cmd.GameId.P1, cmd.GameId.P2} \cup
    {cmd.GameQueue[k] : k \in 1 .. Len(cmd.GameQueue)}

QueuesJoined ==
  \A i \in 0 .. commitIndex :
    \A k \in 1 .. Len(promised[i + 1].gameQueue) :
      Joined(promised[i + 1].gameQueue[k], i)

LogJoined ==
  \A i \in 1 .. Len(log) :
    log[i].Op = "create_game" => \A p \in Named(log[i]) : Joined(p, i - 1)

\* A queue that was read may be stale when its command is built, but it holds
\* nobody who had not joined.
CommandsJoined ==
  \A o \in Op :
    ops[o].pc = "built" /\ ops[o].cmd.Op = "create_game" =>
      \A p \in Named(ops[o].cmd) : Joined(p, commitIndex)

MutatedKinds == \A o \in Op : ops[o].pc = "mutated" => ops[o].cmd.Op # "create_game"

MatchInv ==
  /\ AgreementInv /\ AckedInv
  /\ QueuesJoined /\ LogJoined /\ CommandsJoined /\ MutatedKinds

-----------------------------------------------------------------------------
\* What a step may do to an execution that is not building a match.
Harmless(o) ==
  /\ ops'[o].pc = "mutated" => ops'[o].cmd.Op # "create_game"
  /\ ops'[o].pc = "built" /\ ops'[o].cmd.Op = "create_game" =>
       /\ ops[o].pc = "built" /\ ops[o].cmd.Op = "create_game"
       /\ Named(ops'[o].cmd) = Named(ops[o].cmd)

LEMMA HarmlessSame ==
  ASSUME MatchInv, NEW o \in Op, ops'[o] = ops[o] PROVE Harmless(o)
  BY DEF MatchInv, MutatedKinds, Harmless

LEMMA HarmlessOther ==
  ASSUME NEW o \in Op, \/ ops'[o].pc \notin {"mutated", "built"}
                       \/ ops'[o].cmd.Op # "create_game"
  PROVE  Harmless(o)
  BY DEF Harmless

LEMMA HarmlessLive ==
  ASSUME MatchInv, NEW o \in Op, ops'[o] = [ops[o] EXCEPT !.live = FALSE]
  PROVE  Harmless(o)
<1>1. ops[o] \in OpRecord \cup {IdleOp}
  BY DEF MatchInv, AgreementInv, TypeOK
<1>2. ops'[o].pc = ops[o].pc /\ ops'[o].cmd = ops[o].cmd
  BY <1>1 DEF OpRecord, IdleOp
<1> QED BY <1>2 DEF MatchInv, MutatedKinds, Harmless

\* A step that leaves the log alone.
LEMMA HarmlessKeeps ==
  ASSUME MatchInv, UNCHANGED <<log, commitIndex, promised>>,
         \A o \in Op : Harmless(o)
  PROVE  QueuesJoined' /\ LogJoined' /\ CommandsJoined' /\ MutatedKinds'
<1>1. QueuesJoined' /\ LogJoined'
  BY DEF MatchInv, QueuesJoined, LogJoined, Joined
<1>2. CommandsJoined'
  BY DEF MatchInv, CommandsJoined, Harmless, Joined
<1>3. MutatedKinds'
  BY DEF MutatedKinds, Harmless
<1> QED BY <1>1, <1>2, <1>3

\* The next stage of an execution that makes no match.
LEMMA StageHarmless ==
  ASSUME MatchInv, NEW o \in Op, ops[o].pc # "idle", NEW pc,
         NEW cmd, cmd.Op # "create_game",
         ops' = [ops EXCEPT ![o] = At(ops[o], pc, cmd)]
  PROVE  \A p \in Op : Harmless(p)
<1>1. ops \in [Op -> OpRecord \cup {IdleOp}] /\ ops[o] \in OpRecord
  BY Begun DEF MatchInv, AgreementInv, TypeOK
<1>2. ops'[o].cmd = cmd
  BY <1>1 DEF At, OpRecord
<1>3. ASSUME NEW p \in Op \ {o} PROVE Harmless(p)
  BY <1>1, HarmlessSame
<1> QED BY <1>2, <1>3, HarmlessOther

LEMMA CrashHarmless ==
  ASSUME NEW op \in OpRecord \cup {IdleOp}, NEW n \in Node
  PROVE  LET new == AfterCrash(op, n)
         IN new.pc \in {"mutated", "built"} => new.pc = op.pc /\ new.cmd = op.cmd
<1> DEFINE orphan == IF op.from = n THEN [op EXCEPT !.from = NoNode] ELSE op
<1>1. CASE op = IdleOp
  BY <1>1, RaftAssumption DEF AfterCrash, IdleOp, Running
<1>2. CASE op \in OpRecord
  <2>1. orphan \in OpRecord /\ orphan.pc = op.pc /\ orphan.cmd = op.cmd
    BY <1>2 DEF OpRecord
  <2>2. Failed(orphan) \in OpRecord /\ Failed(orphan).pc \in {"joined", "failed"}
    BY <2>1, OpTypes, FailedFields
  <2>3. [Failed(orphan) EXCEPT !.pc = "lost"].pc = "lost"
    BY <2>2 DEF OpRecord
  <2>4. CASE op.pc = "joined" /\ op.from = n
    <3>1. AfterCrash(op, n) = Settled(orphan)
      BY <2>4 DEF AfterCrash, Running
    <3> HIDE DEF orphan
    <3> QED BY <2>1, <3>1, SettledFields
  <2>5. CASE op.pc \in Running /\ op.node = n
    BY <2>1, <2>2, <2>3, <2>5 DEF AfterCrash, Running
  <2>6. CASE /\ ~(op.pc = "joined" /\ op.from = n)
             /\ ~(op.pc \in Running /\ op.node = n)
    BY <2>1, <2>6 DEF AfterCrash, Running
  <2> QED BY <2>4, <2>5, <2>6
<1> QED BY <1>1, <1>2

\* Who waits on a server had joined when its last command was committed.
LEMMA ServerQueueJoined ==
  ASSUME MatchInv, NEW n \in Node, NEW k \in 1 .. Len(fsm[n].gameQueue)
  PROVE  Joined(fsm[n].gameQueue[k], commitIndex)
<1>1. applied[n] \in Nat /\ commitIndex \in Nat
  BY DEF MatchInv, AgreementInv, TypeOK
<1>2. applied[n] <= commitIndex /\ fsm[n].gameQueue = promised[applied[n] + 1].gameQueue
  BY DEF MatchInv, AgreementInv, StoresFollowLog, ShowsPrefix, LogView
<1>3. Joined(fsm[n].gameQueue[k], applied[n])
  BY <1>1, <1>2 DEF MatchInv, QueuesJoined
<1> QED BY <1>1, <1>2, <1>3 DEF Joined

LEMMA MatchInit == Init => MatchInv
<1> SUFFICES ASSUME Init PROVE MatchInv
  OBVIOUS
<1>1. QueuesJoined
  <2>1. Base.gameQueue = <<>>
    BY DEF Base, NewStore
  <2>2. \A i \in 0 .. commitIndex : promised[i + 1] = Base
    BY DEF Init, RaftInit
  <2> QED BY <2>1, <2>2 DEF QueuesJoined
<1>2. LogJoined /\ CommandsJoined /\ MutatedKinds
  BY DEF Init, RaftInit, IdleOp, LogJoined, CommandsJoined, MutatedKinds
<1> QED BY <1>1, <1>2, AgreementInit, AckedInit DEF MatchInv

-----------------------------------------------------------------------------
LEMMA MatchStep == MatchInv /\ [Next]_vars => MatchInv'
<1> SUFFICES ASSUME MatchInv, [Next]_vars PROVE MatchInv'
  OBVIOUS
<1>a. TypeOK /\ AgreementInv' /\ AckedInv'
  BY AgreementStep, AckedStep DEF MatchInv, AgreementInv
<1>b. /\ commitIndex \in Nat /\ Len(log) \in Nat /\ commitIndex <= Len(log)
      /\ log \in Seq(Command) /\ promised \in Seq(StoreState)
      /\ ops \in [Op -> OpRecord \cup {IdleOp}]
      /\ fsm \in [Node -> StoreState]
  BY <1>a DEF TypeOK
<1>c. ASSUME UNCHANGED <<log, commitIndex, promised>>, \A o \in Op : Harmless(o)
      PROVE  MatchInv'
  BY <1>a, <1>c, HarmlessKeeps DEF MatchInv
<1>1. CASE UNCHANGED vars
  <2>1. \A o \in Op : Harmless(o)
    BY <1>1, HarmlessSame DEF vars, clientVars
  <2> QED BY <1>1, <1>c, <2>1 DEF vars, raftVars
<1>2. ASSUME NEW o \in Op, Request(o) PROVE MatchInv'
  <2>1. /\ UNCHANGED <<log, commitIndex, promised>>
        /\ \A p \in Op \ {o} : ops'[p] = ops[p]
        /\ ops'[o].pc = "called" \/ ops'[o].cmd.Op # "create_game"
    <3>1. ASSUME NEW kind \in AdminKind, NEW c \in AdminCommands(kind)
          PROVE  c.Op # "create_game"
      <4>1. Blank(kind).Op = kind /\ Blank(kind) \in Command
        BY BlankTypes DEF AdminKind, Operation, Blank, ZeroCommand
      <4>2. ASSUME NEW k, NEW v, c = [Blank("set") EXCEPT !.Key = k, !.Value = v]
            PROVE  c.Op = "set"
        BY <4>2 DEF Blank, ZeroCommand
      <4>3. ASSUME NEW m, c = [Blank(kind) EXCEPT !.MemberID = m]
            PROVE  c.Op = kind
        BY <4>1, <4>3 DEF Command
      <4>4. CASE kind = "set"
        <5>1. PICK k \in Key, v \in Value : c = SetCommand(k, v)
          BY <4>4 DEF AdminCommands
        <5> QED BY <4>2, <5>1 DEF SetCommand
      <4>5. CASE kind # "set"
        <5>1. PICK m \in MemberID : c = [Blank(kind) EXCEPT !.MemberID = {m}]
          BY <4>5 DEF AdminCommands
        <5> QED BY <4>3, <5>1 DEF AdminKind
      <4> QED BY <4>4, <4>5
    <3>2. CASE \E kind \in AdminKind : AdminRequest(o, kind)
      BY <1>b, <3>1, <3>2 DEF AdminRequest, Begin, raftVars
    <3>3. CASE \E kind \in Kinds : GameRequest(o, kind)
      BY <1>b, <3>3 DEF GameRequest, Called, Begin, raftVars
    <3> QED BY <1>2, <3>2, <3>3 DEF Request
  <2>2. \A p \in Op : Harmless(p)
    BY <2>1, HarmlessSame, HarmlessOther
  <2> QED BY <1>c, <2>1, <2>2
\* The commands of a stage keep the operation they had.
<1>d. ASSUME NEW o \in Op, ops[o].pc # "idle"
      PROVE  ops[o] \in OpRecord /\ ops[o].cmd \in Command
  BY <1>a, <1>d, Begun DEF OpRecord
<1>3. ASSUME NEW o \in Op, CreatePlayer(o) PROVE MatchInv'
  <2>1. ops[o].pc # "idle" /\ ops[o].cmd.Op = "create_player"
    BY <1>3 DEF CreatePlayer, CanLock
  <2>2. [ops[o].cmd EXCEPT !.PlayerID = NextId(ops[o].node)].Op # "create_game"
    BY <1>d, <2>1 DEF Command
  <2>3. \A p \in Op : Harmless(p)
    BY <1>3, <2>1, <2>2, StageHarmless DEF CreatePlayer
  <2> QED BY <1>3, <1>c, <2>3 DEF CreatePlayer, raftVars
<1>4. ASSUME NEW o \in Op, OpenPack(o) PROVE MatchInv'
  <2> DEFINE n == ops[o].node
             player == fsm[n].players[ops[o].player]
             cmd(i) == [ops[o].cmd EXCEPT !.PlayerID = player.Id,
                          !.PlayerCards = Append(player.Cards, fsm[n].Cards[i])]
  <2>1. ops[o].pc # "idle" /\ ops[o].cmd.Op = "open_pack"
    BY <1>4 DEF OpenPack, CanLock
  <2>2. PICK i \in 1 .. Len(fsm[n].Cards) :
          ops' = [p \in Op |-> IF p = o THEN At(ops[o], "mutated", cmd(i))
                                        ELSE SwapSeen(ops[p], n, i)]
    BY <1>4 DEF OpenPack
  <2>3. Harmless(o)
    <3>1. cmd(i).Op = "open_pack"
      BY <1>d, <2>1 DEF Command
    <3>2. ops'[o].cmd = cmd(i)
      BY <1>d, <2>1, <2>2 DEF At, OpRecord
    <3> QED BY <3>1, <3>2, HarmlessOther
  <2>4. ASSUME NEW p \in Op \ {o} PROVE Harmless(p)
    <3>1. CASE ~ops[p].live
      BY <2>2, <3>1, HarmlessSame DEF SwapSeen
    <3>2. CASE ops[p].live
      <4>1. ops[p].pc = "built"
        BY <3>2 DEF MatchInv, AckedInv, LiveBuilt
      <4>2. ops[p] \in OpRecord /\ ops[p].cmd \in Command
        BY <1>d, <4>1
      <4>3. /\ ops'[p].pc = "built" /\ ops'[p].cmd.Op = ops[p].cmd.Op
            /\ ops'[p].cmd.GameId = ops[p].cmd.GameId
            /\ ops'[p].cmd.GameQueue = ops[p].cmd.GameQueue
        BY <2>2, <4>1, <4>2 DEF SwapSeen, At, OpRecord, Command
      <4> QED BY <4>1, <4>3 DEF Harmless, Named
    <3> QED BY <3>1, <3>2
  <2> QED BY <1>4, <1>c, <2>3, <2>4 DEF OpenPack, raftVars
<1>5. ASSUME NEW o \in Op, JoinQueue(o) PROVE MatchInv'
  <2>1. ops[o].pc # "idle" /\ ops[o].cmd.Op = "join_game_queue"
    BY <1>5 DEF JoinQueue, CanLock
  <2>2. [ops[o].cmd EXCEPT !.PlayerID = ops[o].player].Op # "create_game"
    BY <1>d, <2>1 DEF Command
  <2>3. \A p \in Op : Harmless(p)
    BY <1>5, <2>1, <2>2, StageHarmless DEF JoinQueue
  <2> QED BY <1>5, <1>c, <2>3 DEF JoinQueue, raftVars
<1>6. ASSUME NEW o \in Op, PlayCard(o) PROVE MatchInv'
  <2>1. ops[o].pc # "idle" /\ ops[o].cmd.Op = "play_cards"
    BY <1>6 DEF PlayCard, CanLock
  <2>2. \A game : [ops[o].cmd EXCEPT !.GameId = game].Op # "create_game"
    BY <1>d, <2>1 DEF Command
  <2>3. \A p \in Op : Harmless(p)
    BY <1>6, <2>1, <2>2, StageHarmless DEF PlayCard
  <2> QED BY <1>6, <1>c, <2>3 DEF PlayCard, raftVars
<1>7. ASSUME NEW o \in Op, BuildCommand(o) PROVE MatchInv'
  <2>1. /\ ops[o].pc = "mutated" /\ ops[o].cmd.Op # "create_game"
        /\ ops' = [ops EXCEPT ![o] = WithShared(ops[o], fsm[leader])]
    BY <1>7 DEF BuildCommand, MatchInv, MutatedKinds
  <2>2. ops[o] \in OpRecord /\ ops[o].cmd \in Command
    BY <1>d, <2>1
  <2>3. WithShared(ops[o], fsm[leader]).cmd.Op = ops[o].cmd.Op
    BY <2>2 DEF WithShared, At, OpRecord, Command
  <2>4. \A p \in Op : Harmless(p)
    BY <1>b, <2>1, <2>3, HarmlessSame, HarmlessOther
  <2> QED BY <1>7, <1>c, <2>4 DEF BuildCommand, raftVars
<1>8. ASSUME NEW o \in Op, Reject(o) PROVE MatchInv'
  <2>1. /\ ops[o].pc # "idle" /\ ops'[o] = Failed(ops[o])
        /\ \A p \in Op \ {o} : ops'[p] = ops[p]
    BY <1>8, <1>b DEF Reject
  <2>2. \A p \in Op : Harmless(p)
    BY <1>d, <2>1, FailedFields, HarmlessSame, HarmlessOther
  <2> QED BY <1>8, <1>c, <2>2 DEF Reject, raftVars
<1>9. ASSUME NEW o \in Op, CheckQueue(o) PROVE MatchInv'
  <2>1. /\ ops[o].pc # "idle" /\ ops'[o] = Settled(ops[o])
        /\ \A p \in Op \ {o} : ops'[p] = ops[p]
    BY <1>9, <1>b DEF CheckQueue
  <2>2. \A p \in Op : Harmless(p)
    BY <1>d, <2>1, SettledFields, HarmlessSame, HarmlessOther
  <2> QED BY <1>9, <1>c, <2>2 DEF CheckQueue, raftVars
<1>10. ASSUME NEW o \in Op, StartMatch(o) PROVE MatchInv'
  <2>1. PICK p \in Op, m \in Node :
          ops' = [ops EXCEPT
               ![o] = Settled(@),
               ![p] = Called("create_game", ops[o].from, m, NoArgument)]
    BY <1>10 DEF StartMatch
  <2>2. ops[o].pc # "idle"
    BY <1>10 DEF StartMatch, QueueReady
  <2>3. /\ ops'[p].pc = "called" /\ (p # o => ops'[o] = Settled(ops[o]))
        /\ \A q \in Op \ {o, p} : ops'[q] = ops[q]
    BY <1>b, <2>1 DEF Called, Begin
  <2>4. \A q \in Op : Harmless(q)
    BY <1>d, <2>2, <2>3, SettledFields, HarmlessSame, HarmlessOther
  <2> QED BY <1>10, <1>c, <2>4 DEF StartMatch, raftVars
<1>11. ASSUME NEW o \in Op, PanicInREST(o) PROVE MatchInv'
  <2>1. /\ ops[o].pc # "idle" /\ ops'[o] = [ops[o] EXCEPT !.pc = "panicked"]
        /\ \A p \in Op \ {o} : ops'[p] = ops[p]
    BY <1>11, <1>b DEF PanicInREST, Panics, CanLock
  <2>2. ops'[o].pc = "panicked"
    BY <1>d, <2>1 DEF OpRecord
  <2>3. \A p \in Op : Harmless(p)
    BY <2>1, <2>2, HarmlessSame, HarmlessOther
  <2> QED BY <1>11, <1>c, <2>3 DEF PanicInREST, raftVars
<1>12. ASSUME NEW n \in Node, TakeSnapshot(n) PROVE MatchInv'
  <2>1. \A o \in Op : Harmless(o)
    BY <1>12, HarmlessSame DEF TakeSnapshot, clientVars
  <2> QED BY <1>12, <1>c, <2>1 DEF TakeSnapshot, raftVars
<1>13. ASSUME NEW n \in Node, InstallSnapshot(n) PROVE MatchInv'
  <2>1. \A o \in Op : ops'[o] \in {ops[o], [ops[o] EXCEPT !.live = FALSE]}
    BY <1>13 DEF InstallSnapshot
  <2>2. \A o \in Op : Harmless(o)
    BY <2>1, HarmlessSame, HarmlessLive
  <2> QED BY <1>13, <1>c, <2>2 DEF InstallSnapshot, raftVars
<1>14. ASSUME NEW n \in Node, ApplyNext(n) PROVE MatchInv'
  <2>1. ASSUME NEW o \in Op PROVE Harmless(o)
    <3>1. CASE ops'[o] \in {ops[o], [ops[o] EXCEPT !.live = FALSE]}
      BY <3>1, HarmlessSame, HarmlessLive
    <3>2. CASE /\ ops[o].pc = "waiting"
               /\ \E pc \in {"joined", "ok"} : ops'[o] = [ops[o] EXCEPT !.pc = pc]
      <4>1. ops'[o].pc \in {"joined", "ok"}
        BY <1>d, <3>2 DEF OpRecord
      <4> QED BY <4>1, HarmlessOther
    <3> QED BY <1>14, <3>1, <3>2 DEF ApplyNext
  <2> QED BY <1>14, <1>c, <2>1 DEF ApplyNext, raftVars
<1>15. CASE LoseLeadership
  <2>1. ASSUME NEW o \in Op PROVE Harmless(o)
    <3>1. \/ ops'[o] = ops[o]
          \/ ops[o].pc = "waiting" /\ ops'[o] = Failed(ops[o])
      BY <1>15 DEF LoseLeadership
    <3> QED BY <1>d, <3>1, FailedFields, HarmlessSame, HarmlessOther
  <2> QED BY <1>15, <1>c, <2>1 DEF LoseLeadership, RaftStepDown
<1>16. ASSUME NEW n \in Node, Crash(n) PROVE MatchInv'
  <2>1. ASSUME NEW o \in Op PROVE Harmless(o)
    <3>1. ops'[o] = AfterCrash(ops[o], n) /\ ops[o] \in OpRecord \cup {IdleOp}
      BY <1>16, <1>b DEF Crash
    <3>2. ops'[o].pc \in {"mutated", "built"} =>
            ops'[o].pc = ops[o].pc /\ ops'[o].cmd = ops[o].cmd
      BY <3>1, CrashHarmless
    <3> QED BY <3>2 DEF Harmless, MatchInv, MutatedKinds
  <2> QED BY <1>16, <1>c, <2>1 DEF Crash, RaftCrash
<1>17. ASSUME NEW o \in Op, PanicInCallback(o) \/ MatchUnanswered(o) PROVE MatchInv'
  <2>1. CASE PanicInCallback(o)
    <3>1. ops[o].node \in Node
      BY <2>1, <1>a, Begun DEF PanicInCallback, Panics, CanLock, OpRecord
    <3> QED BY <1>16, <2>1, <3>1 DEF PanicInCallback
  <2>2. CASE MatchUnanswered(o)
    <3>1. ops[o].from \in Node
      BY <2>2, <1>a, Begun DEF MatchUnanswered, QueueReady, OpRecord
    <3> QED BY <1>16, <2>2, <3>1 DEF MatchUnanswered
  <2> QED BY <1>17, <2>1, <2>2
<1>18. ASSUME NEW n \in Node, Restart(n) PROVE MatchInv'
  BY <1>16, <1>18 DEF Restart
<1>19. ASSUME NEW o \in Op, CreateMatch(o) PROVE MatchInv'
  <2> DEFINE queue == fsm[ops[o].node].gameQueue
             cmd == [ops[o].cmd EXCEPT !.GameId = NewMatch(o, queue[1], queue[2]),
                                       !.GameQueue = NewQueue(queue)]
  <2>1. /\ UNCHANGED <<log, commitIndex, promised>>
        /\ ops' = [ops EXCEPT ![o] = At(ops[o], "built", cmd)]
        /\ ops[o].pc = "called" /\ Len(queue) >= 2
    BY <1>19 DEF CreateMatch, CanLock, raftVars
  <2>2. ops[o] \in OpRecord /\ ops[o].cmd \in Command /\ ops[o].node \in Node
    BY <1>d, <2>1 DEF OpRecord
  <2>3. queue \in Seq(PlayerId)
    BY <1>b, <2>2 DEF StoreState
  <2>4. \A k \in 1 .. Len(queue) : Joined(queue[k], commitIndex)
    BY <2>2, ServerQueueJoined
  <2>5. ASSUME NEW p \in Named(cmd) PROVE Joined(p, commitIndex)
    <3>1. /\ cmd.GameId = NewMatch(o, queue[1], queue[2])
          /\ cmd.GameQueue = NewQueue(queue)
      BY <2>2 DEF Command
    <3>2. \E k \in 1 .. Len(queue) : p = queue[k]
      <4>1. CASE p \in {queue[1], queue[2]}
        BY <2>1, <2>3, <4>1
      <4>2. CASE \E k \in 1 .. Len(NewQueue(queue)) : p = NewQueue(queue)[k]
        <5>1. PICK k \in 1 .. Len(NewQueue(queue)) : p = NewQueue(queue)[k]
          BY <4>2
        <5> HIDE DEF queue
        <5>2. /\ Len(NewQueue(queue)) = Len(queue) - 2
              /\ \A i \in 1 .. Len(NewQueue(queue)) : NewQueue(queue)[i] = queue[i + 2]
          BY <2>1, <2>3 DEF NewQueue
        <5>3. Len(queue) \in Nat /\ k + 2 \in 1 .. Len(queue) /\ p = queue[k + 2]
          BY <2>3, <5>1, <5>2
        <5> QED BY <5>3
      <4> HIDE DEF cmd, queue
      <4> QED BY <3>1, <4>1, <4>2, <2>5 DEF Named, NewMatch
    <3> QED BY <2>4, <3>2
  <2>6. ops'[o].cmd = cmd /\ ops'[o].pc = "built"
    BY <1>b, <2>1, <2>2 DEF At, OpRecord
  <2>7. \A p \in Op \ {o} : ops'[p] = ops[p]
    BY <1>b, <2>1
  <2> HIDE DEF cmd, queue
  <2>8. QueuesJoined' /\ LogJoined'
    BY <2>1 DEF MatchInv, QueuesJoined, LogJoined, Joined
  <2>9. CommandsJoined'
    BY <2>1, <2>5, <2>6, <2>7 DEF MatchInv, CommandsJoined, Joined
  <2>10. MutatedKinds'
    BY <2>6, <2>7 DEF MatchInv, MutatedKinds
  <2> QED BY <1>a, <2>8, <2>9, <2>10 DEF MatchInv
<1>20. ASSUME NEW o \in Op, Enqueue(o) PROVE MatchInv'
  <2>1. /\ ops[o].pc = "built" /\ log' = Append(log, ops[o].cmd)
        /\ UNCHANGED <<commitIndex, promised>>
        /\ \A p \in Op \ {o} : ops'[p] = ops[p]
    BY <1>20, <1>b DEF Enqueue, RaftPropose
  <2>2. ops[o] \in OpRecord /\ ops[o].cmd \in Command
    BY <1>d, <2>1
  <2>3. ops'[o].pc = "waiting"
    BY <1>20, <1>b, <2>2 DEF Enqueue, OpRecord
  <2>4. /\ Len(log') = Len(log) + 1 /\ log'[Len(log) + 1] = ops[o].cmd
        /\ \A i \in 1 .. Len(log) : log'[i] = log[i]
    BY <1>b, <2>1, <2>2
  <2>5. \A p, i : Joined(p, i) => Joined(p, i)'
    BY <1>b, <2>1, <2>4 DEF Joined
  <2>6. LogJoined'
    <3> SUFFICES ASSUME NEW i \in 1 .. Len(log) + 1, log'[i].Op = "create_game",
                        NEW p \in Named(log'[i])
                 PROVE  Joined(p, i - 1)'
      BY <2>4 DEF LogJoined
    <3>1. CASE i \in 1 .. Len(log)
      BY <2>4, <2>5, <3>1 DEF MatchInv, LogJoined
    <3>2. CASE i = Len(log) + 1
      <4>1. Joined(p, commitIndex)
        BY <2>1, <2>4, <3>2 DEF MatchInv, CommandsJoined
      <4>2. Joined(p, i - 1)
        BY <1>b, <3>2, <4>1 DEF Joined
      <4> QED BY <2>5, <4>2
    <3> QED BY <1>b, <3>1, <3>2
  <2>7. QueuesJoined'
    BY <2>1, <2>5 DEF MatchInv, QueuesJoined
  <2>8. CommandsJoined'
    BY <2>1, <2>3, <2>5 DEF MatchInv, CommandsJoined
  <2>9. MutatedKinds'
    BY <2>1, <2>3 DEF MatchInv, MutatedKinds
  <2> QED BY <1>a, <2>6, <2>7, <2>8, <2>9 DEF MatchInv
<1>21. ASSUME NEW n \in Node, BecomeLeader(n) PROVE MatchInv'
  <2>1. PICK k \in commitIndex .. Len(log) : log' = SubSeq(log, 1, k)
    BY <1>21 DEF BecomeLeader, RaftElect
  <2>2. UNCHANGED <<commitIndex, ops, promised>>
    BY <1>21 DEF BecomeLeader, RaftElect, clientVars
  <2>3. /\ Len(log') = k /\ \A i \in 1 .. k : log'[i] = log[i] /\ i \in 1 .. Len(log)
        /\ \A i \in 1 .. commitIndex : log'[i] = log[i]
    BY <1>b, <2>1
  <2>4. \A p, i : Joined(p, i) => Joined(p, i)'
    BY <2>2, <2>3 DEF Joined
  <2>5. LogJoined'
    BY <2>3, <2>4 DEF MatchInv, LogJoined
  <2>6. QueuesJoined' /\ CommandsJoined' /\ MutatedKinds'
    BY <2>2, <2>4 DEF MatchInv, QueuesJoined, CommandsJoined, MutatedKinds
  <2> QED BY <1>a, <2>5, <2>6 DEF MatchInv
<1>22. CASE Commit
  <2> DEFINE c == log[commitIndex + 1]
             last == promised[commitIndex + 1]
             next == ApplyCommand(last, c)
  <2>1. /\ Len(promised) = commitIndex + 1 /\ promised' = Append(promised, next)
        /\ commitIndex' = commitIndex + 1 /\ commitIndex < Len(log)
        /\ UNCHANGED <<log, ops>>
    BY <1>22 DEF Commit, RaftCommit, clientVars, MatchInv, AgreementInv, PromisedFollowsLog
  <2> DEFINE JoinedNow(p, i) ==
               \E j \in 1 .. commitIndex + 1 :
                 j <= i /\ log[j].Op = "join_game_queue" /\ log[j].PlayerID = p
  <2>2. \A p : \A i \in Nat : Joined(p, i) => JoinedNow(p, i)
    BY <1>b DEF Joined
  <2>3. /\ commitIndex + 1 \in 1 .. Len(log) /\ c \in Command /\ last \in StoreState
    BY <1>b, <2>1
  <2>4. ASSUME NEW k \in 1 .. Len(next.gameQueue)
        PROVE  JoinedNow(next.gameQueue[k], commitIndex + 1)
    <3>1. next.gameQueue = GameQueueAfter(last, c)
      BY DEF ApplyCommand
    <3>2. last.gameQueue \in Seq(PlayerId) /\ c.PlayerID \in PlayerId
          /\ c.GameQueue \in Seq(PlayerId)
      BY <2>3 DEF StoreState, Command
    <3>3. \A l \in 1 .. Len(last.gameQueue) : Joined(last.gameQueue[l], commitIndex)
      BY <1>b DEF MatchInv, QueuesJoined
    <3>4. \A p : Joined(p, commitIndex) => JoinedNow(p, commitIndex + 1)
      BY <1>b DEF Joined
    <3>5. CASE c.Op = "join_game_queue"
      <4>1. next.gameQueue = Append(last.gameQueue, c.PlayerID)
        BY <3>1, <3>5 DEF GameQueueAfter
      <4>2. JoinedNow(c.PlayerID, commitIndex + 1)
        BY <1>b, <3>5
      <4> HIDE DEF JoinedNow, next, c, last
      <4>3. CASE k \in 1 .. Len(last.gameQueue)
        <5>1. next.gameQueue[k] = last.gameQueue[k]
          BY <3>2, <4>1, <4>3
        <5> QED BY <3>3, <3>4, <4>3, <5>1
      <4>4. CASE k = Len(last.gameQueue) + 1
        <5>1. next.gameQueue[k] = c.PlayerID
          BY <3>2, <4>1, <4>4
        <5> QED BY <4>2, <5>1
      <4>5. Len(next.gameQueue) = Len(last.gameQueue) + 1
        BY <3>2, <4>1
      <4> QED BY <2>4, <3>2, <4>3, <4>4, <4>5
    <3>6. CASE c.Op = "create_game"
      <4>1. next.gameQueue = c.GameQueue
        BY <3>1, <3>6 DEF GameQueueAfter
      <4>2. c.GameQueue[k] \in Named(c)
        BY <4>1 DEF Named
      <4>3. Joined(c.GameQueue[k], (commitIndex + 1) - 1)
        BY <2>3, <3>6, <4>2 DEF MatchInv, LogJoined
      <4>4. Joined(c.GameQueue[k], commitIndex)
        BY <1>b, <4>3 DEF Joined
      <4> HIDE DEF JoinedNow, next, c
      <4> QED BY <3>4, <4>1, <4>4
    <3>7. CASE c.Op \notin {"join_game_queue", "create_game"}
      <4>1. next.gameQueue = last.gameQueue
        BY <3>1, <3>7 DEF GameQueueAfter
      <4> HIDE DEF JoinedNow, next, last
      <4> QED BY <2>4, <3>3, <3>4, <4>1
    <3> QED BY <3>5, <3>6, <3>7
  <2> HIDE DEF next
  <2>5. /\ \A i \in 1 .. commitIndex + 1 : promised'[i] = promised[i]
        /\ promised'[commitIndex + 2] = next
    BY <1>b, <2>1
  <2>6. QueuesJoined'
    <3>1. ASSUME NEW i \in 0 .. commitIndex + 1,
                 NEW k \in 1 .. Len(promised'[i + 1].gameQueue)
          PROVE  JoinedNow(promised'[i + 1].gameQueue[k], i)
      <4>1. CASE i \in 0 .. commitIndex
        <5>1. promised'[i + 1] = promised[i + 1]
          <6>1. commitIndex \in Nat
            BY <1>b
          <6>2. i + 1 \in 1 .. commitIndex + 1
            BY <4>1, <6>1
          <6> QED BY <2>5, <6>2
        <5>2. Joined(promised[i + 1].gameQueue[k], i)
          BY <4>1, <5>1 DEF MatchInv, QueuesJoined
        <5> HIDE DEF JoinedNow
        <5> QED BY <2>2, <5>1, <5>2
      <4>2. CASE i = commitIndex + 1
        <5>1. promised'[i + 1] = next
          <6>1. commitIndex \in Nat
            BY <1>b
          <6>2. i + 1 = commitIndex + 2
            BY <4>2, <6>1
          <6> QED BY <2>5, <6>2
        <5> HIDE DEF JoinedNow
        <5> QED BY <2>4, <4>2, <5>1
      <4> QED BY <1>b, <4>1, <4>2
    <3> QED BY <2>1, <3>1 DEF QueuesJoined, Joined
  <2>7. LogJoined'
    <3>1. \A p : \A i \in Nat : Joined(p, i) => Joined(p, i)'
      BY <1>b, <2>1 DEF Joined
    <3> QED BY <1>b, <2>1, <3>1 DEF MatchInv, LogJoined
  <2>8. CommandsJoined' /\ MutatedKinds'
    <3>1. \A p : Joined(p, commitIndex) => Joined(p, commitIndex)'
      BY <1>b, <2>1 DEF Joined
    <3> QED BY <2>1, <3>1 DEF MatchInv, CommandsJoined, MutatedKinds
  <2> QED BY <1>a, <2>6, <2>7, <2>8 DEF MatchInv
<1> QED
  BY <1>1, <1>2, <1>3, <1>4, <1>5, <1>6, <1>7, <1>8, <1>9, <1>10, <1>11, <1>12, <1>13,
     <1>14, <1>15, <1>17, <1>18, <1>19, <1>20, <1>21, <1>22
  DEF Next, HandlerStep, ServerStep

\* A committed match is made of players whose joins were committed before it,
\* for any number of servers, failures and snapshots.
THEOREM MatchedPlayersJoinedCorrect == Spec => []MatchedPlayersJoined
<1>1. MatchInv => MatchedPlayersJoined
  <2> SUFFICES ASSUME MatchInv, NEW i \in 1 .. commitIndex, log[i].Op = "create_game",
                      NEW p \in {log[i].GameId.P1, log[i].GameId.P2}
               PROVE  \E j \in 1 .. i - 1 :
                        log[j].Op = "join_game_queue" /\ log[j].PlayerID = p
    BY DEF MatchedPlayersJoined
  <2>1. commitIndex \in 0 .. Len(log) /\ Len(log) \in Nat
    BY DEF MatchInv, AgreementInv, TypeOK
  <2>2. Joined(p, i - 1)
    BY <2>1 DEF MatchInv, LogJoined, Named
  <2> QED BY <2>1, <2>2 DEF Joined
<1> QED
  BY <1>1, MatchInit, MatchStep, PTL DEF Spec

-----------------------------------------------------------------------------
(***************************************************************************)
(* Whatever differs from the log has a cause: the proof of                 *)
(* DivergenceExplained.                                                    *)
(*                                                                         *)
(* In what follows x and a are values of ops and acked, s is what a store  *)
(* or a snapshot holds that has applied i commands, t what those commands  *)
(* alone make of the store.                                                *)
(***************************************************************************)

\* The executions that wrote their server's store, by what their commands name.
Opened(x, o) == x[o].cmd.Op = "open_pack" /\ x[o].cmd.PlayerCards # <<>>
PlayedIn(x, o) == x[o].cmd.Op = "play_cards" /\ x[o].cmd.GameId # ZeroMatch
Counted(x, o) == x[o].cmd.Op = "create_player" /\ x[o].cmd.PlayerID # 0

Wrote(x, o) == Opened(x, o) \/ PlayedIn(x, o) \/ Counted(x, o)

\* The command of o is not among the first i of the log as one that was or may
\* yet be answered: stronger than Pending, which has it that it was not so far.
Late(x, a, o, i) == ~((o \in a \/ x[o].pc = "waiting") /\ x[o].index <= i)

Explained(s, t, i, x, a) ==
  /\ \A p \in PlayerId :
       s.players[p] # t.players[p] =>
         \E o \in Op : /\ Opened(x, o) /\ x[o].player = p
                       /\ Late(x, a, o, i) \/ x[o].cmd.PlayerID # p
  /\ \A g \in MatchId :
       s.matchHistory[g] # t.matchHistory[g] =>
         \E o \in Op : /\ PlayedIn(x, o) /\ x[o].game = g
                       /\ Late(x, a, o, i) \/ x[o].cmd.GameId.SelfId # g
  /\ s.count # t.count =>
       \E o \in Op : Counted(x, o) /\ Late(x, a, o, i)
  /\ s.Cards # t.Cards =>
       \E o \in Op : Opened(x, o) /\ (Late(x, a, o, i) \/ x[o].cmd.Cards = <<>>)

\* An execution that has not locked its server has written nothing.
Fresh(x, o) ==
  /\ x[o].cmd = Blank(x[o].cmd.Op)
  /\ x[o].cmd.Op = "play_cards" => x[o].card # 0

CalledFresh == \A o \in Op : ops[o].pc = "called" => Fresh(ops, o)

\* Restart and Restore bring a snapshot back, so what it holds needs a cause too.
StoresExplained ==
  \A n \in Node : Explained(fsm[n], promised[applied[n] + 1], applied[n], ops, acked)
SnapshotsExplained ==
  \A n \in Node : Explained(snapshots[n].state, promised[snapshots[n].index + 1],
                            snapshots[n].index, ops, acked)

DivergenceInv ==
  AgreementInv /\ AckedInv /\ CalledFresh /\ StoresExplained /\ SnapshotsExplained

-----------------------------------------------------------------------------
\* Both stores apply the same command: what it writes is equal afterwards, and
\* an execution whose command it is has named what it wrote, or not.
LEMMA AdvanceExplained ==
  ASSUME AgreementInv, AckedInv, NEW s \in StoreState, NEW i \in Nat, i < commitIndex,
         Explained(s, promised[i + 1], i, ops, acked)
  PROVE  Explained(ApplyCommand(s, log[i + 1]), promised[i + 2], i + 1, ops, acked)
<1>a. /\ commitIndex \in Nat /\ commitIndex <= Len(log) /\ Len(log) \in Nat
      /\ log \in Seq(Command) /\ promised \in Seq(StoreState)
      /\ acked \subseteq Op
  BY DEF AgreementInv, TypeOK
<1> DEFINE t == promised[i + 1]
           c == log[i + 1]
<1>b. t \in StoreState /\ c \in Command /\ promised[i + 2] = ApplyCommand(t, c)
  <2>1. Len(promised) = commitIndex + 1
    BY DEF AgreementInv, PromisedFollowsLog
  <2>2. i + 1 \in 1 .. Len(promised) /\ i + 1 \in 1 .. Len(log) /\ i + 1 \in 1 .. commitIndex
    BY <1>a, <2>1
  <2>3. promised[(i + 1) + 1] = ApplyCommand(t, c)
    BY <2>2 DEF AgreementInv, PromisedFollowsLog
  <2> QED BY <1>a, <2>2, <2>3
<1>c. ASSUME NEW o \in Op, Late(ops, acked, o, i), ~Late(ops, acked, o, i + 1)
      PROVE  c = ops[o].cmd
  <2>1. (o \in acked \/ ops[o].pc = "waiting") /\ ops[o].index <= i + 1 /\ ~(ops[o].index <= i)
    BY <1>c DEF Late
  <2>2. ops[o].index \in Nat /\ log[ops[o].index] = ops[o].cmd
    BY <1>a, <2>1 DEF AckedInv, AckedCommitted, WaitingPlaced, Placed
  <2>3. ops[o].index = i + 1
    BY <2>1, <2>2
  <2> QED BY <2>2, <2>3
<1> HIDE DEF t, c
<1> DEFINE r == ApplyCommand(s, c)
           u == ApplyCommand(t, c)
<1>1. ASSUME NEW p \in PlayerId, r.players[p] # u.players[p]
      PROVE  \E o \in Op : /\ Opened(ops, o) /\ ops[o].player = p
                           /\ Late(ops, acked, o, i + 1) \/ ops[o].cmd.PlayerID # p
  <2>1. /\ ~(c.Op \in {"create_player", "open_pack"} /\ c.PlayerID = p)
        /\ s.players[p] # t.players[p]
    <3>1. /\ r.players = PlayersAfter(s, c) /\ u.players = PlayersAfter(t, c)
          /\ s.players \in [PlayerId -> Player] /\ t.players \in [PlayerId -> Player]
      BY <1>b DEF ApplyCommand, StoreState
    <3> HIDE DEF r, u
    <3> QED BY <1>1, <3>1 DEF PlayersAfter
  <2>2. PICK o \in Op : /\ Opened(ops, o) /\ ops[o].player = p
                        /\ Late(ops, acked, o, i) \/ ops[o].cmd.PlayerID # p
    BY <2>1 DEF Explained, t
  <2>3. CASE ops[o].cmd.PlayerID # p
    BY <2>2, <2>3
  <2>4. CASE Late(ops, acked, o, i) /\ ops[o].cmd.PlayerID = p
    <3>1. Late(ops, acked, o, i + 1)
      BY <1>c, <2>1, <2>2, <2>4 DEF Opened
    <3> QED BY <2>2, <3>1
  <2> QED BY <2>2, <2>3, <2>4
<1>2. ASSUME NEW g \in MatchId, r.matchHistory[g] # u.matchHistory[g]
      PROVE  \E o \in Op : /\ PlayedIn(ops, o) /\ ops[o].game = g
                           /\ Late(ops, acked, o, i + 1) \/ ops[o].cmd.GameId.SelfId # g
  <2>1. /\ ~(c.Op \in {"create_game", "play_cards"} /\ c.GameId.SelfId = g)
        /\ s.matchHistory[g] # t.matchHistory[g]
    <3>1. /\ r.matchHistory = MatchHistoryAfter(s, c) /\ u.matchHistory = MatchHistoryAfter(t, c)
          /\ s.matchHistory \in [MatchId \cup {NoMatch} -> Match]
          /\ t.matchHistory \in [MatchId \cup {NoMatch} -> Match]
      BY <1>b DEF ApplyCommand, StoreState
    <3> HIDE DEF r, u
    <3> QED BY <1>2, <3>1 DEF MatchHistoryAfter
  <2>2. PICK o \in Op : /\ PlayedIn(ops, o) /\ ops[o].game = g
                        /\ Late(ops, acked, o, i) \/ ops[o].cmd.GameId.SelfId # g
    BY <2>1 DEF Explained, t
  <2>3. CASE ops[o].cmd.GameId.SelfId # g
    BY <2>2, <2>3
  <2>4. CASE Late(ops, acked, o, i) /\ ops[o].cmd.GameId.SelfId = g
    <3>1. Late(ops, acked, o, i + 1)
      BY <1>c, <2>1, <2>2, <2>4 DEF PlayedIn
    <3> QED BY <2>2, <3>1
  <2> QED BY <2>2, <2>3, <2>4
<1>3. ASSUME r.count # u.count
      PROVE  \E o \in Op : Counted(ops, o) /\ Late(ops, acked, o, i + 1)
  <2>1. c.Op # "create_player" /\ s.count # t.count
    BY <1>3 DEF ApplyCommand
  <2>2. PICK o \in Op : Counted(ops, o) /\ Late(ops, acked, o, i)
    BY <2>1 DEF Explained, t
  <2>3. Late(ops, acked, o, i + 1)
    BY <1>c, <2>1, <2>2 DEF Counted
  <2> QED BY <2>2, <2>3
<1>4. ASSUME r.Cards # u.Cards
      PROVE  \E o \in Op : /\ Opened(ops, o)
                           /\ Late(ops, acked, o, i + 1) \/ ops[o].cmd.Cards = <<>>
  <2>1. ~(c.Op = "open_pack" /\ c.Cards # <<>>) /\ s.Cards # t.Cards
    BY <1>4 DEF ApplyCommand, CardsAfter
  <2>2. PICK o \in Op : Opened(ops, o) /\ (Late(ops, acked, o, i) \/ ops[o].cmd.Cards = <<>>)
    BY <2>1 DEF Explained, t
  <2>3. CASE ops[o].cmd.Cards = <<>>
    BY <2>2, <2>3
  <2>4. CASE Late(ops, acked, o, i) /\ ops[o].cmd.Cards # <<>>
    <3>1. Late(ops, acked, o, i + 1)
      BY <1>c, <2>1, <2>2, <2>4 DEF Opened
    <3> QED BY <2>2, <3>1
  <2> QED BY <2>2, <2>3, <2>4
<1>5. Explained(r, u, i + 1, ops, acked)
  <2> HIDE DEF r, u
  <2> QED BY <1>1, <1>2, <1>3, <1>4 DEF Explained
<1> QED BY <1>b, <1>5 DEF c

\* What a step may do to an execution that is the cause of a difference.
Steady(o) ==
  /\ ops'[o].pc = "called" => Fresh(ops', o)
  /\ Wrote(ops, o) =>
       /\ ops'[o].player = ops[o].player
       /\ ops'[o].game = ops[o].game
       /\ ops'[o].cmd.Op = ops[o].cmd.Op
       /\ ops'[o].cmd.PlayerID = ops[o].cmd.PlayerID
       /\ ops'[o].cmd.PlayerCards = ops[o].cmd.PlayerCards
       /\ ops'[o].cmd.GameId = ops[o].cmd.GameId
       /\ \/ /\ ops'[o].cmd.Cards = ops[o].cmd.Cards
             /\ \A i \in 0 .. commitIndex :
                  Late(ops, acked, o, i) => Late(ops', acked', o, i)
          \/ o \notin acked' /\ ops'[o].pc # "waiting"

LEMMA SteadyCause ==
  ASSUME NEW o \in Op, Steady(o), Wrote(ops, o)
  PROVE  /\ Opened(ops, o) => Opened(ops', o)
         /\ PlayedIn(ops, o) => PlayedIn(ops', o)
         /\ Counted(ops, o) => Counted(ops', o)
         /\ ops'[o].player = ops[o].player /\ ops'[o].game = ops[o].game
         /\ ops'[o].cmd.PlayerID = ops[o].cmd.PlayerID
         /\ ops'[o].cmd.GameId = ops[o].cmd.GameId
         /\ \A i \in 0 .. commitIndex :
              /\ Late(ops, acked, o, i) => Late(ops', acked', o, i)
              /\ ops[o].cmd.Cards = <<>> =>
                   Late(ops', acked', o, i) \/ ops'[o].cmd.Cards = <<>>
BY DEF Steady, Opened, PlayedIn, Counted, Late

LEMMA CausesKept ==
  ASSUME \A o \in Op : Steady(o)
  PROVE  \A s, t : \A i \in 0 .. commitIndex :
           Explained(s, t, i, ops, acked) => Explained(s, t, i, ops', acked')
<1> SUFFICES ASSUME NEW s, NEW t, NEW i \in 0 .. commitIndex, Explained(s, t, i, ops, acked)
             PROVE  Explained(s, t, i, ops', acked')
  OBVIOUS
<1>1. ASSUME NEW p \in PlayerId, s.players[p] # t.players[p]
      PROVE  \E o \in Op : /\ Opened(ops', o) /\ ops'[o].player = p
                           /\ Late(ops', acked', o, i) \/ ops'[o].cmd.PlayerID # p
  <2>1. PICK o \in Op : /\ Opened(ops, o) /\ ops[o].player = p
                        /\ Late(ops, acked, o, i) \/ ops[o].cmd.PlayerID # p
    BY <1>1 DEF Explained
  <2> QED BY <2>1, SteadyCause DEF Wrote
<1>2. ASSUME NEW g \in MatchId, s.matchHistory[g] # t.matchHistory[g]
      PROVE  \E o \in Op : /\ PlayedIn(ops', o) /\ ops'[o].game = g
                           /\ Late(ops', acked', o, i) \/ ops'[o].cmd.GameId.SelfId # g
  <2>1. PICK o \in Op : /\ PlayedIn(ops, o) /\ ops[o].game = g
                        /\ Late(ops, acked, o, i) \/ ops[o].cmd.GameId.SelfId # g
    BY <1>2 DEF Explained
  <2> QED BY <2>1, SteadyCause DEF Wrote
<1>3. ASSUME s.count # t.count
      PROVE  \E o \in Op : Counted(ops', o) /\ Late(ops', acked', o, i)
  <2>1. PICK o \in Op : Counted(ops, o) /\ Late(ops, acked, o, i)
    BY <1>3 DEF Explained
  <2> QED BY <2>1, SteadyCause DEF Wrote
<1>4. ASSUME s.Cards # t.Cards
      PROVE  \E o \in Op : /\ Opened(ops', o)
                           /\ Late(ops', acked', o, i) \/ ops'[o].cmd.Cards = <<>>
  <2>1. PICK o \in Op : Opened(ops, o) /\ (Late(ops, acked, o, i) \/ ops[o].cmd.Cards = <<>>)
    BY <1>4 DEF Explained
  <2> QED BY <2>1, SteadyCause DEF Wrote
<1> QED BY <1>1, <1>2, <1>3, <1>4 DEF Explained

-----------------------------------------------------------------------------
LEMMA SteadySame ==
  ASSUME CalledFresh, NEW o \in Op, ops'[o] = ops[o], o \in acked' <=> o \in acked
  PROVE  Steady(o)
BY DEF CalledFresh, Steady, Fresh, Late

\* Before it is called, and until it has locked its server, it caused nothing.
LEMMA Unwritten ==
  ASSUME TypeOK, CalledFresh, NEW o \in Op, ops[o].pc \in {"idle", "called"}
  PROVE  ~Wrote(ops, o)
<1>1. CASE ops[o].pc = "idle"
  <2>1. ops[o] = IdleOp
    BY <1>1 DEF TypeOK, OpRecord, OpState
  <2> QED BY <2>1 DEF IdleOp, ZeroCommand, Wrote, Opened, PlayedIn, Counted
<1>2. CASE ops[o].pc = "called"
  <2>1. ops[o].cmd = Blank(ops[o].cmd.Op)
    BY <1>2 DEF CalledFresh, Fresh
  <2>2. /\ Blank(ops[o].cmd.Op).PlayerCards = <<>>
        /\ Blank(ops[o].cmd.Op).GameId = ZeroMatch
        /\ Blank(ops[o].cmd.Op).PlayerID = 0
    BY DEF Blank, ZeroCommand
  <2> QED BY <2>1, <2>2 DEF Wrote, Opened, PlayedIn, Counted
<1> QED BY <1>1, <1>2

LEMMA SteadyNew ==
  ASSUME NEW o \in Op, ~Wrote(ops, o), ops'[o].pc # "called"
  PROVE  Steady(o)
BY DEF Steady

\* An execution that is past its lock moves on and keeps its command; it may lose
\* its place in the log.
LEMMA SteadyMoves ==
  ASSUME NEW o \in Op, ops'[o].pc \notin {"called", "waiting"}, o \notin acked',
         ops'[o].player = ops[o].player, ops'[o].game = ops[o].game,
         \A f \in {"Op", "PlayerID", "PlayerCards", "GameId"} :
           ops'[o].cmd[f] = ops[o].cmd[f]
  PROVE  Steady(o)
BY DEF Steady

\* Only fields of an execution that do not matter here change.
LEMMA SteadyFields ==
  ASSUME CalledFresh, NEW o \in Op, o \in acked' <=> o \in acked,
         ops'[o].pc \in {"called", "waiting"} => ops'[o].pc = ops[o].pc,
         ops'[o].cmd = ops[o].cmd, ops'[o].index = ops[o].index,
         ops'[o].card = ops[o].card,
         ops'[o].player = ops[o].player, ops'[o].game = ops[o].game
  PROVE  Steady(o)
BY DEF CalledFresh, Steady, Fresh, Late

\* How much of the log a copy has.
LEMMA CopiesCommitted ==
  ASSUME AgreementInv, NEW n \in Node
  PROVE  /\ applied[n] \in 0 .. commitIndex
         /\ snapshots[n].index \in 0 .. commitIndex
BY DEF AgreementInv, TypeOK, StoresFollowLog, SnapshotsFollowLog, ShowsPrefix, SnapshotRecord

\* A step that writes no copy, and keeps every cause.
LEMMA SteadyStep ==
  ASSUME DivergenceInv, AgreementInv', AckedInv', \A o \in Op : Steady(o),
         UNCHANGED <<fsm, applied, snapshots>>,
         \A i \in 1 .. commitIndex + 1 : promised'[i] = promised[i]
  PROVE  DivergenceInv'
<1>1. ASSUME NEW n \in Node
      PROVE  /\ Explained(fsm[n], promised'[applied[n] + 1], applied[n], ops', acked')
             /\ Explained(snapshots[n].state, promised'[snapshots[n].index + 1],
                          snapshots[n].index, ops', acked')
  <2>1. /\ applied[n] \in 0 .. commitIndex /\ snapshots[n].index \in 0 .. commitIndex
        /\ commitIndex \in Nat
    BY CopiesCommitted DEF DivergenceInv, AgreementInv, TypeOK
  <2>2. /\ promised'[applied[n] + 1] = promised[applied[n] + 1]
        /\ promised'[snapshots[n].index + 1] = promised[snapshots[n].index + 1]
    BY <2>1
  <2> QED BY <2>1, <2>2, CausesKept DEF DivergenceInv, StoresExplained, SnapshotsExplained
<1>2. StoresExplained' /\ SnapshotsExplained'
  BY <1>1 DEF StoresExplained, SnapshotsExplained
<1>3. CalledFresh'
  BY DEF CalledFresh, Steady
<1> QED BY <1>2, <1>3 DEF DivergenceInv

\* A step that writes the store of n before there is a command.
LEMMA WriteStep ==
  ASSUME DivergenceInv, AgreementInv', AckedInv', \A o \in Op : Steady(o),
         UNCHANGED <<applied, snapshots, promised>>,
         NEW n \in Node, \A m \in Node \ {n} : fsm'[m] = fsm[m],
         Explained(fsm[n], promised[applied[n] + 1], applied[n], ops', acked')
           => Explained(fsm'[n], promised[applied[n] + 1], applied[n], ops', acked')
  PROVE  DivergenceInv'
<1>1. ASSUME NEW m \in Node
      PROVE  /\ Explained(fsm[m], promised[applied[m] + 1], applied[m], ops', acked')
             /\ Explained(snapshots[m].state, promised[snapshots[m].index + 1],
                          snapshots[m].index, ops', acked')
  <2>1. applied[m] \in 0 .. commitIndex /\ snapshots[m].index \in 0 .. commitIndex
    BY CopiesCommitted DEF DivergenceInv
  <2> QED BY <2>1, CausesKept DEF DivergenceInv, StoresExplained, SnapshotsExplained
<1>2. \A m \in Node : Explained(fsm'[m], promised[applied[m] + 1], applied[m], ops', acked')
  BY <1>1
<1>3. StoresExplained' /\ SnapshotsExplained'
  BY <1>1, <1>2 DEF StoresExplained, SnapshotsExplained
<1>4. CalledFresh'
  BY DEF CalledFresh, Steady
<1> QED BY <1>3, <1>4 DEF DivergenceInv

\* The three operations that write their server's store: o is a cause afterwards.
LEMMA CreatePlayerExplained ==
  ASSUME DivergenceInv, AgreementInv', AckedInv', NEW o \in Op, CreatePlayer(o)
  PROVE  DivergenceInv'
<1> DEFINE n == ops[o].node
<1>a. TypeOK /\ ops[o] \in OpRecord /\ ops[o].pc = "called" /\ o \notin acked
  BY Begun DEF DivergenceInv, AckedInv, AckedOver, CreatePlayer, CanLock
<1>b. /\ fsm \in [Node -> StoreState] /\ n \in Node
      /\ ops \in [Op -> OpRecord \cup {IdleOp}] /\ acked' = acked
      /\ fsm[n].count \in Nat
  <2>1. fsm \in [Node -> StoreState] /\ n \in Node
    BY <1>a DEF TypeOK, OpRecord
  <2>2. fsm[n].count \in Nat
    BY <2>1, StoreAssumption DEF StoreState, PlayerId
  <2> QED BY <1>a, <2>1, <2>2 DEF TypeOK, CreatePlayer
<1>1. /\ fsm' = [fsm EXCEPT ![n] = [fsm[n] EXCEPT !.count = NextId(n)]]
      /\ ops' = [ops EXCEPT ![o] = At(ops[o], "mutated", [ops[o].cmd EXCEPT !.PlayerID = NextId(n)])]
      /\ UNCHANGED <<applied, snapshots, promised>>
      /\ ops[o].cmd.Op = "create_player" /\ NextId(n) # 0
  BY <1>b DEF CreatePlayer, CanLock, NextId
<1>2. ops'[o].pc = "mutated" /\ Counted(ops', o)
  BY <1>a, <1>b, <1>1 DEF At, OpRecord, Command, Counted
<1>3. \A p \in Op : Steady(p)
  <2>1. Steady(o)
    BY <1>a, <1>2, Unwritten, SteadyNew DEF DivergenceInv
  <2>2. \A p \in Op \ {o} : Steady(p)
    BY <1>b, <1>1, SteadySame DEF DivergenceInv
  <2> QED BY <2>1, <2>2
<1>4. \A i : Late(ops', acked', o, i)
  BY <1>a, <1>b, <1>2 DEF Late
<1>5. /\ fsm'[n].players = fsm[n].players
      /\ fsm'[n].matchHistory = fsm[n].matchHistory
      /\ fsm'[n].Cards = fsm[n].Cards
      /\ \A m \in Node \ {n} : fsm'[m] = fsm[m]
  BY <1>b, <1>1 DEF StoreState
<1>6. Explained(fsm[n], promised[applied[n] + 1], applied[n], ops', acked')
        => Explained(fsm'[n], promised[applied[n] + 1], applied[n], ops', acked')
  BY <1>2, <1>4, <1>5 DEF Explained
<1> HIDE DEF n
<1> QED BY <1>b, <1>1, <1>3, <1>5, <1>6, WriteStep

LEMMA PlayCardExplained ==
  ASSUME DivergenceInv, AgreementInv', AckedInv', NEW o \in Op, PlayCard(o)
  PROVE  DivergenceInv'
<1> DEFINE n == ops[o].node
           game == Played(fsm[n].matchHistory[ops[o].game], ops[o].player, ops[o].card)
<1>a. TypeOK /\ ops[o] \in OpRecord /\ ops[o].pc = "called" /\ o \notin acked
  BY Begun DEF DivergenceInv, AckedInv, AckedOver, PlayCard, CanLock
<1>b. /\ fsm \in [Node -> StoreState] /\ n \in Node
      /\ ops \in [Op -> OpRecord \cup {IdleOp}] /\ acked' = acked
      /\ fsm[n].matchHistory \in [MatchId \cup {NoMatch} -> Match]
      /\ ops[o].game \in MatchId \cup {NoMatch}
  BY <1>a DEF TypeOK, OpRecord, PlayCard, StoreState
<1>1. /\ fsm' = [fsm EXCEPT ![n] = [fsm[n] EXCEPT !.matchHistory =
                   [fsm[n].matchHistory EXCEPT ![ops[o].game] = game]]]
      /\ ops' = [ops EXCEPT ![o] = At(ops[o], "built", [ops[o].cmd EXCEPT !.GameId = game])]
      /\ UNCHANGED <<applied, snapshots, promised>>
      /\ ops[o].cmd.Op = "play_cards"
  BY DEF PlayCard, CanLock
<1>2. game # ZeroMatch
  <2>1. ops[o].card # 0
    BY <1>a, <1>1 DEF DivergenceInv, CalledFresh, Fresh
  <2>2. game.Card1 = ops[o].card \/ game.Card2 = ops[o].card
    BY <1>b DEF Played, Match
  <2> QED BY <2>1, <2>2 DEF ZeroMatch, NewMatch
<1> HIDE DEF game
<1>3. ops'[o].pc = "built" /\ PlayedIn(ops', o) /\ ops'[o].game = ops[o].game
  BY <1>a, <1>b, <1>1, <1>2 DEF At, OpRecord, Command, PlayedIn
<1>4. \A p \in Op : Steady(p)
  <2>1. Steady(o)
    BY <1>a, <1>3, Unwritten, SteadyNew DEF DivergenceInv
  <2>2. \A p \in Op \ {o} : Steady(p)
    BY <1>b, <1>1, SteadySame DEF DivergenceInv
  <2> QED BY <2>1, <2>2
<1>5. \A i : Late(ops', acked', o, i)
  BY <1>a, <1>b, <1>3 DEF Late
<1>6. /\ fsm'[n].players = fsm[n].players
      /\ fsm'[n].count = fsm[n].count
      /\ fsm'[n].Cards = fsm[n].Cards
      /\ \A g \in MatchId : g # ops[o].game =>
           fsm'[n].matchHistory[g] = fsm[n].matchHistory[g]
      /\ \A m \in Node \ {n} : fsm'[m] = fsm[m]
  BY <1>b, <1>1 DEF StoreState
<1>7. Explained(fsm[n], promised[applied[n] + 1], applied[n], ops', acked')
        => Explained(fsm'[n], promised[applied[n] + 1], applied[n], ops', acked')
  BY <1>3, <1>5, <1>6 DEF Explained
<1> HIDE DEF n
<1> QED BY <1>b, <1>1, <1>4, <1>6, <1>7, WriteStep

LEMMA AppendNotEmpty ==
  ASSUME NEW S, NEW s \in Seq(S), NEW e \in S
  PROVE  Append(s, e) # <<>>
<1>1. Len(Append(s, e)) = Len(s) + 1 /\ Len(s) \in Nat
  OBVIOUS
<1>2. Len(Append(s, e)) # 0
  BY <1>1
<1>3. Len(<<>>) = 0
  OBVIOUS
<1> QED BY <1>2, <1>3, Zenon

LEMMA OpenPackExplained ==
  ASSUME DivergenceInv, AgreementInv', AckedInv', NEW o \in Op, OpenPack(o)
  PROVE  DivergenceInv'
<1> DEFINE n == ops[o].node
           id == ops[o].player
           player == fsm[n].players[id]
<1>a. TypeOK /\ ops[o] \in OpRecord /\ ops[o].pc = "called" /\ o \notin acked
  BY Begun DEF DivergenceInv, AckedInv, AckedOver, OpenPack, CanLock
<1>b. /\ fsm \in [Node -> StoreState] /\ n \in Node /\ id \in PlayerId
      /\ ops \in [Op -> OpRecord \cup {IdleOp}] /\ acked' = acked
      /\ fsm[n].players \in [PlayerId -> Player]
      /\ player.Cards \in Seq(Pack) /\ fsm[n].Cards \in Seq(Pack)
  <2>1. fsm \in [Node -> StoreState] /\ n \in Node /\ id \in PlayerId
    BY <1>a DEF TypeOK, OpRecord
  <2>2. fsm[n].players \in [PlayerId -> Player] /\ fsm[n].Cards \in Seq(Pack)
    BY <2>1 DEF StoreState
  <2>3. player.Cards \in Seq(Pack)
    BY <2>1, <2>2 DEF Player
  <2> QED BY <1>a, <2>1, <2>2, <2>3 DEF TypeOK, OpenPack
<1>1. PICK i \in 1 .. Len(fsm[n].Cards) :
        LET cards == Append(player.Cards, fsm[n].Cards[i])
        IN /\ fsm' = [fsm EXCEPT ![n] =
                [fsm[n] EXCEPT !.Cards = SwapRemove(fsm[n].Cards, i),
                               !.players = [fsm[n].players EXCEPT ![id] =
                                              [Id |-> player.Id, Cards |-> cards]]]]
           /\ ops' = [p \in Op |->
                IF p = o
                THEN At(ops[o], "mutated", [ops[o].cmd EXCEPT !.PlayerID = player.Id,
                                                           !.PlayerCards = cards])
                ELSE SwapSeen(ops[p], n, i)]
  BY DEF OpenPack
<1> DEFINE cards == Append(player.Cards, fsm[n].Cards[i])
<1>2. cards # <<>>
  <2>1. fsm[n].Cards[i] \in Pack
    BY <1>b
  <2> QED BY <1>b, <2>1, AppendNotEmpty
<1>3. UNCHANGED <<applied, snapshots, promised>> /\ ops[o].cmd.Op = "open_pack"
  BY DEF OpenPack, CanLock
<1>4. ops'[o] = At(ops[o], "mutated", [ops[o].cmd EXCEPT !.PlayerID = player.Id,
                                                        !.PlayerCards = cards])
  BY <1>1
<1>5. /\ \A m \in Node \ {n} : fsm'[m] = fsm[m]
      /\ fsm'[n].count = fsm[n].count
      /\ fsm'[n].matchHistory = fsm[n].matchHistory
      /\ \A p \in PlayerId : p # id => fsm'[n].players[p] = fsm[n].players[p]
  BY <1>b, <1>1 DEF StoreState
<1> HIDE DEF cards
<1>6. ops'[o].pc = "mutated" /\ Opened(ops', o) /\ ops'[o].player = id
  BY <1>a, <1>2, <1>3, <1>4 DEF At, OpRecord, Command, Opened
<1>7. ASSUME NEW p \in Op \ {o} PROVE Steady(p)
  <2>1. ops'[p] = SwapSeen(ops[p], n, i)
    BY <1>1
  <2>2. CASE ~ops[p].live
    BY <1>b, <2>1, <2>2, SteadySame DEF SwapSeen, DivergenceInv
  <2>3. CASE ops[p].live
    <3>1. ops[p].pc = "built" /\ p \notin acked
      BY <2>3 DEF DivergenceInv, AckedInv, LiveBuilt, AckedOver
    <3>2. ops[p] \in OpRecord
      BY <1>a, <3>1, Begun
    <3>3. /\ ops'[p].pc = "built"
          /\ ops'[p].player = ops[p].player /\ ops'[p].game = ops[p].game
          /\ \A f \in {"Op", "PlayerID", "PlayerCards", "GameId"} :
               ops'[p].cmd[f] = ops[p].cmd[f]
      BY <2>1, <3>1, <3>2 DEF SwapSeen, At, OpRecord, Command
    <3> QED BY <1>b, <3>1, <3>3, SteadyMoves
  <2> QED BY <2>2, <2>3
<1>8. \A p \in Op : Steady(p)
  <2>1. Steady(o)
    BY <1>a, <1>6, Unwritten, SteadyNew DEF DivergenceInv
  <2> QED BY <1>7, <2>1
<1>9. \A k : Late(ops', acked', o, k)
  BY <1>a, <1>b, <1>6 DEF Late
<1> HIDE DEF player, id
<1>10. Explained(fsm[n], promised[applied[n] + 1], applied[n], ops', acked')
        => Explained(fsm'[n], promised[applied[n] + 1], applied[n], ops', acked')
  BY <1>5, <1>6, <1>9 DEF Explained
<1> HIDE DEF n
<1> QED BY <1>b, <1>3, <1>5, <1>8, <1>10, WriteStep

\* What ends or crashes do to an execution.
LEMMA FailedSteady ==
  ASSUME NEW op \in OpRecord
  PROVE  /\ Failed(op).player = op.player /\ Failed(op).game = op.game
         /\ Failed(op).cmd = op.cmd /\ Failed(op).card = op.card
         /\ Failed(op).pc \in {"joined", "failed"}
BY DEF Failed, OpRecord

LEMMA SettledSteady ==
  ASSUME NEW op \in OpRecord
  PROVE  /\ Settled(op).player = op.player /\ Settled(op).game = op.game
         /\ Settled(op).cmd = op.cmd /\ Settled(op).card = op.card
         /\ Settled(op).index = op.index
         /\ Settled(op).pc \in {"failed", "ok"}
BY DEF Settled, OpRecord

\* A crash drops an execution of its server that has no answer, and leaves what
\* matters of all others.
LEMMA CrashSteady ==
  ASSUME DivergenceInv, NEW n \in Node, NEW o \in Op,
         ops'[o] = AfterCrash(ops[o], n), acked' = acked
  PROVE  Steady(o)
<1>a. CalledFresh /\ TypeOK
  BY DEF DivergenceInv, AckedInv
<1>1. CASE ops[o] = IdleOp
  BY <1>1, <1>a, RaftAssumption, SteadySame DEF AfterCrash, IdleOp, Running
<1>2. CASE ops[o] \in OpRecord
  <2> DEFINE op == ops[o]
             orphan == IF op.from = n THEN [op EXCEPT !.from = NoNode] ELSE op
  <2>1. /\ orphan \in OpRecord
        /\ orphan.pc = op.pc /\ orphan.index = op.index /\ orphan.cmd = op.cmd
        /\ orphan.player = op.player /\ orphan.game = op.game /\ orphan.card = op.card
        /\ orphan.node = op.node
    BY <1>2 DEF OpRecord
  <2> HIDE DEF orphan
  <2>2. CASE op.pc = "joined" /\ op.from = n
    <3>1. ops'[o] = Settled(orphan)
      BY <2>2 DEF AfterCrash, Running, orphan
    <3> QED BY <1>a, <2>1, <3>1, SettledSteady, SteadyFields
  <2>3. CASE op.pc \in Running /\ op.node = n
    <3>1. o \notin acked
      BY <2>3 DEF DivergenceInv, AckedInv, AckedOver, Running
    <3>2. Failed(orphan) \in OpRecord
      BY <2>1, OpTypes
    <3> DEFINE lost == [Failed(orphan) EXCEPT !.pc = "lost"]
    <3>3. /\ lost.pc = "lost" /\ lost.player = op.player /\ lost.game = op.game
          /\ lost.cmd = op.cmd
      BY <2>1, <3>2, FailedSteady DEF OpRecord
    <3>4. ops'[o] \in {Failed(orphan), lost}
      BY <2>3 DEF AfterCrash, Running, orphan
    <3> HIDE DEF lost
    <3>5. ops'[o].pc \notin {"called", "waiting"}
      BY <2>1, <3>3, <3>4, FailedSteady
    <3>6. /\ ops'[o].player = ops[o].player /\ ops'[o].game = ops[o].game
          /\ ops'[o].cmd = ops[o].cmd
      BY <2>1, <3>3, <3>4, FailedSteady
    <3> QED BY <3>1, <3>5, <3>6, SteadyMoves
  <2>4. CASE /\ ~(op.pc = "joined" /\ op.from = n)
             /\ ~(op.pc \in Running /\ op.node = n)
    <3>1. ops'[o] = orphan
      BY <2>4 DEF AfterCrash, Running, orphan
    <3> QED BY <1>a, <2>1, <3>1, SteadyFields
  <2> QED BY <2>2, <2>3, <2>4
<1> QED BY <1>a, <1>1, <1>2 DEF TypeOK

LEMMA CrashExplained ==
  ASSUME DivergenceInv, AgreementInv', AckedInv', NEW n \in Node, Crash(n)
  PROVE  DivergenceInv'
<1>1. /\ UNCHANGED <<snapshots, acked, promised, commitIndex>>
      /\ \A o \in Op : ops'[o] = AfterCrash(ops[o], n)
  BY DEF Crash, RaftCrash
<1>2. \A o \in Op : Steady(o)
  BY <1>1, CrashSteady
<1>3. ASSUME NEW m \in Node
      PROVE  /\ Explained(fsm[m], promised[applied[m] + 1], applied[m], ops', acked')
             /\ Explained(snapshots[m].state, promised[snapshots[m].index + 1],
                          snapshots[m].index, ops', acked')
  <2>1. applied[m] \in 0 .. commitIndex /\ snapshots[m].index \in 0 .. commitIndex
    BY CopiesCommitted DEF DivergenceInv
  <2> QED BY <1>2, <2>1, CausesKept DEF DivergenceInv, StoresExplained, SnapshotsExplained
<1>4. \A m \in Node : \/ fsm'[m] = fsm[m] /\ applied'[m] = applied[m]
                      \/ fsm'[m] = snapshots[n].state /\ applied'[m] = snapshots[n].index
  BY DEF Crash, DivergenceInv, AgreementInv, TypeOK
<1>5. \A m \in Node : Explained(fsm'[m], promised[applied'[m] + 1], applied'[m], ops', acked')
  BY <1>3, <1>4
<1>6. StoresExplained' /\ SnapshotsExplained'
  BY <1>1, <1>3, <1>5 DEF StoresExplained, SnapshotsExplained
<1>7. CalledFresh'
  BY <1>2 DEF CalledFresh, Steady
<1> QED BY <1>6, <1>7 DEF DivergenceInv

LEMMA InstallExplained ==
  ASSUME DivergenceInv, AgreementInv', AckedInv', NEW n \in Node, InstallSnapshot(n)
  PROVE  DivergenceInv'
<1>1. UNCHANGED <<acked, promised>> /\ leader \in Node /\ leader \in Node \ {n}
  BY DEF InstallSnapshot, DivergenceInv, AgreementInv, TypeOK
<1>2. ASSUME NEW o \in Op PROVE Steady(o)
  <2>1. ops'[o] \in {ops[o], [ops[o] EXCEPT !.live = FALSE]}
    BY DEF InstallSnapshot
  <2>2. /\ ops'[o].pc = ops[o].pc /\ ops'[o].index = ops[o].index
        /\ ops'[o].cmd = ops[o].cmd /\ ops'[o].card = ops[o].card
        /\ ops'[o].player = ops[o].player /\ ops'[o].game = ops[o].game
    BY <2>1 DEF DivergenceInv, AgreementInv, TypeOK, OpRecord, IdleOp
  <2> QED BY <1>1, <2>2, SteadyFields DEF DivergenceInv
<1>3. ASSUME NEW m \in Node
      PROVE  /\ Explained(fsm[m], promised[applied[m] + 1], applied[m], ops', acked')
             /\ Explained(snapshots[m].state, promised[snapshots[m].index + 1],
                          snapshots[m].index, ops', acked')
  <2>1. applied[m] \in 0 .. commitIndex /\ snapshots[m].index \in 0 .. commitIndex
    BY CopiesCommitted DEF DivergenceInv
  <2> QED BY <1>2, <2>1, CausesKept DEF DivergenceInv, StoresExplained, SnapshotsExplained
<1>4. ASSUME NEW m \in Node
      PROVE  /\ \/ fsm'[m] = fsm[m] /\ applied'[m] = applied[m]
                \/ fsm'[m] = snapshots[leader].state /\ applied'[m] = snapshots[leader].index
             /\ snapshots'[m] \in {snapshots[m], snapshots[leader]}
  BY DEF InstallSnapshot, DivergenceInv, AgreementInv, TypeOK
<1>5. /\ \A m \in Node : Explained(fsm'[m], promised[applied'[m] + 1], applied'[m], ops', acked')
      /\ \A m \in Node : Explained(snapshots'[m].state, promised[snapshots'[m].index + 1],
                                   snapshots'[m].index, ops', acked')
  BY <1>1, <1>3, <1>4
<1>6. StoresExplained' /\ SnapshotsExplained'
  BY <1>1, <1>5 DEF StoresExplained, SnapshotsExplained
<1>7. CalledFresh'
  BY <1>2 DEF CalledFresh, Steady
<1> QED BY <1>6, <1>7 DEF DivergenceInv

LEMMA SnapshotExplained ==
  ASSUME DivergenceInv, AgreementInv', AckedInv', NEW n \in Node, TakeSnapshot(n)
  PROVE  DivergenceInv'
<1>1. UNCHANGED <<fsm, applied, ops, acked, promised>>
  BY DEF TakeSnapshot, clientVars
<1>2. StoresExplained' /\ CalledFresh'
  BY <1>1 DEF DivergenceInv, StoresExplained, CalledFresh
<1>3. \A m \in Node : \/ snapshots'[m] = snapshots[m]
                      \/ /\ m = n
                         /\ snapshots'[m].state = fsm[n]
                         /\ snapshots'[m].index = applied[n]
  BY DEF TakeSnapshot, SnapshotOf, DivergenceInv, AgreementInv, TypeOK
<1>4. SnapshotsExplained'
  BY <1>1, <1>3 DEF DivergenceInv, StoresExplained, SnapshotsExplained
<1> QED BY <1>2, <1>4 DEF DivergenceInv

\* The store that applies a command and its promised value apply the same one.
LEMMA ApplyNextExplained ==
  ASSUME DivergenceInv, AgreementInv', AckedInv', NEW n \in Node, ApplyNext(n)
  PROVE  DivergenceInv'
<1> DEFINE i == applied[n]
           answered == {o \in Op : /\ ops[o].pc = "waiting" /\ ops[o].node = n
                                   /\ ops[o].index = i + 1}
<1>a. /\ TypeOK /\ AgreementInv /\ AckedInv /\ CalledFresh /\ acked \subseteq Op
      /\ ops \in [Op -> OpRecord \cup {IdleOp}]
      /\ fsm \in [Node -> StoreState] /\ applied \in [Node -> Nat]
      /\ commitIndex \in Nat
  <2>1. TypeOK /\ AgreementInv /\ AckedInv /\ CalledFresh
    BY DEF DivergenceInv, AckedInv
  <2>2. commitIndex \in Nat
    BY <2>1 DEF TypeOK
  <2> QED BY <2>1, <2>2 DEF TypeOK
<1>1. /\ fsm' = [fsm EXCEPT ![n] = ApplyCommand(fsm[n], log[i + 1])]
      /\ applied' = [applied EXCEPT ![n] = i + 1]
      /\ UNCHANGED <<snapshots, promised>> /\ acked' = acked \cup answered
      /\ i \in Nat /\ i < commitIndex
  BY <1>a DEF ApplyNext
<1>2. ASSUME NEW o \in Op PROVE Steady(o)
  <2>1. CASE o \in answered
    <3>1. ops[o] \in OpRecord
      BY <1>a, <2>1, Begun
    <3>2. \E pc \in {"joined", "ok"} : ops'[o] = [ops[o] EXCEPT !.pc = pc]
      BY <2>1 DEF ApplyNext
    <3>3. /\ ops'[o].pc \in {"joined", "ok"} /\ ops'[o].index = ops[o].index
          /\ ops'[o].cmd = ops[o].cmd /\ ops'[o].player = ops[o].player
          /\ ops'[o].game = ops[o].game
      BY <3>1, <3>2 DEF OpRecord
    <3>4. \A k \in 0 .. commitIndex : Late(ops, acked, o, k) => Late(ops', acked', o, k)
      BY <2>1, <3>3 DEF Late
    <3> QED BY <3>3, <3>4 DEF Steady
  <2>2. CASE o \notin answered
    <3>1. ops'[o] \in {ops[o], [ops[o] EXCEPT !.live = FALSE]}
      BY <2>2 DEF ApplyNext
    <3>2. /\ ops'[o].pc = ops[o].pc /\ ops'[o].index = ops[o].index
          /\ ops'[o].cmd = ops[o].cmd /\ ops'[o].card = ops[o].card
          /\ ops'[o].player = ops[o].player /\ ops'[o].game = ops[o].game
      BY <1>a, <3>1 DEF OpRecord, IdleOp
    <3>3. o \in acked' <=> o \in acked
      BY <1>1, <2>2
    <3> QED BY <1>a, <3>2, <3>3, SteadyFields
  <2> QED BY <2>1, <2>2
<1> HIDE DEF answered
<1>3. ASSUME NEW m \in Node
      PROVE  /\ Explained(fsm[m], promised[applied[m] + 1], applied[m], ops', acked')
             /\ Explained(snapshots[m].state, promised[snapshots[m].index + 1],
                          snapshots[m].index, ops', acked')
  <2>1. applied[m] \in 0 .. commitIndex /\ snapshots[m].index \in 0 .. commitIndex
    BY <1>a, CopiesCommitted
  <2> QED BY <1>2, <2>1, CausesKept DEF DivergenceInv, StoresExplained, SnapshotsExplained
<1>4. Explained(ApplyCommand(fsm[n], log[i + 1]), promised[i + 2], i + 1, ops', acked')
  <2>1. fsm[n] \in StoreState /\ Explained(fsm[n], promised[i + 1], i, ops, acked)
    BY <1>a DEF DivergenceInv, StoresExplained
  <2>2. Explained(ApplyCommand(fsm[n], log[i + 1]), promised[i + 2], i + 1, ops, acked)
    BY <1>a, <1>1, <2>1, AdvanceExplained
  <2>3. i + 1 \in 0 .. commitIndex
    BY <1>a, <1>1
  <2> QED BY <1>2, <2>2, <2>3, CausesKept
<1>5. ASSUME NEW m \in Node
      PROVE  Explained(fsm'[m], promised[applied'[m] + 1], applied'[m], ops', acked')
  <2>1. CASE m = n
    <3>1. applied'[n] = i + 1 /\ (i + 1) + 1 = i + 2
      BY <1>a, <1>1
    <3>2. fsm'[n] = ApplyCommand(fsm[n], log[i + 1])
      BY <1>a, <1>1
    <3> QED BY <1>4, <2>1, <3>1, <3>2
  <2>2. CASE m # n
    <3>1. fsm'[m] = fsm[m] /\ applied'[m] = applied[m]
      BY <1>a, <1>1, <2>2
    <3> QED BY <1>3, <3>1
  <2> QED BY <2>1, <2>2
<1>6. StoresExplained' /\ SnapshotsExplained'
  BY <1>1, <1>3, <1>5 DEF StoresExplained, SnapshotsExplained
<1>7. CalledFresh'
  BY <1>2 DEF CalledFresh, Steady
<1> QED BY <1>6, <1>7 DEF DivergenceInv

LEMMA DivergenceInit == Init => DivergenceInv
<1> SUFFICES ASSUME Init PROVE DivergenceInv
  OBVIOUS
<1>1. AgreementInv /\ AckedInv
  BY AgreementInit, AckedInit
<1>2. CalledFresh
  BY DEF Init, CalledFresh, IdleOp
<1>3. StoresExplained /\ SnapshotsExplained
  BY DEF Init, StoresExplained, SnapshotsExplained, Explained
<1> QED BY <1>1, <1>2, <1>3 DEF DivergenceInv

LEMMA DivergenceStep == DivergenceInv /\ [Next]_vars => DivergenceInv'
<1> SUFFICES ASSUME DivergenceInv, [Next]_vars PROVE DivergenceInv'
  OBVIOUS
<1>a. AgreementInv' /\ AckedInv'
  BY AgreementStep, AckedStep DEF DivergenceInv
<1>b. /\ TypeOK /\ CalledFresh /\ commitIndex \in Nat
      /\ ops \in [Op -> OpRecord \cup {IdleOp}] /\ acked \subseteq Op
  BY DEF DivergenceInv, AckedInv, TypeOK
\* Most steps write no copy of the store.
<1>c. ASSUME \A o \in Op : Steady(o), UNCHANGED <<fsm, applied, snapshots, promised>>
      PROVE  DivergenceInv'
  BY <1>a, <1>c, SteadyStep
\* One execution takes such a step on its own.
<1>d. ASSUME NEW o \in Op, Steady(o), UNCHANGED <<fsm, applied, snapshots, promised, acked>>,
             \A p \in Op \ {o} : ops'[p] = ops[p]
      PROVE  DivergenceInv'
  <2>1. \A p \in Op \ {o} : Steady(p)
    BY <1>b, <1>d, SteadySame
  <2> QED BY <1>c, <1>d, <2>1
<1>1. CASE UNCHANGED vars
  <2>1. \A o \in Op : Steady(o)
    BY <1>1, <1>b, SteadySame DEF vars, clientVars
  <2> QED BY <1>1, <1>c, <2>1 DEF vars, serverVars
<1>2. ASSUME NEW o \in Op, Request(o) PROVE DivergenceInv'
  <2>1. /\ UNCHANGED <<fsm, applied, snapshots, promised, acked>> /\ ops[o].pc = "idle"
        /\ \A p \in Op \ {o} : ops'[p] = ops[p]
    BY <1>2, <1>b DEF Request, AdminRequest, GameRequest, serverVars
  <2>2. ops'[o].pc = "called" => Fresh(ops', o)
    <3>1. CASE \E kind \in AdminKind : AdminRequest(o, kind)
      BY <1>b, <3>1 DEF AdminRequest, Begin
    <3>2. CASE \E kind \in Kinds : GameRequest(o, kind)
      <4>0. PICK kind \in Kinds : GameRequest(o, kind)
        BY <3>2
      <4>1. PICK f \in Node, a \in Arguments(kind) :
              ops' = [ops EXCEPT ![o] = Called(kind, f, leader, a)]
        BY <4>0 DEF GameRequest
      <4>2. ops'[o].cmd = Blank(kind) /\ ops'[o].card = a.card /\ Blank(kind).Op = kind
        BY <1>b, <4>1 DEF Called, Begin, Blank, ZeroCommand
      <4>3. kind = "play_cards" => a.card # 0
        BY DEF Arguments
      <4> QED BY <4>2, <4>3 DEF Fresh
    <3> QED BY <1>2, <3>1, <3>2 DEF Request
  <2>3. Steady(o)
    BY <1>b, <2>1, <2>2, Unwritten DEF Steady
  <2> QED BY <1>d, <2>1, <2>3
<1>3. ASSUME NEW o \in Op, JoinQueue(o) \/ CreateMatch(o) PROVE DivergenceInv'
  <2>1. /\ UNCHANGED <<fsm, applied, snapshots, promised, acked>> /\ ops[o].pc = "called"
        /\ \E cmd : ops' = [ops EXCEPT ![o] = At(ops[o], "built", cmd)]
    BY <1>3, <1>b DEF JoinQueue, CreateMatch, CanLock, serverVars
  <2>2. ops[o] \in OpRecord
    BY <1>b, <2>1, Begun
  <2>3. ops'[o].pc = "built" /\ \A p \in Op \ {o} : ops'[p] = ops[p]
    BY <1>b, <2>1, <2>2 DEF At, OpRecord
  <2>4. Steady(o)
    BY <1>b, <2>1, <2>3, Unwritten, SteadyNew
  <2> QED BY <1>d, <2>1, <2>3, <2>4
<1>4. ASSUME NEW o \in Op, BuildCommand(o) PROVE DivergenceInv'
  <2>1. ops[o] \in OpRecord /\ ops[o].pc = "mutated" /\ o \notin acked
    BY <1>4, <1>b, Begun DEF BuildCommand, DivergenceInv, AckedInv, AckedOver
  <2>2. /\ ops'[o] = WithShared(ops[o], fsm[leader])
        /\ UNCHANGED <<fsm, applied, snapshots, promised, acked>>
        /\ \A p \in Op \ {o} : ops'[p] = ops[p]
    BY <1>4, <1>b DEF BuildCommand, serverVars
  <2>3. /\ ops'[o].pc = "built"
        /\ ops'[o].player = ops[o].player /\ ops'[o].game = ops[o].game
        /\ \A f \in {"Op", "PlayerID", "PlayerCards", "GameId"} :
             ops'[o].cmd[f] = ops[o].cmd[f]
    BY <2>1, <2>2 DEF WithShared, At, OpRecord, Command
  <2>4. Steady(o)
    BY <2>1, <2>2, <2>3, SteadyMoves
  <2> QED BY <1>d, <2>2, <2>4
<1>5. ASSUME NEW o \in Op, Enqueue(o) PROVE DivergenceInv'
  <2>1. ops[o] \in OpRecord /\ o \notin acked
    BY <1>5, <1>b, Begun DEF Enqueue, DivergenceInv, AckedInv, AckedOver
  <2>2. /\ ops'[o] = [ops[o] EXCEPT !.pc = "waiting", !.live = FALSE, !.index = Len(log) + 1]
        /\ UNCHANGED <<fsm, applied, snapshots, promised, acked>>
        /\ \A p \in Op \ {o} : ops'[p] = ops[p]
    BY <1>5, <1>b DEF Enqueue, serverVars
  <2>3. /\ ops'[o].pc = "waiting" /\ ops'[o].index = Len(log) + 1
        /\ ops'[o].cmd = ops[o].cmd /\ ops'[o].player = ops[o].player
        /\ ops'[o].game = ops[o].game
    BY <2>1, <2>2 DEF OpRecord
  <2>4. commitIndex <= Len(log) /\ Len(log) \in Nat
    BY <1>b DEF TypeOK
  <2>5. \A i \in 0 .. commitIndex : Late(ops', acked', o, i)
    BY <1>b, <2>3, <2>4 DEF Late
  <2>6. Steady(o)
    BY <2>3, <2>5 DEF Steady
  <2> QED BY <1>d, <2>2, <2>6
<1>6. ASSUME NEW o \in Op, Reject(o) PROVE DivergenceInv'
  <2>1. ops[o] \in OpRecord /\ o \notin acked
    BY <1>6, <1>b, Begun DEF Reject, DivergenceInv, AckedInv, AckedOver
  <2>2. /\ ops'[o] = Failed(ops[o])
        /\ UNCHANGED <<fsm, applied, snapshots, promised, acked>>
        /\ \A p \in Op \ {o} : ops'[p] = ops[p]
    BY <1>6, <1>b DEF Reject, serverVars
  <2>3. Steady(o)
    BY <2>1, <2>2, FailedSteady, SteadyMoves
  <2> QED BY <1>d, <2>2, <2>3
<1>e. ASSUME NEW o \in Op, ops[o].pc = "joined", ops'[o] = Settled(ops[o]),
             acked' = acked
      PROVE  Steady(o)
  <2>1. ops[o] \in OpRecord
    BY <1>b, <1>e, Begun
  <2> QED BY <1>b, <1>e, <2>1, SettledSteady, SteadyFields
<1>7. ASSUME NEW o \in Op, CheckQueue(o) PROVE DivergenceInv'
  <2>1. /\ ops[o].pc = "joined" /\ ops'[o] = Settled(ops[o])
        /\ UNCHANGED <<fsm, applied, snapshots, promised, acked>>
        /\ \A p \in Op \ {o} : ops'[p] = ops[p]
    BY <1>7, <1>b DEF CheckQueue, serverVars
  <2> QED BY <1>d, <1>e, <2>1
<1>8. ASSUME NEW o \in Op, StartMatch(o) PROVE DivergenceInv'
  <2>1. PICK p \in Op, m \in Node :
          /\ ops[p].pc = "idle"
          /\ ops' = [ops EXCEPT
               ![o] = Settled(@),
               ![p] = Called("create_game", ops[o].from, m, NoArgument)]
    BY <1>8 DEF StartMatch
  <2>2. ops[o].pc = "joined" /\ UNCHANGED <<fsm, applied, snapshots, promised, acked>>
    BY <1>8 DEF StartMatch, QueueReady, serverVars
  <2>3. p # o /\ ops'[o] = Settled(ops[o])
    BY <1>b, <2>1, <2>2
  <2>4. ops'[p].cmd = Blank("create_game")
    BY <1>b, <2>1, <2>3 DEF Called, Begin
  <2>5. Steady(p)
    <3>1. Blank("create_game").Op = "create_game"
      BY DEF Blank, ZeroCommand
    <3>2. ~Wrote(ops, p)
      BY <1>b, <2>1, Unwritten
    <3>3. Fresh(ops', p)
      BY <2>4, <3>1 DEF Fresh
    <3> QED BY <3>2, <3>3 DEF Steady
  <2>6. ASSUME NEW q \in Op \ {o, p} PROVE Steady(q)
    BY <1>b, <2>1, <2>2, SteadySame
  <2> QED BY <1>c, <1>e, <2>2, <2>3, <2>5, <2>6
<1>9. ASSUME NEW o \in Op, PanicInREST(o) PROVE DivergenceInv'
  <2>1. /\ ops[o].pc = "called" /\ ops'[o] = [ops[o] EXCEPT !.pc = "panicked"]
        /\ UNCHANGED <<fsm, applied, snapshots, promised, acked>>
        /\ \A p \in Op \ {o} : ops'[p] = ops[p]
    BY <1>9, <1>b DEF PanicInREST, Panics, CanLock
  <2>2. ops'[o].pc = "panicked"
    BY <1>b, <2>1, Begun DEF OpRecord
  <2>3. Steady(o)
    BY <1>b, <2>1, <2>2, Unwritten, SteadyNew
  <2> QED BY <1>d, <2>1, <2>3
<1>10. ASSUME NEW o \in Op, PanicInCallback(o) \/ MatchUnanswered(o) PROVE DivergenceInv'
  <2>1. CASE PanicInCallback(o)
    <3>1. ops[o].node \in Node
      BY <2>1, <1>b, Begun DEF PanicInCallback, Panics, CanLock, OpRecord
    <3> QED BY <1>a, <2>1, <3>1, CrashExplained DEF PanicInCallback
  <2>2. CASE MatchUnanswered(o)
    <3>1. ops[o].from \in Node
      BY <2>2, <1>b, Begun DEF MatchUnanswered, QueueReady, OpRecord
    <3> QED BY <1>a, <2>2, <3>1, CrashExplained DEF MatchUnanswered
  <2> QED BY <1>10, <2>1, <2>2
<1>11. ASSUME NEW n \in Node, Restart(n) PROVE DivergenceInv'
  BY <1>11, <1>a, CrashExplained DEF Restart
<1>12. ASSUME NEW n \in Node, BecomeLeader(n) PROVE DivergenceInv'
  <2>1. UNCHANGED <<fsm, applied, snapshots, promised, ops, acked>>
    BY <1>12 DEF BecomeLeader, serverVars, clientVars
  <2>2. \A o \in Op : Steady(o)
    BY <1>b, <2>1, SteadySame
  <2> QED BY <1>c, <2>1, <2>2
<1>13. CASE LoseLeadership
  <2>1. UNCHANGED <<fsm, applied, snapshots, promised, acked>>
    BY <1>13 DEF LoseLeadership, serverVars
  <2>2. ASSUME NEW o \in Op PROVE Steady(o)
    <3>1. CASE ops'[o] = ops[o]
      BY <1>b, <2>1, <3>1, SteadySame
    <3>2. CASE ops[o].pc = "waiting" /\ ops'[o] = Failed(ops[o])
      <4>1. ops[o] \in OpRecord /\ o \notin acked
        BY <1>b, <3>2, Begun DEF DivergenceInv, AckedInv, AckedOver
      <4> QED BY <2>1, <3>2, <4>1, FailedSteady, SteadyMoves
    <3> QED BY <1>13, <3>1, <3>2 DEF LoseLeadership
  <2> QED BY <1>c, <2>1, <2>2
<1>14. CASE Commit
  <2>1. UNCHANGED <<fsm, applied, snapshots, ops, acked>>
    BY <1>14 DEF Commit, serverVars, clientVars
  <2>2. \A i \in 1 .. commitIndex + 1 : promised'[i] = promised[i]
    <3>1. promised \in Seq(StoreState) /\ Len(promised) = commitIndex + 1
      BY DEF DivergenceInv, AgreementInv, PromisedFollowsLog, TypeOK
    <3> QED BY <1>14, <1>b, <3>1 DEF Commit
  <2>3. \A o \in Op : Steady(o)
    BY <1>b, <2>1, SteadySame
  <2> QED BY <1>a, <2>1, <2>2, <2>3, SteadyStep
<1> QED
  BY <1>a, <1>1, <1>2, <1>3, <1>4, <1>5, <1>6, <1>7, <1>8, <1>9, <1>10, <1>11, <1>12, <1>13,
     <1>14, CreatePlayerExplained, PlayCardExplained, OpenPackExplained, ApplyNextExplained,
     SnapshotExplained, InstallExplained
  DEF Next, HandlerStep, ServerStep

\* Late is the stronger cause, and one that wrote has a command of its own.
LEMMA ExplainedDivergence == DivergenceInv => DivergenceExplained
<1> SUFFICES ASSUME DivergenceInv, NEW n \in Node
             PROVE  /\ \A p \in PlayerId :
                         fsm[n].players[p] # Promised(n).players[p] =>
                           \E o \in Op : /\ ops[o].cmd.Op = "open_pack" /\ Mutated(o)
                                         /\ ops[o].player = p
                                         /\ Pending(o, n) \/ ops[o].cmd.PlayerID # p
                    /\ \A g \in MatchId :
                         fsm[n].matchHistory[g] # Promised(n).matchHistory[g] =>
                           \E o \in Op : /\ ops[o].cmd.Op = "play_cards" /\ Mutated(o)
                                         /\ ops[o].game = g
                                         /\ Pending(o, n) \/ ops[o].cmd.GameId.SelfId # g
                    /\ fsm[n].count # Promised(n).count =>
                         \E o \in Op : /\ ops[o].cmd.Op = "create_player" /\ Mutated(o)
                                       /\ Pending(o, n)
                    /\ fsm[n].Cards # Promised(n).Cards =>
                         \E o \in Op : /\ ops[o].cmd.Op = "open_pack" /\ Mutated(o)
                                       /\ Pending(o, n) \/ ops[o].cmd.Cards = <<>>
  BY DEF DivergenceExplained
<1>1. Explained(fsm[n], Promised(n), applied[n], ops, acked)
  BY DEF DivergenceInv, StoresExplained, Promised
<1>2. ASSUME NEW o \in Op
      PROVE  /\ Wrote(ops, o) => Mutated(o)
             /\ Late(ops, acked, o, applied[n]) => Pending(o, n)
  <2>1. Wrote(ops, o) => Mutated(o)
    BY DEF Wrote, Opened, PlayedIn, Counted, Mutated, Blank, ZeroCommand
  <2>2. Late(ops, acked, o, applied[n]) => Pending(o, n)
    BY DEF Late, Pending
  <2> QED BY <2>1, <2>2
<1> QED BY <1>1, <1>2 DEF Explained, Wrote, Opened, PlayedIn, Counted

\* However many servers, executions, failures and snapshots there are, a server
\* differs from the log in what OpenPack, PlayCard and CreatePlayer write under
\* s.mu only on account of an execution of theirs that the log did not answer.
THEOREM DivergenceExplainedCorrect == Spec => []DivergenceExplained
BY DivergenceInit, DivergenceStep, ExplainedDivergence, PTL DEF Spec

-----------------------------------------------------------------------------
(***************************************************************************)
(* What a server alone guarantees until it is elected again.  After a       *)
(* restart it may lead before it has applied its log, and then it hands out *)
(* the ids and writes the cards of an old store; without one, a command its *)
(* handler gave up may still be applied and set the counter back.  So the   *)
(* theorems of this part are about a cluster of one server (Single), while  *)
(* it leads for the first time and, restarts included, until a server leads *)
(* after that (elections = 0).                                              *)
(***************************************************************************)
Single == \A m, n \in Node : m = n

\* The kinds of which a server runs one handler at a time.
OwnSubject == {"create_player", "open_pack", "play_cards"}

Working(o, kind) == ops[o].pc \in Running /\ ops[o].cmd.Op = kind

\* The command of o has a place in the log.
InLog(x, a, o) == o \in a \/ x[o].pc = "waiting"

OneEach ==
  \A kind \in OwnSubject : \A o, p \in Op :
    Working(o, kind) /\ Working(p, kind) => o = p

AtHome ==
  \A kind \in OwnSubject : \A o \in Op : Working(o, kind) => ops[o].from \in Node

OwnPlaces ==
  \A o, p \in Op :
    /\ InLog(ops, acked, o) /\ InLog(ops, acked, p)
    /\ ops[o].index = ops[p].index
    => o = p

\* Whatever the server has not applied, a handler of it still waits for.
Awaited ==
  \A j \in applied[leader] + 1 .. Len(log) :
    \E o \in Op : ops[o].pc = "waiting" /\ ops[o].index = j

\* Only these two read shared fields after their unlock.
Staged ==
  \A o \in Op : /\ ops[o].pc = "mutated" => ops[o].cmd.Op \in {"create_player", "open_pack"}
                /\ ops[o].live => ops[o].cmd.Op = "open_pack"

SoloInv ==
  /\ AckedInv /\ AgreementInv /\ leader \in Node
  /\ OneEach /\ AtHome /\ OwnPlaces /\ Awaited /\ Staged

-----------------------------------------------------------------------------
(* The steps of such a server, as far as the invariants below look.        *)

\* Execution o stays as it is or ends, with what it read and wrote.
Kept(o) ==
  /\ ops'[o].from = ops[o].from
  /\ ops'[o].player = ops[o].player
  /\ ops'[o].game = ops[o].game
  /\ ops'[o].card = ops[o].card
  /\ ops'[o].cmd = ops[o].cmd
  /\ InLog(ops, acked, o) => ops'[o].index = ops[o].index
  /\ ops'[o].live => ops[o].live
  /\ \/ ops'[o].pc = ops[o].pc
     \/ /\ ops[o].pc \notin {"idle", "waiting"}
        /\ ops'[o].pc \in OpState \ (Running \cup {"joined"})

\* Only o moves, from its server's answerless stages to the next.
Moves(o, from, to) ==
  /\ ops[o].pc = from /\ ops'[o].pc = to
  /\ ops'[o].from = ops[o].from
  /\ ops'[o].player = ops[o].player
  /\ ops'[o].game = ops[o].game
  /\ ops'[o].card = ops[o].card
  /\ ops'[o].cmd.Op = ops[o].cmd.Op
  /\ ops'[o].live => ops[o].cmd.Op = "open_pack"
  /\ \A p \in Op \ {o} : Kept(p)
  /\ UNCHANGED <<commitIndex, applied, promised, acked>>

Fsm == fsm[leader]

Ends ==
  /\ \A o \in Op : Kept(o)
  /\ UNCHANGED <<log, commitIndex, fsm, applied, promised, acked>>

Starts(o) ==
  /\ ops[o].pc = "idle"
  /\ ~ops'[o].live
  /\ \/ ops'[o].pc = "built" /\ ops'[o].cmd.Op \in AdminKind
     \/ /\ ops'[o].pc = "called" /\ ops'[o].from \in Node
        /\ ops'[o].cmd.PlayerCards = <<>>
        /\ ops'[o].cmd.Op \in OwnSubject => \A p \in Op : ~Working(p, ops'[o].cmd.Op)
        /\ ops'[o].cmd.Op = "play_cards" =>
             /\ <<ops'[o].game, ops'[o].player>> \in Playing
             /\ SameCard(ops'[o].game, ops'[o].player, ops'[o].card)
        /\ ops'[o].cmd.Op = "open_pack" => ops'[o].player # 0
        /\ \/ CallbackFree(ops'[o].from, ops'[o].cmd.Op)
           \/ /\ ops'[o].cmd.Op = "create_game"
              /\ \E q \in Op : ops[q].pc = "joined" /\ ops'[q].pc # "joined"
  /\ \A p \in Op \ {o} : Kept(p)
  /\ UNCHANGED <<log, commitIndex, fsm, applied, promised, acked>>

CountsUp(o) ==
  /\ Moves(o, "called", "mutated") /\ UNCHANGED log
  /\ ops[o].cmd.Op = "create_player"
  /\ ops'[o].cmd.PlayerID = Fsm.count + 1
  /\ ops'[o].cmd.PlayerCards = ops[o].cmd.PlayerCards
  /\ Fsm' = [Fsm EXCEPT !.count = Fsm.count + 1]

Opens(o) ==
  /\ Moves(o, "called", "mutated") /\ UNCHANGED log
  /\ ops[o].cmd.Op = "open_pack"
  /\ \E i \in 1 .. Len(Fsm.Cards) :
       LET player == Fsm.players[ops[o].player]
           cards == Append(player.Cards, Fsm.Cards[i])
       IN /\ ops'[o].cmd.PlayerID = player.Id
          /\ ops'[o].cmd.PlayerCards = cards
          /\ Fsm' = [Fsm EXCEPT !.Cards = SwapRemove(Fsm.Cards, i),
                                    !.players = [Fsm.players EXCEPT ![ops[o].player] =
                                                   [Id |-> player.Id, Cards |-> cards]]]

Readies(o) ==
  /\ Moves(o, "called", "built") /\ UNCHANGED <<log, fsm>>
  /\ \/ ops[o].cmd.Op = "join_game_queue"
     \/ /\ ops[o].cmd.Op = "create_game"
        /\ Len(Fsm.gameQueue) >= 2
        /\ ops'[o].cmd.GameId = NewMatch(o, Fsm.gameQueue[1], Fsm.gameQueue[2])
        /\ ops'[o].cmd.GameQueue = NewQueue(Fsm.gameQueue)

PutsCard(o) ==
  /\ Moves(o, "called", "built") /\ UNCHANGED log
  /\ ops[o].cmd.Op = "play_cards"
  /\ LET game == Played(Fsm.matchHistory[ops[o].game], ops[o].player, ops[o].card)
     IN /\ ops'[o].cmd.GameId = game
        /\ Fsm' = [Fsm EXCEPT !.matchHistory =
                       [Fsm.matchHistory EXCEPT ![ops[o].game] = game]]

Builds(o) ==
  /\ Moves(o, "mutated", "built") /\ UNCHANGED <<log, fsm>>
  /\ ops'[o].cmd = IF ops[o].cmd.Op = "create_player"
                   THEN [ops[o].cmd EXCEPT !.Count = Fsm.count]
                   ELSE [ops[o].cmd EXCEPT !.Cards = Fsm.Cards]

Enqueues(o) ==
  /\ Moves(o, "built", "waiting") /\ UNCHANGED fsm
  /\ ops'[o].cmd = ops[o].cmd
  /\ ops'[o].index = Len(log) + 1
  /\ log' = Append(log, ops[o].cmd)

Answered(o) == ops[o].pc = "waiting" /\ ops[o].index = applied[leader] + 1

Applies ==
  /\ applied[leader] < commitIndex
  /\ applied'[leader] = applied[leader] + 1
  /\ Fsm' = ApplyCommand(Fsm, log[applied[leader] + 1])
  /\ acked' = acked \cup {o \in Op : Answered(o)}
  /\ \A o \in Op :
       IF Answered(o)
       THEN /\ \/ ops'[o].pc = "ok"
               \/ ops'[o].pc = "joined" /\ log[applied[leader] + 1].Op = "join_game_queue"
            /\ \A f \in DOMAIN IdleOp \ {"pc"} : ops'[o][f] = ops[o][f]
       ELSE Kept(o)
  /\ UNCHANGED <<log, commitIndex, promised>>

Commits ==
  /\ commitIndex < Len(log)
  /\ commitIndex' = commitIndex + 1
  /\ promised' = Append(promised, ApplyCommand(Committed, log[commitIndex + 1]))
  /\ UNCHANGED <<log, fsm, applied, ops, acked>>

SoloStep ==
  \/ Ends \/ Applies \/ Commits
  \/ \E o \in Op : \/ Starts(o) \/ CountsUp(o) \/ Opens(o) \/ Readies(o)
                   \/ PutsCard(o) \/ Builds(o) \/ Enqueues(o)

-----------------------------------------------------------------------------
LEMMA KeptSame ==
  ASSUME NEW o \in Op, ops'[o] = ops[o]
  PROVE  Kept(o)
BY DEF Kept

\* An execution that ends without a place in the log.
LEMMA KeptEnds ==
  ASSUME NEW o \in Op, ops[o] \in OpRecord, NEW op, ops'[o] = op,
         ops[o].pc \notin {"idle", "waiting"},
         op.pc \in OpState \ (Running \cup {"joined"}),
         op = [ops[o] EXCEPT !.pc = op.pc, !.index = op.index, !.live = op.live],
         op.live => ops[o].live, op.index = ops[o].index \/ o \notin acked
  PROVE  Kept(o)
BY DEF Kept, InLog, OpRecord

LEMMA SoloSteps ==
  ASSUME SoloInv, Single, leader' # NoNode, [Next]_vars
  PROVE  leader' = leader /\ SoloStep
<1>a. /\ TypeOK /\ leader \in Node /\ \A n \in Node : n = leader
      /\ ops \in [Op -> OpRecord \cup {IdleOp}] /\ fsm \in [Node -> StoreState]
      /\ applied \in [Node -> Nat] /\ NoNode \notin Node
      /\ OneEach /\ AtHome /\ Staged /\ LiveBuilt
  BY RaftAssumption DEF SoloInv, AckedInv, TypeOK, Single
<1>b. \A o \in Op : ops[o].pc # "idle" =>
         ops[o] \in OpRecord /\ ops[o].node = leader /\ ops[o].from \in {leader, NoNode}
  BY <1>a, Begun DEF OpRecord
<1>1. CASE UNCHANGED vars
  BY <1>1, KeptSame DEF vars, raftVars, serverVars, clientVars, SoloStep, Ends
<1>2. ASSUME NEW o \in Op, Request(o) PROVE leader' = leader /\ SoloStep
  <2>1. ASSUME NEW kind \in Kinds, kind \in AdminKind, AdminRequest(o, kind)
        PROVE  leader' = leader /\ SoloStep
    <3>1. PICK n \in Node, c \in AdminCommands(kind) :
            ops' = [ops EXCEPT ![o] = Begin("built", NoNode, n, NoArgument, c)]
      BY <2>1 DEF AdminRequest
    <3>2. c.Op = kind
      <4>1. CASE kind = "set"
        <5>1. PICK k \in Key, v \in Value : c = SetCommand(k, v)
          BY <4>1 DEF AdminCommands
        <5> QED BY <4>1, <5>1 DEF SetCommand, Blank, ZeroCommand
      <4>2. CASE kind # "set"
        <5>1. PICK m \in MemberID : c = [Blank(kind) EXCEPT !.MemberID = {m}]
          BY <4>2 DEF AdminCommands
        <5> QED BY <5>1 DEF Blank, ZeroCommand
      <4> QED BY <4>1, <4>2
    <3>3. ops'[o].pc = "built" /\ ops'[o].cmd.Op \in AdminKind /\ ~ops'[o].live
      BY <1>a, <2>1, <3>1, <3>2 DEF Begin
    <3>4. \A p \in Op \ {o} : Kept(p)
      BY <1>a, <3>1, KeptSame
    <3> QED
      BY <2>1, <3>3, <3>4 DEF AdminRequest, raftVars, serverVars, SoloStep, Starts
  <2>2. ASSUME NEW kind \in Kinds, GameRequest(o, kind)
        PROVE  leader' = leader /\ SoloStep
    <3>1. PICK f \in Node, a \in Arguments(kind) :
            /\ CallbackFree(f, kind)
            /\ kind = "play_cards" => SameCard(a.game, a.player, a.card)
            /\ ops' = [ops EXCEPT ![o] = Called(kind, f, leader, a)]
      BY <2>2 DEF GameRequest
    <3>2. /\ ops'[o].pc = "called" /\ ops'[o].from = f /\ ops'[o].cmd.Op = kind
          /\ ops'[o].game = a.game /\ ops'[o].player = a.player /\ ops'[o].card = a.card
          /\ ~ops'[o].live /\ ops'[o].cmd.PlayerCards = <<>>
      BY <1>a, <3>1 DEF Called, Begin, Blank, ZeroCommand
    <3>3. \A p \in Op \ {o} : Kept(p)
      BY <1>a, <3>1, KeptSame
    <3>4. ASSUME kind \in OwnSubject, NEW p \in Op PROVE ~Working(p, kind)
      <4>1. Working(p, kind) => ops[p].from = f
        BY <1>a, <3>4 DEF AtHome
      <4> QED BY <3>1, <4>1 DEF CallbackFree, Working
    <3>5. kind = "play_cards" => <<a.game, a.player>> \in Playing
      BY <3>1 DEF Arguments
    <3>6. kind = "open_pack" => a.player # 0
      BY <3>1 DEF Arguments, KnownPlayer, NoArgument
    <3>7. Starts(o)
      BY <2>2, <3>1, <3>2, <3>3, <3>4, <3>5, <3>6 DEF GameRequest, serverVars, raftVars, Starts
    <3> QED BY <2>2, <3>7 DEF GameRequest, raftVars, SoloStep
  <2> QED BY <1>2, <2>1, <2>2 DEF Request
<1>3. ASSUME NEW o \in Op, CreatePlayer(o) PROVE leader' = leader /\ SoloStep
  <2>1. /\ ops[o] \in OpRecord /\ ops[o].cmd \in Command /\ ops[o].node = leader
        /\ ops[o].pc = "called" /\ ops[o].cmd.Op = "create_player"
    BY <1>3, <1>b DEF CreatePlayer, CanLock, OpRecord
  <2>2. ops' = [ops EXCEPT ![o] = At(ops[o], "mutated",
                             [ops[o].cmd EXCEPT !.PlayerID = Fsm.count + 1])]
    BY <1>3, <2>1 DEF CreatePlayer, NextId, Fsm
  <2>3. /\ Moves(o, "called", "mutated") /\ ops'[o].cmd.PlayerID = Fsm.count + 1
        /\ ops'[o].cmd.PlayerCards = ops[o].cmd.PlayerCards
    <3>1. \A p \in Op \ {o} : Kept(p)
      BY <1>a, <2>2, KeptSame
    <3>2. UNCHANGED <<commitIndex, applied, promised, acked>>
      BY <1>3 DEF CreatePlayer, raftVars
    <3> QED BY <1>a, <2>1, <2>2, <3>1, <3>2 DEF Moves, At, OpRecord, Command, Staged
  <2>4. leader' = leader /\ UNCHANGED log /\ Fsm' = [Fsm EXCEPT !.count = Fsm.count + 1]
    BY <1>3, <1>a, <2>1 DEF CreatePlayer, NextId, Fsm, raftVars
  <2> QED BY <2>1, <2>3, <2>4 DEF SoloStep, CountsUp
<1>4. ASSUME NEW o \in Op, OpenPack(o) PROVE leader' = leader /\ SoloStep
  <2>1. /\ ops[o] \in OpRecord /\ ops[o].cmd \in Command /\ ops[o].node = leader
        /\ ops[o].pc = "called" /\ ops[o].cmd.Op = "open_pack"
    BY <1>4, <1>b DEF OpenPack, CanLock, OpRecord
  <2> DEFINE player == Fsm.players[ops[o].player]
             cards(i) == Append(player.Cards, Fsm.Cards[i])
  <2>2. PICK i \in 1 .. Len(Fsm.Cards) :
          /\ fsm' = [fsm EXCEPT ![leader] =
               [@ EXCEPT !.Cards = SwapRemove(Fsm.Cards, i),
                         !.players = [Fsm.players EXCEPT ![ops[o].player] =
                                        [Id |-> player.Id, Cards |-> cards(i)]]]]
          /\ ops' = [p \in Op |->
               IF p = o
               THEN At(ops[o], "mutated", [ops[o].cmd EXCEPT !.PlayerID = player.Id,
                                                             !.PlayerCards = cards(i)])
               ELSE SwapSeen(ops[p], leader, i)]
    BY <1>4, <2>1 DEF OpenPack, Fsm
  <2>3. ASSUME NEW p \in Op \ {o} PROVE Kept(p)
    <3>1. ~ops[p].live
      <4>1. ops[p].live => Working(p, "open_pack")
        BY <1>a DEF Staged, LiveBuilt, Working, Running
      <4>2. Working(o, "open_pack")
        BY <2>1 DEF Working, Running
      <4> QED BY <1>a, <4>1, <4>2 DEF OneEach, OwnSubject
    <3> QED BY <2>2, <3>1, KeptSame DEF SwapSeen
  <2> HIDE DEF player, cards
  <2>4. ops'[o] = At(ops[o], "mutated", [ops[o].cmd EXCEPT !.PlayerID = player.Id,
                                                           !.PlayerCards = cards(i)])
    BY <2>2
  <2>5. /\ Moves(o, "called", "mutated")
        /\ ops'[o].cmd.PlayerID = player.Id /\ ops'[o].cmd.PlayerCards = cards(i)
    <3>1. UNCHANGED <<commitIndex, applied, promised, acked>>
      BY <1>4 DEF OpenPack, raftVars
    <3> DEFINE cmd == [ops[o].cmd EXCEPT !.PlayerID = player.Id, !.PlayerCards = cards(i)]
    <3>2. cmd.Op = ops[o].cmd.Op /\ cmd.PlayerID = player.Id /\ cmd.PlayerCards = cards(i)
      BY <2>1 DEF Command
    <3> HIDE DEF cmd
    <3>3. /\ ops'[o].pc = "mutated" /\ ops'[o].cmd = cmd /\ ops'[o].from = ops[o].from
          /\ ops'[o].player = ops[o].player /\ ops'[o].game = ops[o].game
          /\ ops'[o].card = ops[o].card
      BY <2>1, <2>4 DEF At, OpRecord, cmd
    <3> QED BY <2>1, <2>3, <3>1, <3>2, <3>3 DEF Moves
  <2>6. leader' = leader /\ UNCHANGED log
    BY <1>4 DEF OpenPack, raftVars
  <2>7. Fsm' = [Fsm EXCEPT !.Cards = SwapRemove(Fsm.Cards, i),
                           !.players = [Fsm.players EXCEPT ![ops[o].player] =
                                          [Id |-> player.Id, Cards |-> cards(i)]]]
    BY <1>a, <2>2, <2>6 DEF Fsm
  <2> QED BY <2>1, <2>5, <2>6, <2>7 DEF SoloStep, Opens, player, cards
<1>5. ASSUME NEW o \in Op, JoinQueue(o) PROVE leader' = leader /\ SoloStep
  <2>1. /\ ops[o] \in OpRecord /\ ops[o].cmd \in Command
        /\ ops[o].pc = "called" /\ ops[o].cmd.Op = "join_game_queue"
        /\ leader' = leader /\ UNCHANGED <<log, fsm, commitIndex, applied, promised, acked>>
    BY <1>5, <1>b DEF JoinQueue, CanLock, OpRecord, raftVars, serverVars
  <2>2. ops' = [ops EXCEPT ![o] =
                  At(ops[o], "built", [ops[o].cmd EXCEPT !.PlayerID = ops[o].player])]
    BY <1>5 DEF JoinQueue
  <2>3. \A p \in Op \ {o} : Kept(p)
    BY <1>a, <2>2, KeptSame
  <2>4. Moves(o, "called", "built")
    BY <1>a, <2>1, <2>2, <2>3 DEF Moves, At, OpRecord, Command, Staged
  <2> QED BY <2>1, <2>4 DEF SoloStep, Readies
<1>6. ASSUME NEW o \in Op, CreateMatch(o) PROVE leader' = leader /\ SoloStep
  <2> DEFINE queue == Fsm.gameQueue
             match == NewMatch(o, queue[1], queue[2])
             left == NewQueue(queue)
  <2>1. /\ ops[o] \in OpRecord /\ ops[o].cmd \in Command
        /\ ops[o].pc = "called" /\ ops[o].cmd.Op = "create_game" /\ Len(queue) >= 2
        /\ leader' = leader /\ UNCHANGED <<log, fsm, commitIndex, applied, promised, acked>>
        /\ ops' = [ops EXCEPT ![o] =
                     At(ops[o], "built", [ops[o].cmd EXCEPT !.GameId = match,
                                                            !.GameQueue = left])]
    BY <1>6, <1>b DEF CreateMatch, CanLock, OpRecord, raftVars, serverVars, Fsm
  <2> HIDE DEF match, queue, left
  <2>2. \A p \in Op \ {o} : Kept(p)
    BY <1>a, <2>1, KeptSame
  <2>3. /\ Moves(o, "called", "built")
        /\ ops'[o].cmd.GameId = match /\ ops'[o].cmd.GameQueue = left
    BY <1>a, <2>1, <2>2 DEF Moves, At, OpRecord, Command, Staged
  <2> QED BY <2>1, <2>3 DEF SoloStep, Readies, match, queue, left
<1>7. ASSUME NEW o \in Op, PlayCard(o) PROVE leader' = leader /\ SoloStep
  <2> DEFINE game == Played(Fsm.matchHistory[ops[o].game], ops[o].player, ops[o].card)
  <2>1. /\ ops[o] \in OpRecord /\ ops[o].cmd \in Command /\ ops[o].node = leader
        /\ ops[o].pc = "called" /\ ops[o].cmd.Op = "play_cards"
        /\ leader' = leader /\ UNCHANGED <<log, commitIndex, applied, promised, acked>>
    BY <1>7, <1>b DEF PlayCard, CanLock, OpRecord, raftVars
  <2>2. /\ ops' = [ops EXCEPT ![o] = At(ops[o], "built", [ops[o].cmd EXCEPT !.GameId = game])]
        /\ fsm' = [fsm EXCEPT ![leader] = [fsm[leader] EXCEPT !.matchHistory =
                     [Fsm.matchHistory EXCEPT ![ops[o].game] = game]]]
    BY <1>7, <2>1 DEF PlayCard, Fsm
  <2>3. \A p \in Op \ {o} : Kept(p)
    BY <1>a, <2>2, KeptSame
  <2> HIDE DEF game
  <2>4. Moves(o, "called", "built") /\ ops'[o].cmd.GameId = game
    BY <1>a, <2>1, <2>2, <2>3 DEF Moves, At, OpRecord, Command, Staged
  <2>5. Fsm' = [Fsm EXCEPT !.matchHistory =
                  [Fsm.matchHistory EXCEPT ![ops[o].game] = game]]
    BY <1>a, <2>1, <2>2 DEF Fsm
  <2> QED BY <2>1, <2>4, <2>5 DEF SoloStep, PutsCard, game
<1>8. ASSUME NEW o \in Op, BuildCommand(o) PROVE leader' = leader /\ SoloStep
  <2>1. /\ ops[o] \in OpRecord /\ ops[o].cmd \in Command /\ ops[o].pc = "mutated"
        /\ leader' = leader /\ UNCHANGED <<log, fsm, commitIndex, applied, promised, acked>>
        /\ ops' = [ops EXCEPT ![o] = WithShared(ops[o], Fsm)]
    BY <1>8, <1>b DEF BuildCommand, OpRecord, raftVars, serverVars, Fsm
  <2>2. \A p \in Op \ {o} : Kept(p)
    BY <1>a, <2>1, KeptSame
  <2> DEFINE cmd == IF ops[o].cmd.Op = "create_player"
                    THEN [ops[o].cmd EXCEPT !.Count = Fsm.count]
                    ELSE [ops[o].cmd EXCEPT !.Cards = Fsm.Cards]
  <2>3. cmd.Op = ops[o].cmd.Op
    BY <2>1 DEF Command
  <2>4. /\ ops'[o].pc = "built" /\ ops'[o].cmd = cmd /\ ops'[o].from = ops[o].from
        /\ ops'[o].player = ops[o].player /\ ops'[o].game = ops[o].game
        /\ ops'[o].card = ops[o].card
        /\ ops'[o].live => ops[o].cmd.Op = "open_pack"
    BY <1>a, <2>1 DEF WithShared, At, OpRecord, Staged
  <2> HIDE DEF cmd
  <2> QED BY <2>1, <2>2, <2>3, <2>4 DEF SoloStep, Builds, Moves, cmd
<1>9. ASSUME NEW o \in Op, Enqueue(o) PROVE leader' = leader /\ SoloStep
  <2>1. /\ ops[o] \in OpRecord /\ ops[o].pc = "built" /\ log' = Append(log, ops[o].cmd)
        /\ leader' = leader /\ UNCHANGED <<fsm, commitIndex, applied, promised, acked>>
        /\ ops' = [ops EXCEPT ![o] = [@ EXCEPT !.pc = "waiting", !.live = FALSE,
                                               !.index = Len(log) + 1]]
    BY <1>9, <1>b DEF Enqueue, RaftPropose, serverVars
  <2>2. \A p \in Op \ {o} : Kept(p)
    BY <1>a, <2>1, KeptSame
  <2>3. /\ ops'[o].pc = "waiting" /\ ops'[o].cmd = ops[o].cmd
        /\ ops'[o].from = ops[o].from /\ ops'[o].index = Len(log) + 1
        /\ ops'[o].player = ops[o].player /\ ops'[o].game = ops[o].game
        /\ ops'[o].card = ops[o].card /\ ~ops'[o].live
    BY <1>a, <2>1 DEF OpRecord
  <2> QED BY <2>1, <2>2, <2>3 DEF SoloStep, Enqueues, Moves
<1>10. ASSUME NEW o \in Op, Reject(o) PROVE leader' = leader /\ SoloStep
  <2>1. /\ ops[o] \in OpRecord /\ ops[o].pc \in {"mutated", "built"}
        /\ leader' = leader /\ UNCHANGED <<log, fsm, commitIndex, applied, promised, acked>>
        /\ ops' = [ops EXCEPT ![o] = Failed(ops[o])]
    BY <1>10, <1>b DEF Reject, raftVars, serverVars
  <2>2. Kept(o)
    <3>1. /\ o \notin acked /\ ops'[o] = Failed(ops[o])
      BY <1>a, <2>1 DEF SoloInv, AckedInv, AckedOver
    <3>2. /\ Failed(ops[o]).pc \in OpState \ (Running \cup {"joined"})
          /\ ~Failed(ops[o]).live
      <4>1. ops[o].from \notin Node \ {ops[o].node}
        BY <1>a, <1>b, <2>1
      <4> QED BY <2>1, <4>1, FailedFields DEF OpState, Running, Failed
    <3>3. Failed(ops[o]) = [ops[o] EXCEPT !.pc = Failed(ops[o]).pc,
                              !.index = Failed(ops[o]).index, !.live = Failed(ops[o]).live]
      BY <2>1 DEF Failed, OpRecord
    <3> QED BY <2>1, <3>1, <3>2, <3>3, KeptEnds
  <2>3. \A p \in Op \ {o} : Kept(p)
    BY <1>a, <2>1, KeptSame
  <2> QED BY <2>1, <2>2, <2>3 DEF SoloStep, Ends
<1>c. ASSUME NEW o \in Op, ops[o].pc = "joined", ops'[o] = Settled(ops[o])
      PROVE  Kept(o)
  <2>1. ops[o] \in OpRecord
    BY <1>b, <1>c
  <2>2. /\ Settled(ops[o]).pc \in OpState \ (Running \cup {"joined"})
        /\ Settled(ops[o]).live = ops[o].live /\ Settled(ops[o]).index = ops[o].index
    BY <2>1, SettledFields DEF OpState, Running
  <2>3. Settled(ops[o]) = [ops[o] EXCEPT !.pc = Settled(ops[o]).pc,
                             !.index = Settled(ops[o]).index, !.live = Settled(ops[o]).live]
    BY <2>1 DEF Settled, OpRecord
  <2> QED BY <1>c, <2>1, <2>2, <2>3, KeptEnds
<1>11. ASSUME NEW o \in Op, CheckQueue(o) PROVE leader' = leader /\ SoloStep
  <2>1. /\ ops[o].pc = "joined"
        /\ leader' = leader /\ UNCHANGED <<log, fsm, commitIndex, applied, promised, acked>>
        /\ ops' = [ops EXCEPT ![o] = Settled(ops[o])]
    BY <1>11 DEF CheckQueue, raftVars, serverVars
  <2>2. Kept(o)
    BY <1>a, <1>c, <2>1
  <2>3. \A p \in Op \ {o} : Kept(p)
    BY <1>a, <2>1, KeptSame
  <2> QED BY <2>1, <2>2, <2>3 DEF SoloStep, Ends
<1>12. ASSUME NEW o \in Op, StartMatch(o) PROVE leader' = leader /\ SoloStep
  <2>1. PICK q \in Op, m \in Node :
          /\ ops[q].pc = "idle"
          /\ ops' = [ops EXCEPT ![o] = Settled(ops[o]),
                                ![q] = Called("create_game", ops[o].from, m, NoArgument)]
    BY <1>12, <1>a DEF StartMatch
  <2>2. /\ ops[o].pc = "joined" /\ ops[o].from \in Node /\ o # q
        /\ leader' = leader /\ UNCHANGED <<log, fsm, commitIndex, applied, promised, acked>>
    BY <1>12, <1>a, <1>b, <2>1 DEF StartMatch, QueueReady, raftVars, serverVars
  <2>3. Kept(o)
    BY <1>a, <1>c, <2>1, <2>2
  <2>4. \A p \in Op \ {o, q} : Kept(p)
    BY <1>a, <2>1, KeptSame
  <2>5. /\ ops'[q].pc = "called" /\ ops'[q].from \in Node /\ ops'[q].cmd.Op = "create_game"
        /\ ~ops'[q].live /\ ops'[q].cmd.PlayerCards = <<>>
    BY <1>a, <2>1, <2>2 DEF Called, Begin, Blank, ZeroCommand
  <2>6. ops'[o].pc # "joined"
    <3>1. ops[o] \in OpRecord /\ ops'[o] = Settled(ops[o])
      BY <1>a, <1>b, <2>1, <2>2
    <3> QED BY <3>1, SettledFields
  <2>7. Starts(q)
    BY <2>1, <2>2, <2>3, <2>4, <2>5, <2>6 DEF Starts, OwnSubject
  <2> QED BY <2>2, <2>7 DEF SoloStep
<1>13. ASSUME NEW o \in Op, PanicInCallback(o) \/ MatchUnanswered(o)
       PROVE  leader' = leader /\ SoloStep
  <2>1. CASE PanicInCallback(o)
    <3>1. ops[o].node = leader
      BY <1>b, <2>1 DEF PanicInCallback, Panics, CanLock
    <3> QED BY <2>1, <3>1 DEF PanicInCallback, Crash, RaftCrash
  <2>2. CASE MatchUnanswered(o)
    <3>1. ops[o].from = leader
      BY <1>a, <1>b, <2>2 DEF MatchUnanswered, QueueReady
    <3> QED BY <2>2, <3>1 DEF MatchUnanswered, Crash, RaftCrash
  <2> QED BY <1>13, <2>1, <2>2
<1>14. ASSUME NEW o \in Op, PanicInREST(o) PROVE leader' = leader /\ SoloStep
  <2>1. /\ ops[o] \in OpRecord /\ ops[o].pc = "called"
        /\ leader' = leader /\ UNCHANGED <<log, fsm, commitIndex, applied, promised, acked>>
        /\ ops' = [ops EXCEPT ![o] = [ops[o] EXCEPT !.pc = "panicked"]]
    BY <1>14, <1>b DEF PanicInREST, Panics, CanLock, raftVars
  <2>2. Kept(o)
    BY <1>a, <2>1 DEF Kept, OpRecord, OpState, Running
  <2>3. \A p \in Op \ {o} : Kept(p)
    BY <1>a, <2>1, KeptSame
  <2> QED BY <2>1, <2>2, <2>3 DEF SoloStep, Ends
<1>15. ASSUME NEW n \in Node, ApplyNext(n) PROVE leader' = leader /\ SoloStep
  <2> DEFINE i == applied[leader] + 1
             c == log[i]
             answered == {o \in Op : Answered(o)}
  <2>1. n = leader /\ leader' = leader /\ UNCHANGED <<log, commitIndex, promised>>
    BY <1>15, <1>a DEF ApplyNext, raftVars
  <2>2. answered = {o \in Op : ops[o].pc = "waiting" /\ ops[o].node = n /\ ops[o].index = i}
    BY <1>b, <2>1 DEF Answered
  <2>3. /\ applied[leader] < commitIndex
        /\ fsm' = [fsm EXCEPT ![leader] = ApplyCommand(Fsm, c)]
        /\ applied' = [applied EXCEPT ![leader] = i]
        /\ acked' = acked \cup answered
        /\ ops' = [o \in Op |->
             IF o \in answered
             THEN [ops[o] EXCEPT !.pc = IF c.Op = "join_game_queue" THEN "joined" ELSE "ok"]
             ELSE IF ops[o].node = n /\ c.Op = "open_pack" /\ c.Cards # <<>>
                  THEN [ops[o] EXCEPT !.live = FALSE] ELSE ops[o]]
    BY <1>15, <2>1, <2>2 DEF ApplyNext, Fsm
  <2> HIDE DEF answered, c
  <2>4. ASSUME NEW o \in Op, o \in answered
        PROVE  /\ \/ ops'[o].pc = "ok"
                  \/ ops'[o].pc = "joined" /\ c.Op = "join_game_queue"
               /\ \A f \in DOMAIN IdleOp \ {"pc"} : ops'[o][f] = ops[o][f]
    <3>1. ops[o] \in OpRecord
      BY <1>b, <2>4 DEF answered, Answered
    <3> QED BY <2>3, <2>4, <3>1 DEF OpRecord, IdleOp
  <2>5. ASSUME NEW o \in Op, o \notin answered PROVE Kept(o)
    <3>1. CASE ops'[o] = ops[o]
      BY <3>1, KeptSame
    <3>2. CASE ops'[o] = [ops[o] EXCEPT !.live = FALSE] /\ ops[o] \in OpRecord
      BY <3>2 DEF Kept, OpRecord
    <3>3. ops[o].node = n => ops[o] \in OpRecord
      BY <1>a DEF IdleOp
    <3> QED BY <2>3, <2>5, <3>1, <3>2, <3>3
  <2>6. Applies
    BY <1>a, <2>1, <2>3, <2>4, <2>5 DEF Applies, Fsm, answered, c
  <2> QED BY <2>1, <2>6 DEF SoloStep
<1>16. ASSUME NEW n \in Node, TakeSnapshot(n) PROVE leader' = leader /\ SoloStep
  BY <1>16, KeptSame DEF TakeSnapshot, raftVars, clientVars, SoloStep, Ends
<1>17. ASSUME NEW n \in Node, InstallSnapshot(n) \/ BecomeLeader(n) \/ Restart(n)
       PROVE  leader' = leader /\ SoloStep
  <2>1. n = leader /\ leader # NoNode
    BY <1>a
  <2> QED BY <1>17, <2>1 DEF InstallSnapshot, BecomeLeader, RaftElect, Restart, Crash, RaftCrash
<1>18. CASE Commit
  BY <1>18 DEF Commit, RaftCommit, serverVars, clientVars, SoloStep, Commits, Committed
<1>19. CASE LoseLeadership
  BY <1>19 DEF LoseLeadership, RaftStepDown
<1> QED
  BY <1>1, <1>2, <1>3, <1>4, <1>5, <1>6, <1>7, <1>8, <1>9, <1>10, <1>11, <1>12, <1>13,
     <1>14, <1>15, <1>16, <1>17, <1>18, <1>19 DEF Next, HandlerStep, ServerStep

-----------------------------------------------------------------------------
\* What a step that keeps an execution cannot make of it.
LEMMA KeptFacts ==
  ASSUME NEW o \in Op, Kept(o)
  PROVE  /\ ops'[o].cmd = ops[o].cmd
         /\ ops'[o].from = ops[o].from
         /\ ops'[o].pc \in Running => ops'[o].pc = ops[o].pc
         /\ ops'[o].pc = "waiting" <=> ops[o].pc = "waiting"
         /\ \A kind : Working(o, kind)' => Working(o, kind)
         /\ ops[o].pc = "waiting" \/ o \in acked => ops'[o].index = ops[o].index
         /\ ops'[o].live => ops[o].live
BY DEF Kept, Working, InLog, Running

LEMMA MovesFacts ==
  ASSUME NEW o \in Op, NEW from \in Running, NEW to \in Running, Moves(o, from, to)
  PROVE  /\ \A p \in Op : \A kind : Working(p, kind)' => Working(p, kind)
         /\ \A p \in Op : ops'[p].from = ops[p].from
BY KeptFacts DEF Moves, Working

LEMMA SoloInit == Init /\ Single => SoloInv
<1> SUFFICES ASSUME Init PROVE SoloInv
  OBVIOUS
<1>1. AckedInv /\ AgreementInv
  BY AckedInit, AgreementInit
<1>2. \A o \in Op : ops[o] = IdleOp
  BY DEF Init
<1>3. leader \in Node /\ log = <<>> /\ applied[leader] = 0 /\ acked = {}
  BY DEF Init, RaftInit
<1>4. OneEach /\ AtHome /\ OwnPlaces /\ Staged
  BY <1>2, <1>3 DEF OneEach, AtHome, OwnPlaces, Staged, Working, Running, InLog, IdleOp
<1>5. Awaited
  BY <1>3 DEF Awaited
<1> QED BY <1>1, <1>3, <1>4, <1>5 DEF SoloInv

LEMMA SoloKept ==
  ASSUME SoloInv, Single, leader' # NoNode, [Next]_vars
  PROVE  SoloInv'
<1>a. leader' = leader /\ SoloStep
  BY SoloSteps
<1>b. AckedInv' /\ AgreementInv' /\ leader' \in Node
  BY <1>a, AckedStep, AgreementStep DEF SoloInv
<1>c. /\ OneEach /\ AtHome /\ OwnPlaces /\ Awaited /\ Staged /\ AckedInv
      /\ leader \in Node /\ applied \in [Node -> Nat] /\ log \in Seq(Command)
      /\ acked \subseteq Op /\ ops \in [Op -> OpRecord \cup {IdleOp}]
      /\ commitIndex \in Nat /\ commitIndex <= Len(log)
  BY DEF SoloInv, AckedInv, TypeOK
<1>d. \A o \in Op : InLog(ops, acked, o) => ops[o].index \in 1 .. Len(log)
  BY <1>c DEF AckedInv, AckedCommitted, WaitingPlaced, Placed, InLog
\* Most steps let no handler begin and leave the log alone.
<1>e. ASSUME UNCHANGED <<log, applied, acked>>,
             \A o \in Op : /\ ops'[o].pc = "waiting" <=> ops[o].pc = "waiting"
                           /\ InLog(ops, acked, o) => ops'[o].index = ops[o].index
      PROVE  OwnPlaces' /\ Awaited'
  BY <1>a, <1>c, <1>e DEF OwnPlaces, Awaited, InLog
<1>f. ASSUME \A o \in Op : \A kind : Working(o, kind)' => Working(o, kind),
             \A o \in Op : ops'[o].from = ops[o].from
      PROVE  OneEach' /\ AtHome'
  BY <1>c, <1>f DEF OneEach, AtHome
<1>1. ASSUME Ends PROVE SoloInv'
  <2>1. OneEach' /\ AtHome'
    BY <1>1, <1>f, KeptFacts DEF Ends
  <2>2. OwnPlaces' /\ Awaited'
    BY <1>1, <1>e, KeptFacts DEF Ends, InLog
  <2>3. Staged'
    BY <1>1, <1>c, KeptFacts DEF Ends, Staged, Running
  <2> QED BY <1>b, <2>1, <2>2, <2>3 DEF SoloInv
<1>2. ASSUME NEW o \in Op, Starts(o) PROVE SoloInv'
  <2>1. ASSUME NEW kind \in OwnSubject, NEW p \in Op, Working(p, kind)'
        PROVE  /\ p # o => Working(p, kind)
               /\ p = o => /\ ops'[o].from \in Node
                           /\ \A q \in Op : ~Working(q, kind)
    <3>1. p # o => Working(p, kind)
      BY <1>2, <2>1, KeptFacts DEF Starts
    <3>2. p = o => ops'[o].cmd.Op = kind /\ ops'[o].pc = "called"
      BY <1>2, <2>1 DEF Starts, Working, OwnSubject, AdminKind
    <3> QED BY <1>2, <2>1, <3>1, <3>2 DEF Starts
  <2>2. OneEach' /\ AtHome'
    <3>1. OneEach'
      BY <1>c, <2>1 DEF OneEach
    <3>2. AtHome'
      BY <1>2, <1>c, <2>1, KeptFacts DEF AtHome, Starts
    <3> QED BY <3>1, <3>2
  <2>3. OwnPlaces' /\ Awaited'
    <3>1. ops[o].pc # "waiting" /\ ops'[o].pc # "waiting" /\ o \notin acked
      BY <1>2, <1>c DEF Starts, AckedInv, AckedOver
    <3> QED BY <1>2, <1>e, <3>1, KeptFacts DEF Starts, InLog
  <2>4. Staged'
    BY <1>2, <1>c, KeptFacts DEF Starts, Staged, Running
  <2> QED BY <1>b, <2>2, <2>3, <2>4 DEF SoloInv
<1>3. ASSUME NEW o \in Op, NEW from \in {"called", "mutated"}, NEW to \in {"mutated", "built"},
             Moves(o, from, to), UNCHANGED log,
             to = "mutated" => ops[o].cmd.Op \in {"create_player", "open_pack"}
      PROVE  SoloInv'
  <2>1. OneEach' /\ AtHome'
    BY <1>3, <1>f, MovesFacts DEF Running
  <2>2. OwnPlaces' /\ Awaited'
    <3>1. o \notin acked
      BY <1>3, <1>c DEF Moves, AckedInv, AckedOver
    <3> QED BY <1>3, <1>e, <3>1, KeptFacts DEF Moves, InLog
  <2>3. Staged'
    BY <1>3, <1>c, KeptFacts DEF Moves, Staged, Running
  <2> QED BY <1>b, <2>1, <2>2, <2>3 DEF SoloInv
<1>4. ASSUME NEW o \in Op, Enqueues(o) PROVE SoloInv'
  <2>1. OneEach' /\ AtHome'
    BY <1>4, <1>f, MovesFacts DEF Enqueues, Running
  <2>2. /\ Len(log') = Len(log) + 1 /\ ops'[o].index = Len(log) + 1
        /\ ops'[o].pc = "waiting" /\ o \notin acked /\ acked' = acked /\ applied' = applied
        /\ \A p \in Op \ {o} : /\ InLog(ops', acked', p) <=> InLog(ops, acked, p)
                               /\ InLog(ops, acked, p) => ops'[p].index = ops[p].index
                               /\ ops'[p].pc = "waiting" <=> ops[p].pc = "waiting"
    BY <1>4, <1>c, KeptFacts DEF Enqueues, Moves, AckedInv, AckedOver, InLog
  <2>3. OwnPlaces'
    <3>1. \A p \in Op \ {o} : InLog(ops', acked', p) => ops'[p].index \in 1 .. Len(log)
      BY <1>d, <2>2 DEF InLog
    <3>2. \A p, q \in Op \ {o} : InLog(ops', acked', p) /\ InLog(ops', acked', q) /\ ops'[p].index = ops'[q].index => p = q
      BY <1>c, <2>2 DEF OwnPlaces, InLog
    <3>3. \A p \in Op \ {o} : InLog(ops', acked', p) => ops'[p].index # ops'[o].index
      BY <1>c, <2>2, <3>1
    <3> QED BY <3>2, <3>3 DEF OwnPlaces
  <2>4. Awaited'
    <3> SUFFICES ASSUME NEW j \in applied[leader] + 1 .. Len(log) + 1
                 PROVE  \E p \in Op : ops'[p].pc = "waiting" /\ ops'[p].index = j
      BY <1>a, <2>2 DEF Awaited
    <3>1. CASE j = Len(log) + 1
      BY <2>2, <3>1
    <3>2. CASE j # Len(log) + 1
      <4>1. PICK p \in Op : ops[p].pc = "waiting" /\ ops[p].index = j
        BY <1>c, <3>2 DEF Awaited
      <4>2. p # o
        BY <1>4, <4>1 DEF Enqueues, Moves
      <4> QED BY <2>2, <4>1, <4>2 DEF InLog
    <3> QED BY <3>1, <3>2
  <2>5. Staged'
    BY <1>4, <1>c, KeptFacts DEF Enqueues, Moves, Staged, Running
  <2> QED BY <1>b, <2>1, <2>3, <2>4, <2>5 DEF SoloInv
<1>5. ASSUME Applies PROVE SoloInv'
  <2>1. \A o \in Op : /\ ops'[o].cmd = ops[o].cmd /\ ops'[o].from = ops[o].from
                      /\ InLog(ops, acked, o) => ops'[o].index = ops[o].index
                      /\ ops'[o].live => ops[o].live
    BY <1>5, KeptFacts DEF Applies, IdleOp, InLog
  <2>2. \A o \in Op : /\ ops'[o].pc \in Running => ops'[o].pc = ops[o].pc
                      /\ InLog(ops', acked', o) <=> InLog(ops, acked, o)
                      /\ ops[o].pc = "waiting" /\ ~Answered(o) => ops'[o].pc = "waiting"
    <3>1. \A o \in Op : o \in acked' <=> o \in acked \/ Answered(o)
      BY <1>5, <1>c DEF Applies
    <3>2. ASSUME NEW o \in Op, Answered(o)
          PROVE  ops'[o].pc \in {"ok", "joined"} /\ ops[o].pc = "waiting"
      BY <1>5, <3>2 DEF Applies, Answered
    <3>3. ASSUME NEW o \in Op, ~Answered(o)
          PROVE  /\ ops'[o].pc \in Running => ops'[o].pc = ops[o].pc
                 /\ ops'[o].pc = "waiting" <=> ops[o].pc = "waiting"
      BY <1>5, <3>3, KeptFacts DEF Applies
    <3>4. \A o \in Op : (o \in acked' \/ ops'[o].pc = "waiting")
                          <=> (o \in acked \/ ops[o].pc = "waiting")
      BY <3>1, <3>2, <3>3
    <3>5. \A o \in Op : ops'[o].pc \in Running => ops'[o].pc = ops[o].pc
      BY <3>2, <3>3 DEF Running
    <3> QED BY <3>3, <3>4, <3>5 DEF InLog
  <2>3. OneEach' /\ AtHome'
    BY <1>f, <2>1, <2>2 DEF Working
  <2>4. OwnPlaces'
    BY <1>c, <2>1, <2>2 DEF OwnPlaces, InLog
  <2>5. Awaited'
    <3> SUFFICES ASSUME NEW j \in applied[leader] + 2 .. Len(log)
                 PROVE  \E o \in Op : ops'[o].pc = "waiting" /\ ops'[o].index = j
      BY <1>a, <1>c, <1>5 DEF Awaited, Applies
    <3>1. PICK o \in Op : ops[o].pc = "waiting" /\ ops[o].index = j
      BY <1>c DEF Awaited
    <3>2. ~Answered(o)
      BY <1>c, <3>1 DEF Answered
    <3> QED BY <2>1, <2>2, <3>1, <3>2 DEF InLog
  <2>6. Staged'
    BY <1>c, <2>1, <2>2 DEF Staged, Running
  <2> QED BY <1>b, <2>3, <2>4, <2>5, <2>6 DEF SoloInv
<1>6. ASSUME Commits PROVE SoloInv'
  BY <1>6, <1>a, <1>b, <1>c
  DEF Commits, SoloInv, OneEach, AtHome, Working, OwnPlaces, InLog, Awaited, Staged
<1>7. ASSUME NEW o \in Op, CountsUp(o) \/ Opens(o) \/ Builds(o) PROVE SoloInv'
  BY <1>3, <1>7 DEF CountsUp, Opens, Builds
<1>8. ASSUME NEW o \in Op, Readies(o) \/ PutsCard(o) PROVE SoloInv'
  BY <1>3, <1>8 DEF Readies, PutsCard
<1> QED
  BY <1>a, <1>1, <1>2, <1>4, <1>5, <1>6, <1>7, <1>8 DEF SoloStep

-----------------------------------------------------------------------------
(* The counter: the proofs of UniqueIds and CounterCoversPlayers.          *)

Creates(l, j) == l[j].Op = "create_player"

\* The log gives out its ids in order, and none the counter has not reached.
IdsIncrease ==
  /\ \A j \in 1 .. Len(log) :
       Creates(log, j) => /\ log[j].Count = log[j].PlayerID
                          /\ log[j].PlayerID <= Fsm.count
  /\ \A i, j \in 1 .. Len(log) :
       i < j /\ Creates(log, i) /\ Creates(log, j) => log[i].PlayerID < log[j].PlayerID

\* The id of an execution that has no place in the log yet is a new one.
IdChosen ==
  \A o \in Op :
    Working(o, "create_player") /\ ops[o].pc # "called" =>
      /\ ops[o].cmd.PlayerID = Fsm.count
      /\ ops[o].pc # "mutated" => ops[o].cmd.Count = ops[o].cmd.PlayerID
      /\ ops[o].pc # "waiting" =>
           /\ Committed.count < ops[o].cmd.PlayerID
           /\ \A j \in 1 .. Len(log) :
                Creates(log, j) => log[j].PlayerID < ops[o].cmd.PlayerID

CountCommitted ==
  /\ Committed.count <= Fsm.count
  /\ \A j \in 1 .. Len(log) :
       Creates(log, j) => (j <= commitIndex <=> log[j].PlayerID <= Committed.count)

\* OpenPack writes the id of the record it read, so it makes up none.
IdsCounted ==
  /\ \A p \in PlayerId : Fsm.players[p].Id <= Committed.count
  /\ \A o \in Op : Working(o, "open_pack") /\ ops[o].pc # "called" =>
       ops[o].cmd.PlayerID <= Committed.count
  /\ \A j \in 1 .. Len(log) : log[j].Op = "open_pack" =>
       log[j].PlayerID <= Committed.count

CounterInv ==
  /\ SoloInv
  /\ IdsIncrease /\ IdChosen /\ CountCommitted /\ IdsCounted /\ CounterCoversPlayers

\* What both invariants need of the types.
LEMMA SoloTypes ==
  ASSUME SoloInv
  PROVE  /\ leader \in Node /\ commitIndex \in Nat /\ commitIndex <= Len(log)
         /\ log \in Seq(Command) /\ Len(log) \in Nat
         /\ ops \in [Op -> OpRecord \cup {IdleOp}] /\ acked \subseteq Op
         /\ applied \in [Node -> Nat] /\ applied[leader] <= commitIndex
         /\ Fsm \in StoreState /\ Committed \in StoreState
         /\ promised \in Seq(StoreState) /\ Len(promised) = commitIndex + 1
<1>1. TypeOK /\ leader \in Node /\ PromisedFollowsLog /\ StoresFollowLog
  BY DEF SoloInv, AckedInv, AgreementInv
<1>2. Len(promised) \in 1 .. Len(promised)
  BY <1>1 DEF TypeOK, PromisedFollowsLog
<1> QED
  BY <1>1, <1>2 DEF TypeOK, Fsm, Committed, PromisedFollowsLog, StoresFollowLog, ShowsPrefix

\* The command a server applies next is that of the handler that waits for it.
LEMMA AppliesAwaited ==
  ASSUME SoloInv, applied[leader] < commitIndex
  PROVE  \E o \in Op : Answered(o) /\ ops[o].cmd = log[applied[leader] + 1]
<1>1. applied[leader] + 1 \in applied[leader] + 1 .. Len(log)
  BY SoloTypes
<1>2. PICK o \in Op : ops[o].pc = "waiting" /\ ops[o].index = applied[leader] + 1
  BY <1>1 DEF SoloInv, Awaited
<1> QED BY <1>2 DEF SoloInv, AckedInv, WaitingPlaced, Placed, Answered

\* What Commits makes of the committed state.
LEMMA CommitsFacts ==
  ASSUME SoloInv, Commits
  PROVE  /\ log[commitIndex + 1] \in Command
         /\ Committed' = ApplyCommand(Committed, log[commitIndex + 1])
         /\ Committed' \in StoreState
<1>1. log[commitIndex + 1] \in Command
  BY SoloTypes DEF Commits
<1>2. ApplyCommand(Committed, log[commitIndex + 1]) \in StoreState
  BY <1>1, SoloTypes, ApplyTypes
<1>3. Committed' = ApplyCommand(Committed, log[commitIndex + 1])
  BY <1>2, SoloTypes DEF Commits, Committed
<1> QED BY <1>1, <1>2, <1>3

LEMMA CounterInit == Init /\ Single => CounterInv
<1> SUFFICES ASSUME Init, Single PROVE CounterInv
  OBVIOUS
<1>1. SoloInv /\ log = <<>> /\ commitIndex = 0 /\ Fsm = Base /\ Committed = Base
  BY SoloInit DEF Init, RaftInit, Fsm, Committed, SoloInv
<1>2. \A o \in Op : ops[o] = IdleOp
  BY DEF Init
<1>3. Base.count = Accounts /\ Accounts \in Nat
  BY ClusterAssumption DEF Base, NewStore
<1>4. \A p \in PlayerId : Base.players[p].Id = IF p \in 1 .. Accounts THEN p ELSE 0
  BY DEF Base, NewStore, ZeroPlayer
<1>5. IdsIncrease /\ IdChosen /\ CountCommitted
  BY <1>1, <1>2, <1>3
  DEF IdsIncrease, IdChosen, CountCommitted, Working, Running, IdleOp
<1>6. IdsCounted /\ CounterCoversPlayers
  BY <1>1, <1>2, <1>3, <1>4
  DEF IdsCounted, CounterCoversPlayers, Working, Running, IdleOp, PlayerId
<1> QED BY <1>1, <1>5, <1>6 DEF CounterInv

LEMMA CounterStep ==
  ASSUME CounterInv, Single, leader' # NoNode, [Next]_vars
  PROVE  CounterInv'
<1>a. leader' = leader /\ SoloStep /\ SoloInv /\ SoloInv'
  BY SoloSteps, SoloKept DEF CounterInv
<1>b. /\ leader \in Node /\ commitIndex \in Nat /\ commitIndex <= Len(log)
      /\ log \in Seq(Command) /\ Len(log) \in Nat
      /\ ops \in [Op -> OpRecord \cup {IdleOp}] /\ acked \subseteq Op
      /\ Fsm \in StoreState /\ Committed \in StoreState
      /\ Fsm.count \in Nat /\ Committed.count \in Nat
      /\ \A j \in 1 .. Len(log) : log[j].PlayerID \in Nat
  <2>1. PlayerId \subseteq Nat
    BY DEF PlayerId
  <2>2. Fsm.count \in PlayerId /\ Committed.count \in PlayerId
    BY <1>a, SoloTypes DEF StoreState
  <2>3. \A j \in 1 .. Len(log) : log[j].PlayerID \in PlayerId
    <3>1. \A j \in 1 .. Len(log) : log[j] \in Command
      BY <1>a, SoloTypes
    <3> QED BY <3>1 DEF Command
  <2> QED BY <1>a, <2>1, <2>2, <2>3, SoloTypes
<1>c. IdsIncrease /\ IdChosen /\ CountCommitted /\ IdsCounted /\ CounterCoversPlayers
  BY DEF CounterInv
\* Most steps touch neither counter and give no id to an execution.
<1>d. ASSUME UNCHANGED <<log, commitIndex, promised>>, Fsm'.count = Fsm.count,
             \A p \in PlayerId : Fsm'.players[p].Id <= Committed.count,
             \A o \in Op : \A kind \in {"create_player", "open_pack"} :
               Working(o, kind)' /\ ops'[o].pc # "called" =>
                 /\ Working(o, kind) /\ ops[o].pc = ops'[o].pc
                 /\ ops'[o].cmd = ops[o].cmd
      PROVE  CounterInv'
  <2>1. Committed' = Committed
    BY <1>d DEF Committed
  <2>2. IdsIncrease' /\ CountCommitted' /\ CounterCoversPlayers'
    BY <1>c, <1>d, <2>1 DEF IdsIncrease, CountCommitted, CounterCoversPlayers, Creates
  <2>3. IdChosen'
    BY <1>c, <1>d, <2>1 DEF IdChosen, Creates
  <2>4. IdsCounted'
    BY <1>c, <1>d, <2>1 DEF IdsCounted
  <2> QED BY <1>a, <2>2, <2>3, <2>4 DEF CounterInv
<1>e. ASSUME NEW o \in Op, Kept(o), NEW kind, Working(o, kind)'
      PROVE  Working(o, kind) /\ ops[o].pc = ops'[o].pc /\ ops'[o].cmd = ops[o].cmd
  BY <1>e, KeptFacts DEF Working
<1>1. ASSUME Ends PROVE CounterInv'
  BY <1>1, <1>a, <1>c, <1>d, <1>e DEF Ends, IdsCounted, Fsm
<1>2. ASSUME NEW o \in Op, Starts(o) PROVE CounterInv'
  <2>1. \A kind \in {"create_player", "open_pack"} :
          Working(o, kind)' => ops'[o].pc = "called"
    BY <1>2 DEF Starts, Working, AdminKind
  <2> QED BY <1>2, <1>a, <1>c, <1>d, <1>e, <2>1 DEF Starts, IdsCounted, Fsm
<1>3. ASSUME NEW o \in Op, Readies(o) PROVE CounterInv'
  <2>1. \A kind \in {"create_player", "open_pack"} : ~Working(o, kind)'
    BY <1>3 DEF Readies, Moves, Working
  <2> QED BY <1>3, <1>a, <1>c, <1>d, <1>e, <2>1 DEF Readies, Moves, IdsCounted, Fsm
<1>4. ASSUME NEW o \in Op, PutsCard(o) PROVE CounterInv'
  <2>1. \A kind \in {"create_player", "open_pack"} : ~Working(o, kind)'
    BY <1>4 DEF PutsCard, Moves, Working
  <2>2. Fsm'.count = Fsm.count /\ Fsm'.players = Fsm.players
    BY <1>4, <1>b DEF PutsCard, StoreState
  <2> QED BY <1>4, <1>c, <1>d, <1>e, <2>1, <2>2 DEF PutsCard, Moves, IdsCounted
<1>5. ASSUME NEW o \in Op, CountsUp(o) PROVE CounterInv'
  <2>1. /\ UNCHANGED <<log, commitIndex, promised>> /\ Committed' = Committed
        /\ Fsm'.count = Fsm.count + 1 /\ Fsm'.players = Fsm.players
        /\ ops'[o].cmd.PlayerID = Fsm.count + 1 /\ ops'[o].pc = "mutated"
        /\ ops'[o].cmd.Op = "create_player" /\ Working(o, "create_player")
    BY <1>5, <1>b DEF CountsUp, Moves, StoreState, Committed, Working, Running
  <2>2. \A p \in Op \ {o} : ~Working(p, "create_player")'
    <3>1. \A p \in Op \ {o} : Working(p, "create_player")' => Working(p, "create_player")
      BY <1>5, <1>e DEF CountsUp, Moves
    <3>2. \A p \in Op \ {o} : ~Working(p, "create_player")
      BY <1>a, <2>1 DEF SoloInv, OneEach, OwnSubject
    <3> QED BY <3>1, <3>2
  <2>3. IdsIncrease'
    <3>1. \A j \in 1 .. Len(log) : Creates(log, j) => log[j].PlayerID <= Fsm.count + 1
      BY <1>b, <1>c DEF IdsIncrease
    <3> QED BY <1>c, <2>1, <3>1 DEF IdsIncrease
  <2>4. CountCommitted' /\ CounterCoversPlayers'
    BY <1>b, <1>c, <2>1 DEF CountCommitted, CounterCoversPlayers, Creates
  <2>5. IdChosen'
    <3>1. /\ ops'[o].cmd.PlayerID = Fsm'.count
          /\ Committed.count < ops'[o].cmd.PlayerID
          /\ \A j \in 1 .. Len(log) :
               Creates(log, j) => log[j].PlayerID < ops'[o].cmd.PlayerID
      BY <1>b, <1>c, <2>1 DEF IdsIncrease, CountCommitted
    <3> QED BY <2>1, <2>2, <3>1 DEF IdChosen, Creates
  <2>6. IdsCounted'
    <3>1. ~Working(o, "open_pack")'
      BY <2>1 DEF Working
    <3> QED BY <1>5, <1>c, <1>e, <2>1, <3>1 DEF CountsUp, Moves, IdsCounted
  <2> QED BY <1>a, <2>3, <2>4, <2>5, <2>6 DEF CounterInv
<1>6. ASSUME NEW o \in Op, Opens(o) PROVE CounterInv'
  <2>1. /\ UNCHANGED <<log, commitIndex, promised>> /\ Committed' = Committed
        /\ Fsm'.count = Fsm.count
        /\ ops'[o].cmd.Op = "open_pack" /\ Working(o, "open_pack")
    BY <1>6, <1>b DEF Opens, Moves, StoreState, Committed, Working, Running
  <2>2. ops[o].player \in PlayerId
    <3>1. ops[o].pc = "called"
      BY <1>6 DEF Opens, Moves
    <3>2. ops[o] \in OpRecord
      BY <1>b, <3>1 DEF IdleOp
    <3> QED BY <3>2 DEF OpRecord
  <2>3. /\ ops'[o].cmd.PlayerID = Fsm.players[ops[o].player].Id
        /\ \A p \in PlayerId : Fsm'.players[p].Id = Fsm.players[p].Id
    <3> DEFINE id == ops[o].player
               player == Fsm.players[id]
    <3>1. PICK i \in 1 .. Len(Fsm.Cards) :
            /\ ops'[o].cmd.PlayerID = player.Id
            /\ Fsm' = [Fsm EXCEPT !.Cards = SwapRemove(Fsm.Cards, i),
                         !.players = [Fsm.players EXCEPT ![id] =
                           [Id |-> player.Id, Cards |-> Append(player.Cards, Fsm.Cards[i])]]]
      BY <1>6 DEF Opens
    <3>2. Fsm.players \in [PlayerId -> Player]
      BY <1>b DEF StoreState
    <3>3. Fsm'.players = [Fsm.players EXCEPT ![id] =
                           [Id |-> player.Id, Cards |-> Append(player.Cards, Fsm.Cards[i])]]
      BY <1>b, <3>1 DEF StoreState
    <3> QED BY <2>2, <3>1, <3>2, <3>3
  <2>4. \A p \in Op \ {o} : ~Working(p, "open_pack")'
    <3>1. \A p \in Op \ {o} : Working(p, "open_pack")' => Working(p, "open_pack")
      BY <1>6, <1>e DEF Opens, Moves
    <3>2. \A p \in Op \ {o} : ~Working(p, "open_pack")
      BY <1>a, <2>1 DEF SoloInv, OneEach, OwnSubject
    <3> QED BY <3>1, <3>2
  <2>5. IdsIncrease' /\ CountCommitted' /\ CounterCoversPlayers'
    BY <1>c, <2>1 DEF IdsIncrease, CountCommitted, CounterCoversPlayers, Creates
  <2>6. IdChosen'
    <3>1. ~Working(o, "create_player")'
      BY <2>1 DEF Working
    <3>2. \A p \in Op \ {o} : Kept(p)
      BY <1>6 DEF Opens, Moves
    <3> QED BY <1>c, <1>e, <2>1, <3>1, <3>2 DEF IdChosen, Creates
  <2>7. IdsCounted'
    BY <1>c, <2>1, <2>2, <2>3, <2>4 DEF IdsCounted
  <2> QED BY <1>a, <2>5, <2>6, <2>7 DEF CounterInv
<1>7. ASSUME NEW o \in Op, Builds(o) PROVE CounterInv'
  <2>1. /\ UNCHANGED <<log, commitIndex, promised>> /\ Committed' = Committed
        /\ Fsm' = Fsm /\ ops[o].pc = "mutated" /\ ops'[o].pc = "built"
        /\ ops'[o].cmd.Op = ops[o].cmd.Op
    BY <1>7, <1>a DEF Builds, Moves, Committed, Fsm
  <2>2. /\ ops'[o].cmd.PlayerID = ops[o].cmd.PlayerID
        /\ ops[o].cmd.Op = "create_player" => ops'[o].cmd.Count = Fsm.count
    <3>1. ops[o].cmd \in Command
      BY <1>b, <2>1, Begun DEF OpRecord, IdleOp
    <3> QED BY <1>7, <3>1 DEF Builds, Command
  <2>3. \A kind : Working(o, kind)' => Working(o, kind)
    BY <2>1 DEF Working, Running
  <2>4. IdsIncrease' /\ CountCommitted' /\ CounterCoversPlayers'
    BY <1>c, <2>1 DEF IdsIncrease, CountCommitted, CounterCoversPlayers, Creates
  <2>5. IdChosen'
    <3>1. ASSUME NEW p \in Op, Working(p, "create_player")', ops'[p].pc # "called"
          PROVE  /\ ops'[p].cmd.PlayerID = Fsm.count
                 /\ ops'[p].pc # "mutated" => ops'[p].cmd.Count = ops'[p].cmd.PlayerID
                 /\ ops'[p].pc # "waiting" =>
                      /\ Committed.count < ops'[p].cmd.PlayerID
                      /\ \A j \in 1 .. Len(log) :
                           Creates(log, j) => log[j].PlayerID < ops'[p].cmd.PlayerID
      <4>1. CASE p = o
        <5>1. Working(o, "create_player") /\ ops[o].cmd.Op = "create_player"
          BY <2>3, <3>1, <4>1 DEF Working
        <5> QED BY <1>c, <2>1, <2>2, <4>1, <5>1 DEF IdChosen
      <4>2. CASE p # o
        BY <1>7, <1>c, <1>e, <3>1, <4>2 DEF Builds, Moves, IdChosen
      <4> QED BY <4>1, <4>2
    <3> QED BY <2>1, <3>1 DEF IdChosen, Creates
  <2>6. IdsCounted'
    <3>1. ASSUME NEW p \in Op, Working(p, "open_pack")', ops'[p].pc # "called"
          PROVE  ops'[p].cmd.PlayerID <= Committed.count
      <4>1. CASE p = o
        BY <1>c, <2>1, <2>2, <2>3, <3>1, <4>1 DEF IdsCounted
      <4>2. CASE p # o
        BY <1>7, <1>c, <1>e, <3>1, <4>2 DEF Builds, Moves, IdsCounted
      <4> QED BY <4>1, <4>2
    <3> QED BY <1>c, <2>1, <3>1 DEF IdsCounted
  <2> QED BY <1>a, <2>4, <2>5, <2>6 DEF CounterInv
<1>8. ASSUME NEW o \in Op, Enqueues(o) PROVE CounterInv'
  <2> DEFINE cmd == ops[o].cmd
  <2>1. /\ UNCHANGED <<commitIndex, promised>> /\ Committed' = Committed
        /\ Fsm' = Fsm /\ ops[o].pc = "built" /\ ops'[o].pc = "waiting"
        /\ ops'[o].cmd = cmd /\ log' = Append(log, cmd)
        /\ \A kind : Working(o, kind)' <=> Working(o, kind)
    BY <1>8, <1>a DEF Enqueues, Moves, Committed, Fsm, Working, Running
  <2>2. cmd \in Command
    BY <1>b, <2>1, Begun DEF OpRecord, IdleOp
  <2>3. /\ Len(log') = Len(log) + 1 /\ log'[Len(log) + 1] = cmd
        /\ \A j \in 1 .. Len(log) : log'[j] = log[j]
        /\ \A j \in 1 .. Len(log') : j \in 1 .. Len(log) \/ j = Len(log) + 1
    BY <1>b, <2>1, <2>2
  <2> HIDE DEF cmd
  <2>4. cmd.Op = "create_player" =>
          /\ cmd.Count = cmd.PlayerID /\ cmd.PlayerID = Fsm.count
          /\ Committed.count < cmd.PlayerID
          /\ \A j \in 1 .. Len(log) : Creates(log, j) => log[j].PlayerID < cmd.PlayerID
    BY <1>c, <2>1 DEF IdChosen, Working, Running, cmd
  <2>5. cmd.PlayerID \in Nat
    BY <2>2 DEF Command, PlayerId
  <2>6. \A j \in 1 .. Len(log) : Creates(log', j) <=> Creates(log, j)
    BY <2>3 DEF Creates
  <2>7. Creates(log', Len(log) + 1) <=> cmd.Op = "create_player"
    BY <2>3 DEF Creates
  <2>8. IdsIncrease'
    <3>1. ASSUME NEW j \in 1 .. Len(log'), Creates(log', j)
          PROVE  log'[j].Count = log'[j].PlayerID /\ log'[j].PlayerID <= Fsm.count
      BY <1>b, <1>c, <2>3, <2>4, <2>6, <2>7, <3>1 DEF IdsIncrease
    <3>2. ASSUME NEW i \in 1 .. Len(log'), NEW j \in 1 .. Len(log'), i < j,
                 Creates(log', i), Creates(log', j)
          PROVE  log'[i].PlayerID < log'[j].PlayerID
      <4>1. i \in 1 .. Len(log)
        BY <1>b, <2>3, <3>2
      <4> QED BY <1>c, <2>3, <2>4, <2>6, <2>7, <3>2, <4>1 DEF IdsIncrease
    <3> QED BY <2>1, <3>1, <3>2 DEF IdsIncrease
  <2>9. CountCommitted' /\ CounterCoversPlayers'
    <3>1. ASSUME NEW j \in 1 .. Len(log'), Creates(log', j)
          PROVE  j <= commitIndex <=> log'[j].PlayerID <= Committed.count
      <4>1. CASE j \in 1 .. Len(log)
        BY <1>c, <2>3, <2>6, <3>1, <4>1 DEF CountCommitted
      <4>2. CASE j = Len(log) + 1
        <5>1. ~(j <= commitIndex) /\ log'[j] = cmd /\ cmd.Op = "create_player"
          BY <1>b, <2>3, <2>7, <3>1, <4>2
        <5> QED BY <1>b, <2>4, <2>5, <5>1
      <4> QED BY <2>3, <4>1, <4>2
    <3> QED BY <1>c, <2>1, <3>1 DEF CountCommitted, CounterCoversPlayers
  <2>10. IdChosen'
    <3>1. ASSUME NEW p \in Op, Working(p, "create_player")', ops'[p].pc # "called"
          PROVE  /\ ops'[p].cmd.PlayerID = Fsm.count
                 /\ ops'[p].pc # "mutated" => ops'[p].cmd.Count = ops'[p].cmd.PlayerID
                 /\ ops'[p].pc # "waiting" =>
                      /\ Committed.count < ops'[p].cmd.PlayerID
                      /\ \A j \in 1 .. Len(log') :
                           Creates(log', j) => log'[j].PlayerID < ops'[p].cmd.PlayerID
      <4>1. CASE p = o
        <5>1. cmd.Op = "create_player"
          BY <2>1, <3>1, <4>1 DEF Working, cmd
        <5> QED BY <2>1, <2>4, <4>1, <5>1
      <4>2. CASE p # o
        <5>1. Working(p, "create_player") /\ ops[p].pc = ops'[p].pc /\ ops'[p].cmd = ops[p].cmd
          BY <1>8, <1>e, <3>1, <4>2 DEF Enqueues, Moves
        <5>2. cmd.Op # "create_player"
          BY <1>a, <2>1, <4>2, <5>1
          DEF SoloInv, OneEach, OwnSubject, Working, Running, cmd
        <5> QED BY <1>c, <2>3, <2>6, <2>7, <3>1, <5>1, <5>2 DEF IdChosen
      <4> QED BY <4>1, <4>2
    <3> QED BY <2>1, <3>1 DEF IdChosen
  <2>11. IdsCounted'
    <3>1. cmd.Op = "open_pack" => cmd.PlayerID <= Committed.count
      BY <1>c, <2>1 DEF IdsCounted, Working, Running, cmd
    <3>2. \A p \in Op : Working(p, "open_pack")' /\ ops'[p].pc # "called" =>
            ops'[p].cmd.PlayerID <= Committed.count
      <4> SUFFICES ASSUME NEW p \in Op, Working(p, "open_pack")', ops'[p].pc # "called"
                   PROVE  ops'[p].cmd.PlayerID <= Committed.count
        OBVIOUS
      <4>1. CASE p = o
        BY <2>1, <3>1, <4>1 DEF Working, cmd
      <4>2. CASE p # o
        BY <1>8, <1>c, <1>e, <4>2 DEF Enqueues, Moves, IdsCounted
      <4> QED BY <4>1, <4>2
    <3>3. \A j \in 1 .. Len(log') : log'[j].Op = "open_pack" =>
            log'[j].PlayerID <= Committed.count
      BY <1>c, <2>3, <3>1 DEF IdsCounted
    <3> QED BY <1>c, <2>1, <3>2, <3>3 DEF IdsCounted
  <2> QED BY <1>a, <2>8, <2>9, <2>10, <2>11 DEF CounterInv
<1>9. ASSUME Applies PROVE CounterInv'
  <2> DEFINE c == log[applied[leader] + 1]
  <2>1. PICK o \in Op : Answered(o) /\ ops[o].cmd = c
    BY <1>9, <1>a, AppliesAwaited DEF Applies
  <2>2. c \in Command /\ applied[leader] + 1 \in 1 .. commitIndex
        /\ applied[leader] + 1 \in 1 .. Len(log)
    BY <1>9, <1>a, SoloTypes DEF Applies
  <2>3. Fsm' = ApplyCommand(Fsm, c) /\ UNCHANGED <<log, commitIndex, promised>>
    BY <1>9 DEF Applies
  <2>4. Fsm'.count = Fsm.count
    <3>1. CASE c.Op = "create_player"
      <4>1. Working(o, "create_player") /\ ops[o].pc = "waiting"
        BY <2>1, <3>1 DEF Answered, Working, Running
      <4>2. c.PlayerID = Fsm.count /\ c.Count = c.PlayerID
        BY <1>c, <2>1, <4>1 DEF IdChosen
      <4> QED BY <2>3, <3>1, <4>2 DEF ApplyCommand
    <3>2. CASE c.Op # "create_player"
      BY <2>3, <3>2 DEF ApplyCommand
    <3> QED BY <3>1, <3>2
  <2>5. c.Op \in {"create_player", "open_pack"} => c.PlayerID <= Committed.count
    BY <1>c, <2>2 DEF CountCommitted, IdsCounted, Creates
  <2>6. \A p \in PlayerId : Fsm'.players[p].Id <= Committed.count
    <3>1. Fsm'.players = PlayersAfter(Fsm, c)
      BY <2>3 DEF ApplyCommand
    <3>2. Fsm.players \in [PlayerId -> Player]
      BY <1>b DEF StoreState
    <3> HIDE DEF c
    <3> QED BY <1>c, <2>5, <3>1, <3>2 DEF PlayersAfter, IdsCounted
  <2>7. ASSUME NEW p \in Op, NEW kind, Working(p, kind)'
        PROVE  Working(p, kind) /\ ops[p].pc = ops'[p].pc /\ ops'[p].cmd = ops[p].cmd
    BY <1>9, <1>e, <2>7 DEF Applies, Working, Running
  <2> QED BY <1>d, <2>3, <2>4, <2>6, <2>7
<1>10. ASSUME Commits PROVE CounterInv'
  <2> DEFINE c == log[commitIndex + 1]
  <2>1. /\ UNCHANGED <<log, ops>> /\ commitIndex' = commitIndex + 1 /\ Fsm' = Fsm
        /\ commitIndex + 1 \in 1 .. Len(log)
    BY <1>10, <1>a, <1>b DEF Commits, Fsm
  <2>2. /\ c \in Command /\ Committed' \in StoreState
        /\ Committed' = ApplyCommand(Committed, c)
    BY <1>10, <1>a, CommitsFacts
  <2>3. Committed'.count \in Nat /\ c.PlayerID \in Nat
    BY <2>2 DEF StoreState, Command, PlayerId
  <2>4. c.Op = "create_player" =>
          /\ Committed'.count = c.PlayerID /\ c.PlayerID <= Fsm.count
          /\ Committed.count < c.PlayerID
    <3>1. Creates(log, commitIndex + 1) <=> c.Op = "create_player"
      BY DEF Creates
    <3>2. c.Op = "create_player" => Committed'.count = c.Count
      BY <2>2 DEF ApplyCommand
    <3>3. Creates(log, commitIndex + 1) => c.Count = c.PlayerID /\ c.PlayerID <= Fsm.count
      BY <1>c, <2>1 DEF IdsIncrease
    <3>4. Creates(log, commitIndex + 1) => ~(c.PlayerID <= Committed.count)
      BY <1>b, <1>c, <2>1 DEF CountCommitted
    <3> QED BY <1>b, <2>3, <3>1, <3>2, <3>3, <3>4
  <2>5. c.Op # "create_player" => Committed'.count = Committed.count
    BY <2>2 DEF ApplyCommand
  <2> HIDE DEF c
  <2>6. Committed.count <= Committed'.count /\ Committed'.count <= Fsm.count
    BY <1>b, <1>c, <2>3, <2>4, <2>5 DEF CountCommitted
  <2>7. IdsIncrease'
    BY <1>c, <2>1 DEF IdsIncrease, Creates
  <2>8. CountCommitted'
    <3>1. ASSUME NEW j \in 1 .. Len(log), Creates(log, j)
          PROVE  j <= commitIndex + 1 <=> log[j].PlayerID <= Committed'.count
      <4>1. CASE c.Op = "create_player"
        <5>1. Creates(log, commitIndex + 1) /\ c = log[commitIndex + 1]
          BY <4>1 DEF c, Creates
        <5>2. j < commitIndex + 1 => log[j].PlayerID < c.PlayerID
          BY <1>c, <2>1, <3>1, <5>1 DEF IdsIncrease
        <5>3. commitIndex + 1 < j => c.PlayerID < log[j].PlayerID
          BY <1>c, <2>1, <3>1, <5>1 DEF IdsIncrease
        <5>4. j = commitIndex + 1 => log[j].PlayerID = c.PlayerID
          BY <5>1
        <5> QED BY <1>b, <2>3, <2>4, <4>1, <5>2, <5>3, <5>4
      <4>2. CASE c.Op # "create_player"
        <5>1. j # commitIndex + 1
          BY <3>1, <4>2 DEF c, Creates
        <5> QED BY <1>b, <1>c, <2>5, <3>1, <4>2, <5>1 DEF CountCommitted
      <4> QED BY <4>1, <4>2
    <3> QED BY <2>1, <2>6, <3>1 DEF CountCommitted, Creates
  <2>9. IdChosen'
    <3>1. ASSUME NEW p \in Op, Working(p, "create_player"), ops[p].pc \in {"mutated", "built"}
          PROVE  Committed'.count < ops[p].cmd.PlayerID
      <4>1. /\ Committed.count < ops[p].cmd.PlayerID
            /\ Creates(log, commitIndex + 1) => log[commitIndex + 1].PlayerID < ops[p].cmd.PlayerID
        BY <1>c, <2>1, <3>1 DEF IdChosen
      <4> QED BY <2>4, <2>5, <4>1 DEF Creates, c
    <3>2. \A p \in Op : \A kind : Working(p, kind)' <=> Working(p, kind)
      BY <2>1 DEF Working
    <3> QED BY <1>c, <2>1, <3>1, <3>2 DEF IdChosen, Creates, Working, Running
  <2>10. IdsCounted'
    <3>1. \A p \in Op : Working(p, "open_pack") => ops[p].cmd.PlayerID \in Nat
      <4>1. \A p \in Op : Working(p, "open_pack") => ops[p] \in OpRecord
        BY <1>b DEF Working, Running, IdleOp
      <4> QED BY <4>1 DEF OpRecord, Command, PlayerId
    <3>2. \A p \in PlayerId : Fsm.players[p].Id \in Nat
      <4>1. \A p \in PlayerId : Fsm.players[p] \in Player
        BY <1>b DEF StoreState
      <4>2. \A p \in PlayerId : Fsm.players[p].Id \in PlayerId
        BY <4>1 DEF Player
      <4> QED BY <4>2 DEF PlayerId
    <3>3. \A p \in PlayerId : Fsm'.players[p].Id <= Committed'.count
      BY <1>b, <1>c, <2>1, <2>3, <2>6, <3>2 DEF IdsCounted
    <3>4. \A p \in Op : Working(p, "open_pack") /\ ops[p].pc # "called" =>
            ops[p].cmd.PlayerID <= Committed'.count
      BY <1>b, <1>c, <2>3, <2>6, <3>1 DEF IdsCounted
    <3>5. \A j \in 1 .. Len(log) : log[j].Op = "open_pack" =>
            log[j].PlayerID <= Committed'.count
      BY <1>b, <1>c, <2>3, <2>6 DEF IdsCounted
    <3> QED BY <2>1, <3>3, <3>4, <3>5 DEF IdsCounted, Working
  <2>11. CounterCoversPlayers'
    <3>1. Committed'.players = PlayersAfter(Committed, c)
      BY <2>2 DEF ApplyCommand
    <3>2. Committed.players \in [PlayerId -> Player]
      BY <1>b DEF StoreState
    <3>3. c.Op = "open_pack" => c.PlayerID <= Committed'.count
      BY <1>b, <1>c, <2>1, <2>3, <2>6 DEF IdsCounted, c
    <3>4. c.Op = "create_player" => c.PlayerID <= Committed'.count
      BY <2>3, <2>4
    <3>5. ASSUME NEW p \in PlayerId, Committed'.players[p].Id # 0
          PROVE  p <= Committed'.count
      <4>1. CASE c.Op \in {"create_player", "open_pack"} /\ c.PlayerID = p
        BY <3>3, <3>4, <4>1
      <4>2. CASE ~(c.Op \in {"create_player", "open_pack"} /\ c.PlayerID = p)
        <5>1. Committed.players[p].Id # 0
          BY <3>1, <3>2, <3>5, <4>2 DEF PlayersAfter
        <5>2. p <= Committed.count /\ p \in Nat
          BY <1>c, <5>1 DEF CounterCoversPlayers, PlayerId
        <5> QED BY <1>b, <2>3, <2>6, <5>2
      <4> QED BY <4>1, <4>2
    <3> QED BY <3>5 DEF CounterCoversPlayers
  <2> QED BY <1>a, <2>7, <2>8, <2>9, <2>10, <2>11 DEF CounterInv
<1> QED
  BY <1>a, <1>1, <1>2, <1>3, <1>4, <1>5, <1>6, <1>7, <1>8, <1>9, <1>10 DEF SoloStep

-----------------------------------------------------------------------------
(* The steps after which no server leads: what the log, the answers given    *)
(* and those still to come keep of the time before.                         *)

\* No election yet: whoever leads has led from the start.
LEMMA FirstTerm ==
  ASSUME TypeOK, [Next]_vars, elections' = 0
  PROVE  elections = 0 /\ (leader' # NoNode => leader # NoNode)
<1>1. CASE UNCHANGED <<leader, elections>>
  BY <1>1
<1>2. CASE \E n \in Node : BecomeLeader(n)
  BY <1>2 DEF BecomeLeader, RaftElect, TypeOK
<1>3. CASE LoseLeadership
  BY <1>3 DEF LoseLeadership, RaftStepDown
<1>4. CASE Commit
  BY <1>1, <1>4 DEF Commit, RaftCommit
<1>5. CASE \E o \in Op : Enqueue(o)
  BY <1>1, <1>5 DEF Enqueue, RaftPropose
<1>6. CASE \E n \in Node \cup {NoNode} : Crash(n)
  BY <1>6 DEF Crash, RaftCrash
<1>7. ASSUME NEW o \in Op, PanicInCallback(o) \/ MatchUnanswered(o)
      PROVE  \E n \in Node \cup {NoNode} : Crash(n)
  <2>1. CASE PanicInCallback(o)
    <3>1. ops[o].node \in Node
      BY <2>1, Begun DEF PanicInCallback, Panics, CanLock, OpRecord
    <3> QED BY <2>1, <3>1 DEF PanicInCallback
  <2>2. CASE MatchUnanswered(o)
    <3>1. ops[o].from \in Node
      BY <2>2, Begun DEF MatchUnanswered, QueueReady, OpRecord
    <3> QED BY <2>2, <3>1 DEF MatchUnanswered
  <2> QED BY <1>7, <2>1, <2>2
<1>8. ASSUME NEW o \in Op, Request(o)
      PROVE  UNCHANGED <<leader, elections>>
  BY <1>8 DEF Request, GameRequest, AdminRequest, raftVars
<1>9. ASSUME NEW o \in Op, CreatePlayer(o) \/ OpenPack(o) \/ JoinQueue(o)
                             \/ CreateMatch(o) \/ PlayCard(o)
      PROVE  UNCHANGED <<leader, elections>>
  BY <1>9 DEF CreatePlayer, OpenPack, JoinQueue, CreateMatch, PlayCard, raftVars
<1>10. ASSUME NEW o \in Op, BuildCommand(o) \/ Reject(o) \/ CheckQueue(o)
                              \/ StartMatch(o) \/ PanicInREST(o)
       PROVE  UNCHANGED <<leader, elections>>
  BY <1>10 DEF BuildCommand, Reject, CheckQueue, StartMatch, PanicInREST, raftVars
<1>11. ASSUME NEW n \in Node, ApplyNext(n) \/ TakeSnapshot(n) \/ InstallSnapshot(n)
       PROVE  UNCHANGED <<leader, elections>>
  BY <1>11 DEF ApplyNext, TakeSnapshot, InstallSnapshot, raftVars
<1>12. CASE UNCHANGED vars
  BY <1>1, <1>12 DEF vars, raftVars
<1> QED
  BY <1>1, <1>2, <1>3, <1>4, <1>5, <1>6, <1>7, <1>8, <1>9, <1>10, <1>11, <1>12
  DEF Next, HandlerStep, ServerStep, Restart

\* Nothing is proposed or committed without a leader.
LEMMA Leaderless ==
  ASSUME TypeOK, [Next]_vars, leader' = NoNode
  PROVE  UNCHANGED <<log, commitIndex, promised>>
<1>1. CASE \E n \in Node : BecomeLeader(n)
  BY <1>1, RaftAssumption DEF BecomeLeader, RaftElect
<1>2. CASE LoseLeadership
  BY <1>2 DEF LoseLeadership, RaftStepDown
<1>3. CASE Commit
  BY <1>3 DEF Commit, RaftCommit
<1>4. CASE \E o \in Op : Enqueue(o)
  BY <1>4 DEF Enqueue, RaftPropose
<1>5. CASE \E n : Crash(n)
  BY <1>5 DEF Crash, RaftCrash
<1>6. ASSUME NEW o \in Op, Request(o)
      PROVE  UNCHANGED <<log, commitIndex, promised>>
  BY <1>6 DEF Request, GameRequest, AdminRequest, raftVars
<1>7. ASSUME NEW o \in Op, CreatePlayer(o) \/ OpenPack(o) \/ JoinQueue(o)
                             \/ CreateMatch(o) \/ PlayCard(o)
      PROVE  UNCHANGED <<log, commitIndex, promised>>
  BY <1>7 DEF CreatePlayer, OpenPack, JoinQueue, CreateMatch, PlayCard, raftVars
<1>8. ASSUME NEW o \in Op, BuildCommand(o) \/ Reject(o) \/ CheckQueue(o)
                              \/ StartMatch(o) \/ PanicInREST(o)
      PROVE  UNCHANGED <<log, commitIndex, promised>>
  BY <1>8 DEF BuildCommand, Reject, CheckQueue, StartMatch, PanicInREST, raftVars
<1>9. ASSUME NEW n \in Node, ApplyNext(n) \/ TakeSnapshot(n) \/ InstallSnapshot(n)
       PROVE  UNCHANGED <<log, commitIndex, promised>>
  BY <1>9 DEF ApplyNext, TakeSnapshot, InstallSnapshot, raftVars
<1>10. CASE UNCHANGED vars
  BY <1>10 DEF vars, raftVars
<1>11. ASSUME NEW o \in Op, PanicInCallback(o) \/ MatchUnanswered(o) PROVE \E n : Crash(n)
  BY <1>11 DEF PanicInCallback, MatchUnanswered
<1> QED
  BY <1>1, <1>2, <1>3, <1>4, <1>5, <1>6, <1>7, <1>8, <1>9, <1>10, <1>11
  DEF Next, HandlerStep, ServerStep, Restart

\* Executions whose client has or may still get the answer of a committed command.
Answerable == {o \in Op : InLog(ops, acked, o) /\ ops[o].index <= commitIndex}

\* What of an execution its answer depends on.
SameRequest(new, old) ==
  /\ new.index = old.index /\ new.cmd = old.cmd
  /\ new.player = old.player /\ new.game = old.game /\ new.card = old.card

\* Execution o gets no place in the log by this step, and keeps one it has.
Remains(o) ==
  InLog(ops', acked', o) => InLog(ops, acked, o) /\ SameRequest(ops'[o], ops[o])

LEMMA RemainsOut ==
  ASSUME AckedInv, NEW o \in Op, UNCHANGED acked,
         ops[o].pc \notin {"joined", "ok"}, ops'[o].pc # "waiting"
  PROVE  Remains(o)
BY DEF AckedInv, AckedOver, Remains, InLog

LEMMA RemainsSame ==
  ASSUME NEW o \in Op, UNCHANGED acked, ops'[o] = ops[o]
  PROVE  Remains(o)
BY DEF Remains, InLog, SameRequest

LEMMA RemainsUnshared ==
  ASSUME TypeOK, NEW o \in Op, o \in acked' => o \in acked,
         ops'[o] \in {ops[o], [ops[o] EXCEPT !.live = FALSE]}
  PROVE  Remains(o)
<1>1. ops[o] \in OpRecord \cup {IdleOp}
  BY DEF TypeOK
<1>2. ops'[o].pc = ops[o].pc /\ SameRequest(ops'[o], ops[o])
  BY <1>1 DEF OpRecord, IdleOp, SameRequest
<1> QED BY <1>2 DEF Remains, InLog

LEMMA SettledRequest ==
  ASSUME NEW op \in OpRecord
  PROVE  SameRequest(Settled(op), op)
BY DEF Settled, OpRecord, SameRequest

LEMMA RemainsSettled ==
  ASSUME TypeOK, NEW o \in Op, UNCHANGED acked, ops[o].pc = "joined",
         ops'[o] = Settled(ops[o])
  PROVE  Remains(o)
<1>1. ops[o] \in OpRecord
  BY Begun
<1>2. ops'[o].pc # "waiting" /\ SameRequest(ops'[o], ops[o])
  BY <1>1, SettledFields, SettledRequest
<1> QED BY <1>2 DEF Remains, InLog

LEMMA CrashRequest ==
  ASSUME NEW op \in OpRecord \cup {IdleOp}, NEW n \in Node
  PROVE  LET new == AfterCrash(op, n)
         IN /\ new.pc = "waiting" => op.pc = "waiting" /\ SameRequest(new, op)
            /\ op.pc \in {"joined", "ok"} => SameRequest(new, op)
<1> DEFINE orphan == IF op.from = n THEN [op EXCEPT !.from = NoNode] ELSE op
<1>1. CASE op = IdleOp
  BY <1>1, RaftAssumption DEF AfterCrash, IdleOp, Running
<1>2. CASE op \in OpRecord
  <2>1. orphan \in OpRecord /\ orphan.pc = op.pc /\ SameRequest(orphan, op)
    BY <1>2 DEF OpRecord, SameRequest
  <2>2. CASE op.pc = "joined" /\ op.from = n
    <3>1. AfterCrash(op, n) = Settled(orphan)
      BY <2>2 DEF AfterCrash, Running
    <3> HIDE DEF orphan
    <3>2. SameRequest(Settled(orphan), op) /\ Settled(orphan).pc # "waiting"
      BY <2>1, SettledFields, SettledRequest DEF SameRequest
    <3> QED BY <2>2, <3>1, <3>2
  <2>3. CASE op.pc \in Running /\ op.node = n
    <3>1. /\ Failed(orphan) \in OpRecord
          /\ Failed(orphan).pc \in {"joined", "failed"}
      BY <2>1, OpTypes, FailedFields
    <3>2. [Failed(orphan) EXCEPT !.pc = "lost"].pc = "lost"
      BY <3>1 DEF OpRecord
    <3>3. AfterCrash(op, n).pc # "waiting"
      BY <2>3, <3>1, <3>2 DEF AfterCrash, Running
    <3> QED BY <2>3, <3>3 DEF Running
  <2>4. CASE /\ ~(op.pc = "joined" /\ op.from = n)
             /\ ~(op.pc \in Running /\ op.node = n)
    <3>1. AfterCrash(op, n) = orphan
      BY <2>4 DEF AfterCrash
    <3> QED BY <2>1, <3>1
  <2> QED BY <2>2, <2>3, <2>4
<1> QED BY <1>1, <1>2

LEMMA CrashRemains ==
  ASSUME AckedInv, NEW n \in Node, Crash(n)
  PROVE  \A o \in Op : Remains(o)
<1> SUFFICES ASSUME NEW o \in Op PROVE Remains(o)
  OBVIOUS
<1>1. /\ UNCHANGED acked /\ ops'[o] = AfterCrash(ops[o], n)
      /\ ops[o] \in OpRecord \cup {IdleOp}
  BY DEF Crash, AckedInv, TypeOK
<1>2. o \in acked => ops[o].pc \in {"joined", "ok"}
  BY DEF AckedInv, AckedOver
<1> QED BY <1>1, <1>2, CrashRequest DEF Remains, InLog

\* Only Enqueue, a step of a leader, gives an execution a place in the log.
LEMMA PlacesRemain ==
  ASSUME AckedInv, [Next]_vars, leader' = NoNode
  PROVE  \A o \in Op : Remains(o)
<1>a. TypeOK /\ ops \in [Op -> OpRecord \cup {IdleOp}]
  BY DEF AckedInv, TypeOK
<1>1. CASE UNCHANGED vars
  BY <1>1, RemainsSame DEF vars, clientVars
<1>2. ASSUME NEW o \in Op, Request(o) PROVE \A p \in Op : Remains(p)
  <2>1. /\ UNCHANGED acked /\ ops[o].pc = "idle"
        /\ \A p \in Op \ {o} : ops'[p] = ops[p]
        /\ ops'[o].pc \in {"called", "built"}
    BY <1>2, <1>a DEF Request, AdminRequest, GameRequest, Called, Begin
  <2> QED BY <2>1, RemainsSame, RemainsOut
<1>3. ASSUME NEW o \in Op, CreatePlayer(o) \/ JoinQueue(o) \/ CreateMatch(o) \/ PlayCard(o)
      PROVE  \A p \in Op : Remains(p)
  <2>1. ops[o] \in OpRecord /\ ops[o].pc = "called"
    BY <1>3, <1>a, Begun DEF CreatePlayer, JoinQueue, CreateMatch, PlayCard, CanLock
  <2>2. PICK pc \in {"mutated", "built"} :
          UNCHANGED acked /\ \E cmd : ops' = [ops EXCEPT ![o] = At(ops[o], pc, cmd)]
    BY <1>3 DEF CreatePlayer, JoinQueue, CreateMatch, PlayCard
  <2>3. ops'[o].pc = pc /\ \A p \in Op \ {o} : ops'[p] = ops[p]
    BY <1>a, <2>1, <2>2 DEF At, OpRecord
  <2> QED BY <2>1, <2>2, <2>3, RemainsSame, RemainsOut
<1>4. ASSUME NEW o \in Op, OpenPack(o) PROVE \A p \in Op : Remains(p)
  <2> DEFINE n == ops[o].node
             player == fsm[n].players[ops[o].player]
             cmd(i) == [ops[o].cmd EXCEPT !.PlayerID = player.Id,
                          !.PlayerCards = Append(player.Cards, fsm[n].Cards[i])]
  <2>1. PICK i \in 1 .. Len(fsm[n].Cards) :
          ops' = [p \in Op |-> IF p = o THEN At(ops[o], "mutated", cmd(i))
                                        ELSE SwapSeen(ops[p], n, i)]
    BY <1>4 DEF OpenPack
  <2>2. UNCHANGED acked /\ ops[o] \in OpRecord /\ ops[o].pc = "called"
    BY <1>4, <1>a, Begun DEF OpenPack, CanLock
  <2>3. ops'[o].pc = "mutated"
    BY <2>1, <2>2 DEF At, OpRecord
  <2>4. ASSUME NEW p \in Op \ {o} PROVE Remains(p)
    <3>1. CASE ~ops[p].live
      BY <2>1, <2>2, <3>1, RemainsSame DEF SwapSeen
    <3>2. CASE ops[p].live
      <4>1. ops[p].pc = "built" /\ ops[p] \in OpRecord
        BY <1>a, <3>2, Begun DEF AckedInv, LiveBuilt
      <4>2. ops'[p].pc = "built"
        BY <2>1, <4>1 DEF SwapSeen, At, OpRecord
      <4> QED BY <2>2, <4>1, <4>2, RemainsOut
    <3> QED BY <3>1, <3>2
  <2> QED BY <2>2, <2>3, <2>4, RemainsOut
<1>5. ASSUME NEW o \in Op, Reject(o) PROVE \A p \in Op : Remains(p)
  <2>1. ops[o] \in OpRecord /\ ops[o].pc \in {"mutated", "built"} /\ UNCHANGED acked
    BY <1>5, <1>a, Begun DEF Reject
  <2>2. ops'[o].pc \in {"joined", "failed"} /\ \A p \in Op \ {o} : ops'[p] = ops[p]
    BY <1>5, <1>a, <2>1, FailedFields DEF Reject
  <2> QED BY <2>1, <2>2, RemainsSame, RemainsOut
<1>6. ASSUME NEW o \in Op, CheckQueue(o) PROVE \A p \in Op : Remains(p)
  <2>1. /\ ops[o].pc = "joined" /\ ops'[o] = Settled(ops[o]) /\ UNCHANGED acked
        /\ \A p \in Op \ {o} : ops'[p] = ops[p]
    BY <1>6, <1>a DEF CheckQueue
  <2> QED BY <1>a, <2>1, RemainsSame, RemainsSettled
<1>7. ASSUME NEW o \in Op, StartMatch(o) PROVE \A p \in Op : Remains(p)
  <2>1. PICK p \in Op, m \in Node :
          /\ ops[p].pc = "idle" /\ UNCHANGED acked
          /\ ops' = [ops EXCEPT
               ![o] = Settled(@),
               ![p] = Called("create_game", ops[o].from, m, NoArgument)]
    BY <1>7 DEF StartMatch
  <2>2. ops[o].pc = "joined"
    BY <1>7 DEF StartMatch, QueueReady
  <2>3. p # o /\ ops'[o] = Settled(ops[o])
    BY <1>a, <2>1, <2>2
  <2>4. ops'[p].pc = "called" /\ \A q \in Op \ {o, p} : ops'[q] = ops[q]
    BY <1>a, <2>1, <2>3 DEF Called, Begin
  <2> QED BY <1>a, <2>1, <2>2, <2>3, <2>4, RemainsSame, RemainsOut, RemainsSettled
<1>8. ASSUME NEW o \in Op, PanicInREST(o) PROVE \A p \in Op : Remains(p)
  <2>1. ops[o] \in OpRecord /\ ops[o].pc = "called" /\ UNCHANGED acked
    BY <1>8, <1>a, Begun DEF PanicInREST, Panics, CanLock
  <2>2. ops'[o].pc = "panicked" /\ \A p \in Op \ {o} : ops'[p] = ops[p]
    BY <1>8, <1>a, <2>1 DEF PanicInREST, OpRecord
  <2> QED BY <2>1, <2>2, RemainsSame, RemainsOut
<1>9. ASSUME NEW o \in Op, BuildCommand(o) \/ Enqueue(o) PROVE FALSE
  <2>1. leader = ops[o].node /\ leader' = leader /\ ops[o].pc # "idle"
    BY <1>9 DEF BuildCommand, Enqueue, RaftPropose, raftVars
  <2>2. ops[o].node \in Node
    BY <1>a, <2>1, Begun DEF OpRecord
  <2> QED BY <2>1, <2>2, RaftAssumption
<1>10. ASSUME NEW n \in Node, TakeSnapshot(n) PROVE \A p \in Op : Remains(p)
  BY <1>10, RemainsSame DEF TakeSnapshot, clientVars
<1>11. ASSUME NEW n \in Node, InstallSnapshot(n) PROVE \A p \in Op : Remains(p)
  BY <1>11, <1>a, RemainsUnshared DEF InstallSnapshot
<1>12. ASSUME NEW n \in Node, ApplyNext(n) PROVE \A p \in Op : Remains(p)
  <2> DEFINE answered == {o \in Op : /\ ops[o].pc = "waiting" /\ ops[o].node = n
                                     /\ ops[o].index = applied[n] + 1}
  <2>1. acked' = acked \cup answered
    BY <1>12 DEF ApplyNext
  <2>2. ASSUME NEW o \in answered PROVE Remains(o)
    <3>1. \E pc \in {"joined", "ok"} : ops'[o] = [ops[o] EXCEPT !.pc = pc]
      BY <1>12 DEF ApplyNext
    <3>2. ops[o] \in OpRecord
      BY <1>a, Begun
    <3>3. SameRequest(ops'[o], ops[o])
      BY <3>1, <3>2 DEF OpRecord, SameRequest
    <3> QED BY <3>3 DEF Remains, InLog
  <2>3. ASSUME NEW o \in Op \ answered PROVE Remains(o)
    <3>1. ops'[o] \in {ops[o], [ops[o] EXCEPT !.live = FALSE]}
      BY <1>12 DEF ApplyNext
    <3> QED BY <1>a, <2>1, <3>1, RemainsUnshared
  <2> QED BY <2>2, <2>3
<1>13. CASE LoseLeadership
  <2>1. ASSUME NEW o \in Op
        PROVE  \/ ops'[o] = ops[o]
               \/ ops[o].pc = "waiting" /\ ops'[o] = Failed(ops[o])
    BY <1>13 DEF LoseLeadership
  <2>2. ASSUME NEW o \in Op, ops[o].pc = "waiting", ops'[o] = Failed(ops[o])
        PROVE  ops'[o].pc # "waiting"
    BY <1>a, <2>2, Begun, FailedFields
  <2>3. UNCHANGED acked
    BY <1>13 DEF LoseLeadership
  <2> QED BY <2>1, <2>2, <2>3, RemainsSame, RemainsOut
<1>14. CASE Commit
  BY <1>14, RemainsSame DEF Commit, clientVars
<1>15. ASSUME NEW n \in Node, BecomeLeader(n) PROVE \A p \in Op : Remains(p)
  BY <1>15, RemainsSame DEF BecomeLeader, clientVars
<1>16. ASSUME NEW o \in Op, PanicInCallback(o) \/ MatchUnanswered(o)
       PROVE  \A p \in Op : Remains(p)
  <2>1. CASE PanicInCallback(o)
    <3>1. ops[o].node \in Node
      BY <2>1, <1>a, Begun DEF PanicInCallback, Panics, CanLock, OpRecord
    <3> QED BY <2>1, <3>1, CrashRemains DEF PanicInCallback
  <2>2. CASE MatchUnanswered(o)
    <3>1. ops[o].from \in Node
      BY <2>2, <1>a, Begun DEF MatchUnanswered, QueueReady, OpRecord
    <3> QED BY <2>2, <3>1, CrashRemains DEF MatchUnanswered
  <2> QED BY <1>16, <2>1, <2>2
<1>17. ASSUME NEW n \in Node, Restart(n) PROVE \A p \in Op : Remains(p)
  BY <1>17, CrashRemains DEF Restart
<1> QED
  BY <1>1, <1>2, <1>3, <1>4, <1>5, <1>6, <1>7, <1>8, <1>9, <1>10, <1>11, <1>12, <1>13,
     <1>14, <1>15, <1>16, <1>17
  DEF Next, HandlerStep, ServerStep

LEMMA AnswerableRemain ==
  ASSUME AckedInv, [Next]_vars, leader' = NoNode
  PROVE  \A o \in Answerable' : o \in Answerable /\ SameRequest(ops'[o], ops[o])
BY PlacesRemain, Leaderless DEF AckedInv, Answerable, Remains, SameRequest

LEMMA AckedAnswerable == AckedInv => acked \subseteq Answerable
<1> SUFFICES ASSUME AckedInv, NEW o \in acked PROVE o \in Answerable
  OBVIOUS
<1>1. o \in Op /\ commitIndex \in Nat
  BY DEF AckedInv, TypeOK
<1> QED BY <1>1 DEF AckedInv, AckedCommitted, Answerable, InLog

-----------------------------------------------------------------------------
(* The accounts: the proofs of UniqueIds and CounterCoversPlayers.         *)

\* The accounts the log answered or can still answer have ids of their own.
IdsApart ==
  \A o, p \in Answerable :
    /\ ops[o].cmd.Op = "create_player" /\ ops[p].cmd.Op = "create_player"
    /\ o # p
    => ops[o].cmd.PlayerID # ops[p].cmd.PlayerID

LEMMA ApartUnique == AckedInv /\ IdsApart => UniqueIds
BY AckedAnswerable DEF IdsApart, UniqueIds

LEMMA CounterApart == CounterInv => IdsApart
<1> SUFFICES ASSUME CounterInv, NEW o \in Answerable, NEW p \in Answerable,
                    ops[o].cmd.Op = "create_player", ops[p].cmd.Op = "create_player", o # p
             PROVE  ops[o].cmd.PlayerID # ops[p].cmd.PlayerID
  BY DEF IdsApart
<1> DEFINE i == ops[o].index
           j == ops[p].index
<1>1. SoloInv /\ IdsIncrease /\ AckedInv
  BY DEF CounterInv, SoloInv
<1>2. o \in Op /\ p \in Op /\ commitIndex \in Nat /\ commitIndex <= Len(log)
      /\ \A k \in 1 .. Len(log) : log[k].PlayerID \in Nat
  <2>1. /\ commitIndex \in Nat /\ commitIndex <= Len(log)
        /\ \A k \in 1 .. Len(log) : log[k] \in Command
    BY <1>1, SoloTypes
  <2>2. o \in Op /\ p \in Op
    BY DEF Answerable
  <2>3. \A k \in 1 .. Len(log) : log[k].PlayerID \in Nat
    BY <2>1 DEF Command, PlayerId
  <2> QED BY <2>1, <2>2, <2>3
<1>3. ASSUME NEW q \in Answerable
      PROVE  ops[q].index \in 1 .. commitIndex /\ log[ops[q].index] = ops[q].cmd
  BY <1>1, <1>2 DEF AckedInv, AckedCommitted, WaitingPlaced, Placed, Answerable, InLog
<1>4. i # j
  BY <1>1, <1>2 DEF SoloInv, OwnPlaces, Answerable
<1>5. i \in 1 .. Len(log) /\ j \in 1 .. Len(log) /\ (i < j \/ j < i)
      /\ log[i] = ops[o].cmd /\ log[j] = ops[p].cmd
  BY <1>2, <1>3, <1>4 DEF i, j
<1>6. log[i].PlayerID < log[j].PlayerID \/ log[j].PlayerID < log[i].PlayerID
  BY <1>1, <1>5 DEF IdsIncrease, Creates
<1>7. log[i].PlayerID # log[j].PlayerID
  BY <1>2, <1>5, <1>6
<1> QED BY <1>5, <1>7

\* What holds of the accounts until a server is elected again.
CounterFirst ==
  /\ AckedInv
  /\ elections = 0 => IF leader = NoNode THEN IdsApart /\ CounterCoversPlayers
                                         ELSE CounterInv

LEMMA CounterFirstStep == Single /\ CounterFirst /\ [Next]_vars => CounterFirst'
<1> SUFFICES ASSUME Single, CounterFirst, [Next]_vars PROVE CounterFirst'
  OBVIOUS
<1>1. AckedInv /\ AckedInv' /\ TypeOK
  BY AckedStep DEF CounterFirst, AckedInv
<1>2. ASSUME elections' = 0, leader' # NoNode PROVE CounterInv'
  <2>1. CounterInv
    BY <1>1, <1>2, FirstTerm DEF CounterFirst
  <2> QED BY <1>2, <2>1, CounterStep
<1>3. ASSUME elections' = 0, leader' = NoNode PROVE (IdsApart /\ CounterCoversPlayers)'
  <2>1. IdsApart /\ CounterCoversPlayers
    BY <1>1, <1>3, FirstTerm, CounterApart DEF CounterFirst, CounterInv
  <2>2. IdsApart'
    BY <1>1, <1>3, <2>1, AnswerableRemain DEF IdsApart, SameRequest
  <2>3. CounterCoversPlayers'
    BY <1>1, <1>3, <2>1, Leaderless DEF CounterCoversPlayers, Committed
  <2> QED BY <2>2, <2>3
<1> QED BY <1>1, <1>2, <1>3 DEF CounterFirst

LEMMA FirstLeads == Init => leader # NoNode
BY RaftAssumption DEF Init, RaftInit

\* Until it is elected again, a server alone gives every account an id of its own
\* (NextId under s.mu, one callback of topic.createAccount at a time).
THEOREM UniqueIdsCorrect == Single => (Spec => [](elections = 0 => UniqueIds))
<1> SUFFICES ASSUME Single PROVE Spec => [](elections = 0 => UniqueIds)
  OBVIOUS
<1>1. Init => CounterFirst
  BY CounterInit, AckedInit, FirstLeads DEF CounterFirst
<1>2. CounterFirst /\ [Next]_vars => CounterFirst'
  BY CounterFirstStep
<1>3. CounterFirst => (elections = 0 => UniqueIds)
  BY CounterApart, ApartUnique DEF CounterFirst
<1> QED
  BY <1>1, <1>2, <1>3, PTL DEF Spec

\* Until then its counter covers every account of the log (store.go:92), whatever
\* packs are opened and whatever requests fail meanwhile.
THEOREM CounterCoversPlayersCorrect ==
  Single => (Spec => [](elections = 0 => CounterCoversPlayers))
<1> SUFFICES ASSUME Single PROVE Spec => [](elections = 0 => CounterCoversPlayers)
  OBVIOUS
<1>1. Init => CounterFirst
  BY CounterInit, AckedInit, FirstLeads DEF CounterFirst
<1>2. CounterFirst /\ [Next]_vars => CounterFirst'
  BY CounterFirstStep
<1>3. CounterFirst => (elections = 0 => CounterCoversPlayers)
  BY DEF CounterFirst, CounterInv
<1> QED
  BY <1>1, <1>2, <1>3, PTL DEF Spec

-----------------------------------------------------------------------------
(* The cards of a match: the proof of PlayedCardsKept.                     *)

Plays(o) == ops[o].cmd.Op = "play_cards"

\* Executions whose card their server's record of the match shows.
Put(o) == Plays(o) /\ (o \in acked \/ ops[o].pc \in Running \ {"called"})

Shows(match, player, card) ==
  card = IF match.P1 = player THEN match.Card1 ELSE match.Card2

\* A player sends one card per match, so a repeated message changes nothing.
OneCard ==
  \A o, p \in Op :
    /\ Plays(o) /\ ops[o].pc # "idle"
    /\ Plays(p) /\ ops[p].pc # "idle"
    /\ ops[o].game = ops[p].game /\ ops[o].player = ops[p].player
    => ops[o].card = ops[p].card

PlayersTold ==
  \A o \in Op : Plays(o) /\ (o \in acked \/ ops[o].pc \in Running) =>
                  <<ops[o].game, ops[o].player>> \in Playing

\* Whoever was told of a match is one of its two players on the server.
MatchesHeld ==
  \A g \in MatchId, p \in PlayerId :
    <<g, p>> \in Playing =>
      /\ Fsm.matchHistory[g].SelfId = g
      /\ p \in {Fsm.matchHistory[g].P1, Fsm.matchHistory[g].P2}

MatchNamed ==
  \A o \in Op : Working(o, "create_game") /\ ops[o].pc # "called" =>
                  ops[o].cmd.GameId.SelfId = o

\* Nothing writes the record between a play's write and its place in the log.
RecordsRead ==
  \A o \in Op : Working(o, "play_cards") /\ ops[o].pc # "called" =>
                  ops[o].cmd.GameId = Fsm.matchHistory[ops[o].game]

CardsShown ==
  \A o \in Op :
    Put(o) =>
      /\ Shows(Fsm.matchHistory[ops[o].game], ops[o].player, ops[o].card)
      /\ InLog(ops, acked, o) /\ ops[o].index <= commitIndex =>
           Shows(Committed.matchHistory[ops[o].game], ops[o].player, ops[o].card)

PlayInv ==
  /\ SoloInv
  /\ OneCard /\ PlayersTold /\ MatchesHeld /\ MatchNamed /\ RecordsRead /\ CardsShown

\* Who was told of match g, by the executions x and the acknowledged ones a.
Told(x, a, g, p) ==
  \/ FirstMatch # NoMatch /\ g = FirstMatch /\ p \in {1, 2}
  \/ /\ g \in a /\ x[g].cmd.Op = "create_game"
     /\ p \in {x[g].cmd.GameId.P1, x[g].cmd.GameId.P2}

LEMMA PlayingTold == \A g, p : <<g, p>> \in Playing <=> Told(ops, acked, g, p)
<1> SUFFICES ASSUME NEW g, NEW p PROVE <<g, p>> \in Playing <=> Told(ops, acked, g, p)
  OBVIOUS
<1> DEFINE made == {a \in acked : ops[a].cmd.Op = "create_game"}
           pair(o) == {<<o, ops[o].cmd.GameId.P1>>, <<o, ops[o].cmd.GameId.P2>>}
<1>1. <<g, p>> \in Playing <=>
        \/ FirstMatch # NoMatch /\ <<g, p>> \in {<<FirstMatch, 1>>, <<FirstMatch, 2>>}
        \/ \E o \in made : <<g, p>> \in pair(o)
  BY DEF Playing
<1>2. (\E o \in made : <<g, p>> \in pair(o))
        <=> g \in made /\ p \in {ops[g].cmd.GameId.P1, ops[g].cmd.GameId.P2}
  OBVIOUS
<1> QED BY <1>1, <1>2 DEF Told

\* A match one is told of is not one that a handler still waits for.
LEMMA ToldOver ==
  ASSUME SoloInv, NEW g, NEW p, Told(ops, acked, g, p)
  PROVE  g \in MatchId /\ (g \in Op => ops[g].pc \notin Running)
<1>1. acked \subseteq Op /\ AckedOver
  BY SoloTypes DEF SoloInv, AckedInv
<1> QED BY <1>1, ClusterAssumption DEF Told, AckedOver, Running

LEMMA PlayingGrows ==
  ASSUME acked \subseteq acked', \A o \in acked : ops'[o].cmd = ops[o].cmd
  PROVE  /\ Playing \subseteq Playing'
         /\ acked' = acked => Playing' = Playing
<1>1. /\ \A g, p : Told(ops, acked, g, p) => Told(ops', acked', g, p)
      /\ acked' = acked => \A g, p : Told(ops, acked, g, p) <=> Told(ops', acked', g, p)
  BY DEF Told
<1>2. UNION {{<<o, ops[o].cmd.GameId.P1>>, <<o, ops[o].cmd.GameId.P2>>} :
               o \in {a \in acked : ops[a].cmd.Op = "create_game"}}
        \subseteq
      UNION {{<<o, ops'[o].cmd.GameId.P1>>, <<o, ops'[o].cmd.GameId.P2>>} :
               o \in {a \in acked' : ops'[a].cmd.Op = "create_game"}}
  OBVIOUS
<1>3. acked' = acked =>
      UNION {{<<o, ops[o].cmd.GameId.P1>>, <<o, ops[o].cmd.GameId.P2>>} :
               o \in {a \in acked : ops[a].cmd.Op = "create_game"}}
        =
      UNION {{<<o, ops'[o].cmd.GameId.P1>>, <<o, ops'[o].cmd.GameId.P2>>} :
               o \in {a \in acked' : ops'[a].cmd.Op = "create_game"}}
  OBVIOUS
<1> QED BY <1>2, <1>3 DEF Playing

\* Every step but a request leaves what was asked for alone.
LEMMA SameRequests ==
  ASSUME SoloInv, SoloStep, \A o \in Op : ~Starts(o)
  PROVE  \A o \in Op :
           /\ ops'[o].player = ops[o].player /\ ops'[o].game = ops[o].game
           /\ ops'[o].card = ops[o].card /\ ops'[o].cmd.Op = ops[o].cmd.Op
           /\ ops'[o].pc = "idle" <=> ops[o].pc = "idle"
           /\ ops'[o].pc \in Running => ops[o].pc \in Running
           /\ o \in acked' => o \in acked \/ ops[o].pc \in Running
<1> USE DEF Running
<1>1. ASSUME NEW o \in Op, Kept(o)
      PROVE  /\ ops'[o].player = ops[o].player /\ ops'[o].game = ops[o].game
             /\ ops'[o].card = ops[o].card /\ ops'[o].cmd.Op = ops[o].cmd.Op
             /\ ops'[o].pc = "idle" <=> ops[o].pc = "idle"
             /\ ops'[o].pc \in Running => ops[o].pc \in Running
  BY <1>1 DEF Kept, OpState
<1>2. CASE Ends
  BY <1>1, <1>2 DEF Ends
<1>3. CASE Commits
  BY <1>3 DEF Commits
<1>4. CASE Applies
  BY <1>1, <1>4 DEF Applies, Answered, IdleOp
<1>5. ASSUME NEW o \in Op, NEW from \in Running, NEW to \in Running, Moves(o, from, to)
      PROVE  \A p \in Op :
               /\ ops'[p].player = ops[p].player /\ ops'[p].game = ops[p].game
               /\ ops'[p].card = ops[p].card /\ ops'[p].cmd.Op = ops[p].cmd.Op
               /\ ops'[p].pc = "idle" <=> ops[p].pc = "idle"
               /\ ops'[p].pc \in Running => ops[p].pc \in Running
               /\ p \in acked' => p \in acked
  BY <1>1, <1>5 DEF Moves
<1>6. ASSUME NEW o \in Op, CountsUp(o) \/ Opens(o) \/ Readies(o) \/ PutsCard(o)
                             \/ Builds(o) \/ Enqueues(o)
      PROVE  \E from, to \in Running : Moves(o, from, to)
  BY <1>6 DEF CountsUp, Opens, Readies, PutsCard, Builds, Enqueues
<1> QED BY <1>2, <1>3, <1>4, <1>5, <1>6 DEF SoloStep

LEMMA PlayInit == Init /\ Single => PlayInv
<1> SUFFICES ASSUME Init, Single PROVE PlayInv
  OBVIOUS
<1>1. SoloInv /\ acked = {} /\ Fsm = Base
  BY SoloInit DEF Init, Fsm, SoloInv
<1>2. \A o \in Op : ops[o] = IdleOp
  BY DEF Init
<1>3. OneCard /\ PlayersTold /\ MatchNamed /\ RecordsRead /\ CardsShown
  BY <1>1, <1>2
  DEF OneCard, PlayersTold, MatchNamed, RecordsRead, CardsShown, Plays, Put, Working,
      Running, IdleOp
<1>4. MatchesHeld
  <2> SUFFICES ASSUME NEW g \in MatchId, NEW p, <<g, p>> \in Playing
               PROVE  /\ Base.matchHistory[g].SelfId = g
                      /\ p \in {Base.matchHistory[g].P1, Base.matchHistory[g].P2}
    BY <1>1 DEF MatchesHeld
  <2>1. FirstMatch # NoMatch /\ g = FirstMatch /\ p \in {1, 2}
    BY <1>1, PlayingTold DEF Told
  <2>2. Base.matchHistory[g] = NewMatch(g, 1, 2)
    BY <2>1 DEF Base, NewStore
  <2> QED BY <2>1, <2>2 DEF NewMatch
<1> QED BY <1>1, <1>3, <1>4 DEF PlayInv

LEMMA PlayStep ==
  ASSUME PlayInv, Single, leader' # NoNode, [Next]_vars
  PROVE  PlayInv'
<1>a. leader' = leader /\ SoloStep /\ SoloInv /\ SoloInv'
  BY SoloSteps, SoloKept DEF PlayInv
<1>b. /\ commitIndex \in Nat /\ Len(log) \in Nat /\ acked \subseteq Op
      /\ applied[leader] <= commitIndex /\ AckedOver /\ WaitingPlaced /\ OneEach /\ Staged
      /\ ops \in [Op -> OpRecord \cup {IdleOp}] /\ \A o \in Op : ops[o].index \in Nat
      /\ Fsm \in StoreState /\ Fsm.matchHistory \in [MatchId \cup {NoMatch} -> Match]
      /\ Committed \in StoreState
      /\ Committed.matchHistory \in [MatchId \cup {NoMatch} -> Match]
  <2>1. \A o \in Op : ops[o].index \in Nat
    BY <1>a, SoloTypes DEF OpRecord, IdleOp
  <2> QED BY <1>a, <2>1, SoloTypes DEF SoloInv, AckedInv, StoreState
<1>c. OneCard /\ PlayersTold /\ MatchesHeld /\ MatchNamed /\ RecordsRead /\ CardsShown
  BY DEF PlayInv
\* Everybody who plays is one of the two players of a match the server has.
<1>d. ASSUME NEW o \in Op, Plays(o), o \in acked \/ ops[o].pc \in Running
      PROVE  /\ Told(ops, acked, ops[o].game, ops[o].player)
             /\ ops[o].game \in MatchId
             /\ Fsm.matchHistory[ops[o].game].SelfId = ops[o].game
             /\ ops[o].player \in {Fsm.matchHistory[ops[o].game].P1,
                                   Fsm.matchHistory[ops[o].game].P2}
  <2>1. <<ops[o].game, ops[o].player>> \in Playing
    BY <1>c, <1>d DEF PlayersTold
  <2>2. Told(ops, acked, ops[o].game, ops[o].player)
    BY <2>1, PlayingTold
  <2>3. ops[o].game \in MatchId
    BY <1>a, <2>2, ToldOver
  <2>4. ops[o] \in OpRecord
    BY <1>b, <1>d DEF Running, IdleOp, AckedOver
  <2> QED BY <1>c, <2>1, <2>2, <2>3, <2>4 DEF OpRecord, MatchesHeld
\* Every step but a request asks for nothing new.
<1>e. ASSUME \A o \in Op : ~Starts(o), Playing \subseteq Playing'
      PROVE  OneCard' /\ PlayersTold'
  <2>1. OneCard'
    BY <1>a, <1>c, <1>e, SameRequests DEF OneCard, Plays
  <2>2. PlayersTold'
    BY <1>a, <1>c, <1>e, SameRequests DEF PlayersTold, Plays
  <2> QED BY <2>1, <2>2
\* Most steps leave the matches and the cards played alone.
<1>f. ASSUME UNCHANGED <<commitIndex, promised>>, Fsm'.matchHistory = Fsm.matchHistory,
             Playing' = Playing, OneCard', PlayersTold', MatchNamed',
             \A o \in Op :
               ops'[o].pc \in Running \ {"called"} /\ ops'[o].cmd.Op = "play_cards" =>
                 /\ ops[o].pc \in Running \ {"called"} /\ ops[o].cmd.Op = "play_cards"
                 /\ ops'[o].cmd.GameId = ops[o].cmd.GameId /\ ops'[o].game = ops[o].game,
             \A o \in Op :
               /\ ops'[o].cmd.Op = "play_cards"
               /\ o \in acked' \/ ops'[o].pc \in Running \ {"called"}
               => /\ Put(o) /\ ops'[o].game = ops[o].game
                  /\ ops'[o].player = ops[o].player /\ ops'[o].card = ops[o].card
                  /\ InLog(ops', acked', o) /\ ops'[o].index <= commitIndex =>
                       InLog(ops, acked, o) /\ ops[o].index <= commitIndex
      PROVE  PlayInv'
  <2>1. Committed' = Committed
    BY <1>f DEF Committed
  <2>2. MatchesHeld'
    BY <1>c, <1>f DEF MatchesHeld
  <2>3. RecordsRead'
    BY <1>c, <1>f DEF RecordsRead, Working
  <2>4. CardsShown'
    BY <1>c, <1>f, <2>1 DEF CardsShown, Put, Plays
  <2> QED BY <1>a, <1>f, <2>2, <2>3, <2>4 DEF PlayInv
\* What an execution that stays as it is or ends keeps.
<1>g. ASSUME NEW o \in Op, Kept(o)
      PROVE  /\ ops'[o].pc \in Running \ {"called"} =>
                  ops[o].pc = ops'[o].pc /\ ops'[o].cmd = ops[o].cmd
             /\ ops'[o].cmd = ops[o].cmd /\ ops'[o].game = ops[o].game
             /\ ops'[o].player = ops[o].player /\ ops'[o].card = ops[o].card
             /\ InLog(ops, acked, o) => ops'[o].index = ops[o].index
             /\ ops'[o].pc = "waiting" <=> ops[o].pc = "waiting"
             /\ ops'[o].pc \in Running => ops'[o].pc = ops[o].pc
  BY <1>g DEF Kept, Running, OpState
<1>1. ASSUME Ends PROVE PlayInv'
  <2>1. /\ \A o \in Op : Kept(o)
        /\ UNCHANGED <<commitIndex, promised, acked, fsm>>
    BY <1>1 DEF Ends
  <2>2. Playing' = Playing
    BY <1>b, <1>g, <2>1, PlayingGrows
  <2>3. \A o \in Op : ~Starts(o)
    BY <2>1, <1>g DEF Starts, Running, Kept, OpState
  <2>4. OneCard' /\ PlayersTold'
    BY <1>e, <2>2, <2>3
  <2>5. MatchNamed'
    BY <1>c, <1>g, <2>1 DEF MatchNamed, Working
  <2>6. Fsm' = Fsm
    BY <1>a, <2>1 DEF Fsm
  <2> QED BY <1>f, <1>g, <2>1, <2>2, <2>4, <2>5, <2>6 DEF Put, Plays, InLog
<1>2. ASSUME NEW o \in Op, Starts(o) PROVE PlayInv'
  <2>1. /\ \A p \in Op \ {o} : Kept(p)
        /\ UNCHANGED <<commitIndex, promised, acked, fsm>>
        /\ ops[o].pc = "idle" /\ o \notin acked
        /\ ops'[o].pc \in Running \ {"called"} => ops'[o].cmd.Op \in AdminKind
        /\ ops'[o].cmd.Op = "play_cards" =>
             /\ <<ops'[o].game, ops'[o].player>> \in Playing
             /\ SameCard(ops'[o].game, ops'[o].player, ops'[o].card)
    BY <1>2, <1>b DEF Starts, AckedOver, AdminKind
  <2>2. Playing' = Playing
    BY <1>b, <1>g, <2>1, PlayingGrows
  <2>3. OneCard'
    <3>1. ASSUME NEW p \in Op, p # o, ops'[p].cmd.Op = "play_cards", ops'[p].pc # "idle",
                 ops'[o].cmd.Op = "play_cards", ops'[p].game = ops'[o].game,
                 ops'[p].player = ops'[o].player
          PROVE  ops'[p].card = ops'[o].card
      <4>1. /\ ops[p].cmd.Op = "play_cards" /\ ops[p].pc # "idle" /\ ops[p].card = ops'[p].card
            /\ ops[p].game = ops'[o].game /\ ops[p].player = ops'[o].player
        BY <1>g, <2>1, <3>1 DEF Kept
      <4> QED BY <2>1, <3>1, <4>1 DEF SameCard
    <3>2. ASSUME NEW p \in Op, NEW q \in Op, p # o, q # o, ops'[p].cmd.Op = "play_cards",
                 ops'[q].cmd.Op = "play_cards", ops'[p].pc # "idle", ops'[q].pc # "idle",
                 ops'[p].game = ops'[q].game, ops'[p].player = ops'[q].player
          PROVE  ops'[p].card = ops'[q].card
      BY <1>c, <1>g, <2>1, <3>2 DEF OneCard, Plays, Kept
    <3> QED BY <3>1, <3>2 DEF OneCard, Plays
  <2>4. PlayersTold'
    <3>1. \A p \in Op \ {o} :
            ops'[p].cmd.Op = "play_cards" /\ (p \in acked \/ ops'[p].pc \in Running) =>
              <<ops'[p].game, ops'[p].player>> \in Playing
      BY <1>c, <1>g, <2>1 DEF PlayersTold, Plays
    <3> QED BY <2>1, <2>2, <3>1 DEF PlayersTold, Plays
  <2>5. MatchNamed'
    BY <1>c, <1>g, <2>1 DEF MatchNamed, Working, Running, AdminKind
  <2>6. Fsm' = Fsm
    BY <1>a, <2>1 DEF Fsm
  <2> QED BY <1>f, <1>g, <2>1, <2>2, <2>3, <2>4, <2>5, <2>6 DEF Put, Plays, InLog, AdminKind
\* A step of one execution other than a play's own write.
<1>3. ASSUME NEW o \in Op, NEW from \in Running, NEW to \in Running, Moves(o, from, to),
             Fsm'.matchHistory = Fsm.matchHistory,
             ops[o].cmd.Op = "create_game" /\ to # "called" => ops'[o].cmd.GameId.SelfId = o,
             ops[o].cmd.Op = "play_cards" =>
               /\ from \in {"built", "waiting"} /\ ops'[o].cmd = ops[o].cmd
               /\ to = "waiting" => from = "built" /\ ops'[o].index = Len(log) + 1
      PROVE  PlayInv'
  <2>1. /\ \A p \in Op \ {o} : Kept(p)
        /\ UNCHANGED <<commitIndex, promised, acked>>
        /\ ops[o].pc = from /\ ops'[o].pc = to /\ ops'[o].game = ops[o].game
        /\ ops'[o].player = ops[o].player /\ ops'[o].card = ops[o].card
        /\ ops'[o].cmd.Op = ops[o].cmd.Op /\ o \notin acked
    BY <1>3, <1>b DEF Moves, AckedOver, Running
  <2>2. Playing' = Playing
    BY <1>b, <1>g, <2>1, PlayingGrows
  <2>3. \A p \in Op : ~Starts(p)
    BY <1>3, <1>g, <2>1 DEF Starts, Running, Kept, OpState
  <2>4. OneCard' /\ PlayersTold'
    BY <1>e, <2>2, <2>3
  <2>5. MatchNamed'
    BY <1>3, <1>c, <1>g, <2>1 DEF MatchNamed, Working
  <2>6. ops'[o].cmd.Op = "play_cards" =>
          /\ Put(o) /\ ops'[o].cmd = ops[o].cmd
          /\ ~(InLog(ops', acked', o) /\ ops'[o].index <= commitIndex)
    <3>1. ops'[o].cmd.Op = "play_cards" => Put(o) /\ ops'[o].cmd = ops[o].cmd
      BY <1>3, <2>1 DEF Put, Plays, Running
    <3>2. ops'[o].cmd.Op = "play_cards" /\ to = "waiting" => ~(ops'[o].index <= commitIndex)
      <4>1. commitIndex <= Len(log)
        BY <1>a, SoloTypes
      <4> QED BY <1>3, <1>b, <2>1, <4>1
    <3>3. to # "waiting" => ~InLog(ops', acked', o)
      BY <2>1 DEF InLog
    <3> QED BY <2>1, <3>1, <3>2, <3>3
  <2> QED BY <1>3, <1>f, <1>g, <2>1, <2>2, <2>4, <2>5, <2>6 DEF Put, Plays, InLog
<1>4. ASSUME NEW o \in Op, CountsUp(o) PROVE PlayInv'
  <2>1. Fsm'.matchHistory = Fsm.matchHistory
    BY <1>4, <1>b DEF CountsUp, StoreState
  <2> QED BY <1>3, <1>4, <2>1 DEF CountsUp, Running
<1>5. ASSUME NEW o \in Op, Opens(o) PROVE PlayInv'
  <2>1. Fsm'.matchHistory = Fsm.matchHistory
    BY <1>5, <1>b DEF Opens, StoreState
  <2> QED BY <1>3, <1>5, <2>1 DEF Opens, Running
<1>6. ASSUME NEW o \in Op, Readies(o) PROVE PlayInv'
  <2>1. ops[o].cmd.Op = "create_game" => ops'[o].cmd.GameId.SelfId = o
    BY <1>6 DEF Readies, NewMatch
  <2>2. /\ Moves(o, "called", "built") /\ UNCHANGED <<log, fsm>>
        /\ ops[o].cmd.Op \in {"join_game_queue", "create_game"}
    BY <1>6 DEF Readies
  <2> QED BY <1>3, <1>a, <2>1, <2>2 DEF Running, Fsm
<1>7. ASSUME NEW o \in Op, Builds(o) PROVE PlayInv'
  <2>1. ops[o].cmd.Op \in {"create_player", "open_pack"}
    BY <1>7, <1>b DEF Builds, Moves, Staged
  <2> QED BY <1>3, <1>7, <1>a, <2>1 DEF Builds, Running, Fsm
<1>8. ASSUME NEW o \in Op, Enqueues(o) PROVE PlayInv'
  <2>1. ops[o].pc = "built" /\ ops'[o].cmd = ops[o].cmd
    BY <1>8 DEF Enqueues, Moves
  <2>2. ops[o].cmd.Op = "create_game" => ops'[o].cmd.GameId.SelfId = o
    BY <1>c, <2>1 DEF MatchNamed, Working, Running
  <2> QED BY <1>3, <1>8, <1>a, <2>1, <2>2 DEF Enqueues, Running, Fsm
<1>9. ASSUME NEW o \in Op, PutsCard(o) PROVE PlayInv'
  <2> DEFINE g == ops[o].game
             old == Fsm.matchHistory[g]
             game == Played(old, ops[o].player, ops[o].card)
  <2>1. /\ \A p \in Op \ {o} : Kept(p)
        /\ UNCHANGED <<commitIndex, promised, acked>> /\ Committed' = Committed
        /\ ops[o].pc = "called" /\ ops'[o].pc = "built" /\ ops'[o].game = ops[o].game
        /\ ops'[o].player = ops[o].player /\ ops'[o].card = ops[o].card
        /\ ops[o].cmd.Op = "play_cards" /\ ops'[o].cmd.Op = "play_cards" /\ o \notin acked
        /\ ops'[o].cmd.GameId = game
        /\ Fsm' = [Fsm EXCEPT !.matchHistory = [Fsm.matchHistory EXCEPT ![g] = game]]
    BY <1>9, <1>b DEF PutsCard, Moves, AckedOver, Running, Committed
  <2>2. Playing' = Playing
    BY <1>b, <1>g, <2>1, PlayingGrows
  <2>3. OneCard' /\ PlayersTold'
    <3>1. \A p \in Op : ~Starts(p)
      BY <1>g, <2>1 DEF Starts, Running, Kept, OpState
    <3> QED BY <1>e, <2>2, <3>1
  <2>4. g \in MatchId /\ old.SelfId = g /\ ops[o].player \in {old.P1, old.P2}
    BY <1>d, <2>1 DEF Plays, Running
  <2>5. old \in Match
    BY <1>b, <2>4
  <2>6. /\ game.SelfId = old.SelfId /\ game.P1 = old.P1 /\ game.P2 = old.P2
        /\ game.Card1 = IF old.P1 = ops[o].player THEN ops[o].card ELSE old.Card1
        /\ game.Card2 = IF old.P1 = ops[o].player THEN old.Card2 ELSE ops[o].card
    BY <2>5 DEF Played, Match
  <2>7. /\ Fsm'.matchHistory[g] = game
        /\ \A h \in MatchId \cup {NoMatch} : h # g => Fsm'.matchHistory[h] = Fsm.matchHistory[h]
    <3>1. Fsm'.matchHistory = [Fsm.matchHistory EXCEPT ![g] = game]
      BY <1>b, <2>1 DEF StoreState
    <3> HIDE DEF g, game
    <3> QED BY <1>b, <2>4, <3>1
  <2>8. \A p \in Op : p # o => ~(ops'[p].pc \in Running /\ ops'[p].cmd.Op = "play_cards")
    <3> SUFFICES ASSUME NEW p \in Op, p # o, ops'[p].pc \in Running, ops'[p].cmd.Op = "play_cards"
                 PROVE  FALSE
      OBVIOUS
    <3>1. Working(p, "play_cards") /\ Working(o, "play_cards")
      BY <1>g, <2>1 DEF Working, Running
    <3> QED BY <1>b, <3>1 DEF OneEach, OwnSubject
  <2>9. MatchNamed'
    BY <1>c, <1>g, <2>1 DEF MatchNamed, Working
  <2> HIDE DEF game, g, old
  <2>10. MatchesHeld'
    BY <1>c, <2>2, <2>4, <2>6, <2>7 DEF MatchesHeld, old
  <2>11. RecordsRead'
    BY <2>1, <2>7, <2>8 DEF RecordsRead, Working, g
  <2>12. CardsShown'
    <3>1. ASSUME NEW p \in Op, p # o, ops'[p].cmd.Op = "play_cards",
                 p \in acked' \/ ops'[p].pc \in Running \ {"called"}
          PROVE  /\ Shows(Fsm'.matchHistory[ops'[p].game], ops'[p].player, ops'[p].card)
                 /\ InLog(ops', acked', p) /\ ops'[p].index <= commitIndex =>
                      Shows(Committed.matchHistory[ops'[p].game], ops'[p].player, ops'[p].card)
      <4>1. /\ p \in acked /\ Plays(p) /\ Put(p) /\ ops[p].pc # "idle"
            /\ ops'[p].game = ops[p].game /\ ops'[p].player = ops[p].player
            /\ ops'[p].card = ops[p].card /\ ops'[p].index = ops[p].index
        BY <1>b, <1>g, <2>1, <2>8, <3>1 DEF Plays, Put, InLog, AckedOver
      <4>2. Shows(Fsm.matchHistory[ops[p].game], ops[p].player, ops[p].card)
        BY <1>c, <4>1 DEF CardsShown
      <4>3. InLog(ops, acked, p) /\ ops[p].index <= commitIndex =>
              Shows(Committed.matchHistory[ops[p].game], ops[p].player, ops[p].card)
        BY <1>c, <4>1 DEF CardsShown
      <4>4. ops[p].game \in MatchId
        BY <1>d, <4>1
      <4>5. Shows(Fsm'.matchHistory[ops[p].game], ops[p].player, ops[p].card)
        <5>1. CASE ops[p].game # g
          BY <2>7, <4>2, <4>4, <5>1
        <5>2. CASE ops[p].game = g
          <6>1. ops[p].player \in {old.P1, old.P2}
            BY <1>d, <4>1, <5>2 DEF old
          <6>2. ops[p].player = ops[o].player => ops[p].card = ops[o].card
            BY <1>c, <2>1, <4>1, <5>2 DEF OneCard, Plays, g
          <6>3. Shows(old, ops[p].player, ops[p].card)
            BY <4>2, <5>2 DEF old
          <6> QED BY <2>4, <2>6, <2>7, <5>2, <6>1, <6>2, <6>3 DEF Shows
        <5> QED BY <5>1, <5>2
      <4> QED BY <2>1, <4>1, <4>3, <4>5 DEF InLog
    <3>2. /\ Shows(Fsm'.matchHistory[ops'[o].game], ops'[o].player, ops'[o].card)
          /\ ~InLog(ops', acked', o)
      BY <2>1, <2>6, <2>7 DEF Shows, InLog, g
    <3> QED BY <2>1, <3>1, <3>2 DEF CardsShown, Put, Plays
  <2> QED BY <1>a, <2>3, <2>9, <2>10, <2>11, <2>12 DEF PlayInv
<1>10. ASSUME Applies PROVE PlayInv'
  <2> DEFINE c == log[applied[leader] + 1]
  <2>1. PICK w \in Op : Answered(w) /\ ops[w].cmd = c
    BY <1>10, <1>a, AppliesAwaited DEF Applies
  <2>2. /\ UNCHANGED <<commitIndex, promised>> /\ Committed' = Committed
        /\ Fsm'.matchHistory = MatchHistoryAfter(Fsm, c)
        /\ ops[w].pc = "waiting" /\ ops[w].index = applied[leader] + 1
    BY <1>10, <2>1 DEF Applies, ApplyCommand, Answered, Committed
  <2>3. \A p \in Op : Answered(p) <=> p = w
    <3>1. \A p \in Op : Answered(p) => p = w
      BY <1>a, <2>1 DEF SoloInv, OwnPlaces, Answered, InLog
    <3> QED BY <2>1, <3>1
  <2>4. acked' = acked \cup {w}
    BY <1>10, <2>3 DEF Applies
  <2>5. \A p \in Op : /\ ops'[p].cmd = ops[p].cmd /\ ops'[p].game = ops[p].game
                      /\ ops'[p].player = ops[p].player /\ ops'[p].card = ops[p].card
                      /\ p # w => Kept(p)
    BY <1>10, <1>g, <2>3 DEF Applies, IdleOp
  <2>6. ops'[w].index = ops[w].index /\ ops'[w].pc \notin Running
    BY <1>10, <2>3 DEF Applies, IdleOp, Running
  <2>7. \A p \in Op : ops'[p].pc \in Running => p # w /\ ops'[p].pc = ops[p].pc
    BY <1>g, <2>5, <2>6
  <2>8. ASSUME NEW p \in Op, ops'[p].cmd.Op = "play_cards",
               p \in acked' \/ ops'[p].pc \in Running \ {"called"}
        PROVE  /\ Put(p)
               /\ InLog(ops', acked', p) /\ ops'[p].index <= commitIndex =>
                    InLog(ops, acked, p) /\ ops[p].index <= commitIndex
    <3>1. CASE p = w
      BY <2>2, <2>5, <2>6, <2>8, <3>1 DEF Put, Plays, Running, InLog
    <3>2. CASE p # w
      BY <1>g, <2>4, <2>5, <2>8, <3>2 DEF Put, Plays, InLog
    <3> QED BY <3>1, <3>2
  <2>9. OneCard' /\ PlayersTold'
    <3>1. \A o \in Op : ~Starts(o)
      BY <1>10, <1>g, <2>1, <2>5, <2>6 DEF Starts, Answered, Running, Kept, OpState
    <3>2. Playing \subseteq Playing'
      BY <2>4, <2>5, <1>b, PlayingGrows
    <3> QED BY <1>e, <3>1, <3>2
  <2>10. MatchNamed'
    BY <1>c, <2>5, <2>7 DEF MatchNamed, Working
  <2>11. CASE c.Op = "create_game"
    <3>1. c.GameId.SelfId = w /\ w \in MatchId
      BY <1>c, <2>1, <2>2, <2>11, ClusterAssumption DEF MatchNamed, Working, Running
    <3>2. /\ Fsm'.matchHistory[w] = c.GameId
          /\ \A g \in MatchId \cup {NoMatch} : g # w => Fsm'.matchHistory[g] = Fsm.matchHistory[g]
      <4>1. Fsm'.matchHistory = [Fsm.matchHistory EXCEPT ![w] = c.GameId]
        BY <2>2, <2>11, <3>1 DEF MatchHistoryAfter
      <4> HIDE DEF c
      <4> QED BY <1>b, <3>1, <4>1
    <3>3. \A g, p : Told(ops, acked, g, p) => g # w /\ g \in MatchId
      BY <1>a, <2>2, ToldOver DEF Running
    <3>4. MatchesHeld'
      <4> SUFFICES ASSUME NEW g \in MatchId, NEW p \in PlayerId, (<<g, p>> \in Playing)'
                   PROVE  /\ Fsm'.matchHistory[g].SelfId = g
                          /\ p \in {Fsm'.matchHistory[g].P1, Fsm'.matchHistory[g].P2}
        BY DEF MatchesHeld
      <4>1. Told(ops', acked', g, p)
        <5>1. \/ FirstMatch # NoMatch /\ <<g, p>> \in {<<FirstMatch, 1>>, <<FirstMatch, 2>>}
              \/ \E o \in {a \in acked' : ops'[a].cmd.Op = "create_game"} :
                   <<g, p>> \in {<<o, ops'[o].cmd.GameId.P1>>, <<o, ops'[o].cmd.GameId.P2>>}
          BY DEF Playing
        <5> QED BY <5>1 DEF Told
      <4>2. CASE Told(ops, acked, g, p)
        BY <1>c, <3>2, <3>3, <4>2, PlayingTold DEF MatchesHeld
      <4>3. CASE ~Told(ops, acked, g, p)
        <5>1. g = w /\ p \in {c.GameId.P1, c.GameId.P2}
          BY <1>b, <2>1, <2>4, <2>5, <4>1, <4>3 DEF Told
        <5> QED BY <3>1, <3>2, <5>1
      <4> QED BY <4>2, <4>3
    <3>5. RecordsRead'
      <4> SUFFICES ASSUME NEW p \in Op, ops'[p].pc \in Running, ops'[p].cmd.Op = "play_cards",
                          ops'[p].pc # "called"
                   PROVE  ops'[p].cmd.GameId = Fsm'.matchHistory[ops'[p].game]
        BY DEF RecordsRead, Working
      <4>1. Working(p, "play_cards") /\ ops[p].pc # "called"
        BY <2>5, <2>7 DEF Working
      <4>2. ops[p].cmd.GameId = Fsm.matchHistory[ops[p].game]
        BY <1>c, <4>1 DEF RecordsRead
      <4>3. ops[p].game # w /\ ops[p].game \in MatchId
        BY <1>d, <3>3, <4>1 DEF Working, Plays
      <4> QED BY <2>5, <3>2, <4>2, <4>3
    <3>6. CardsShown'
      <4>1. ASSUME NEW p \in Op, ops'[p].cmd.Op = "play_cards",
                   p \in acked' \/ ops'[p].pc \in Running \ {"called"}
            PROVE  /\ Shows(Fsm'.matchHistory[ops'[p].game], ops'[p].player, ops'[p].card)
                   /\ InLog(ops', acked', p) /\ ops'[p].index <= commitIndex =>
                        Shows(Committed.matchHistory[ops'[p].game], ops'[p].player, ops'[p].card)
        <5>1. ops[p].game # w /\ ops[p].game \in MatchId
          BY <1>d, <2>8, <3>3, <4>1 DEF Put
        <5> QED BY <1>c, <2>5, <2>8, <3>2, <4>1, <5>1 DEF CardsShown
      <4> QED BY <2>2, <4>1 DEF CardsShown, Put, Plays
    <3> QED BY <1>a, <2>9, <2>10, <3>4, <3>5, <3>6 DEF PlayInv
  <2>12. CASE c.Op # "create_game"
    <3>1. Fsm'.matchHistory = Fsm.matchHistory
      <4>1. CASE c.Op = "play_cards"
        <5>1. Plays(w) /\ ops[w].pc \in Running /\ Working(w, "play_cards")
          BY <2>1, <2>2, <4>1 DEF Plays, Working, Running
        <5>2. c.GameId = Fsm.matchHistory[ops[w].game]
          BY <1>c, <2>1, <2>2, <5>1 DEF RecordsRead
        <5>3. c.GameId.SelfId = ops[w].game /\ ops[w].game \in MatchId
          BY <1>d, <5>1, <5>2
        <5>4. Fsm'.matchHistory = [Fsm.matchHistory EXCEPT ![ops[w].game] = c.GameId]
          BY <2>2, <4>1, <5>3 DEF MatchHistoryAfter
        <5> HIDE DEF c
        <5> QED BY <1>b, <5>2, <5>3, <5>4
      <4>2. CASE c.Op # "play_cards"
        BY <2>2, <2>12, <4>2 DEF MatchHistoryAfter
      <4> QED BY <4>1, <4>2
    <3>2. Playing' = Playing
      <4>1. {a \in acked' : ops'[a].cmd.Op = "create_game"}
              = {a \in acked : ops[a].cmd.Op = "create_game"}
        BY <1>b, <2>1, <2>4, <2>5, <2>12
      <4>2. UNION {{<<o, ops'[o].cmd.GameId.P1>>, <<o, ops'[o].cmd.GameId.P2>>} :
                     o \in {a \in acked' : ops'[a].cmd.Op = "create_game"}}
            = UNION {{<<o, ops[o].cmd.GameId.P1>>, <<o, ops[o].cmd.GameId.P2>>} :
                       o \in {a \in acked : ops[a].cmd.Op = "create_game"}}
        BY <1>b, <2>5, <4>1
      <4> QED BY <4>2 DEF Playing
    <3>3. \A p \in Op :
            ops'[p].pc \in Running \ {"called"} /\ ops'[p].cmd.Op = "play_cards" =>
              /\ ops[p].pc \in Running \ {"called"} /\ ops[p].cmd.Op = "play_cards"
              /\ ops'[p].cmd.GameId = ops[p].cmd.GameId /\ ops'[p].game = ops[p].game
      BY <2>5, <2>7 DEF Working
    <3> QED BY <1>f, <2>2, <2>5, <2>8, <2>9, <2>10, <3>1, <3>2, <3>3
  <2> QED BY <2>11, <2>12
<1>11. ASSUME Commits PROVE PlayInv'
  <2> DEFINE c == log[commitIndex + 1]
  <2>1. /\ commitIndex' = commitIndex + 1 /\ commitIndex < Len(log)
        /\ UNCHANGED <<log, fsm, applied, ops, acked>> /\ Fsm' = Fsm
    BY <1>11, <1>a DEF Commits, Fsm
  <2>2. Committed'.matchHistory = MatchHistoryAfter(Committed, c)
    BY <1>11, <1>a, CommitsFacts DEF ApplyCommand
  <2>3. PICK w \in Op : ops[w].pc = "waiting" /\ ops[w].index = commitIndex + 1
    <3>1. applied[leader] \in Nat
      BY <1>a, SoloTypes
    <3>2. commitIndex + 1 \in applied[leader] + 1 .. Len(log)
      BY <1>b, <2>1, <3>1
    <3> QED BY <1>a, <3>2 DEF SoloInv, Awaited
  <2>4. ops[w].cmd = c
    BY <1>b, <2>3 DEF WaitingPlaced, Placed
  <2>5. Playing' = Playing
    BY <2>1 DEF Playing
  <2>6. OneCard' /\ PlayersTold' /\ MatchesHeld' /\ MatchNamed' /\ RecordsRead'
    <3>1. OneCard' /\ PlayersTold' /\ MatchNamed'
      BY <1>c, <2>1, <2>5 DEF OneCard, PlayersTold, MatchNamed, Plays, Working
    <3>2. MatchesHeld' /\ RecordsRead'
      BY <1>c, <2>1, <2>5 DEF MatchesHeld, RecordsRead, Working
    <3> QED BY <3>1, <3>2
  <2>7. c.Op = "play_cards" =>
          /\ ops[w].game \in MatchId /\ c.GameId = Fsm.matchHistory[ops[w].game]
          /\ c.GameId.SelfId = ops[w].game
    <3>1. c.Op = "play_cards" => Plays(w) /\ ops[w].pc \in Running /\ Working(w, "play_cards")
      BY <2>3, <2>4 DEF Plays, Working, Running
    <3> QED BY <1>c, <1>d, <2>3, <2>4, <3>1 DEF RecordsRead
  <2>8. c.Op = "create_game" => c.GameId.SelfId = w /\ w \in MatchId
    BY <1>c, <2>3, <2>4, ClusterAssumption DEF MatchNamed, Working, Running
  <2>9. ASSUME NEW p \in Op, Put(p), InLog(ops, acked, p), ops[p].index <= commitIndex + 1
        PROVE  Shows(Committed'.matchHistory[ops[p].game], ops[p].player, ops[p].card)
    <3> DEFINE g == ops[p].game
    <3>1. g \in MatchId /\ g # w
      <4>1. Told(ops, acked, g, ops[p].player) /\ g \in MatchId
        BY <1>d, <2>9 DEF Put
      <4> QED BY <1>a, <2>3, <4>1, ToldOver DEF Running
    <3>2. Shows(Fsm.matchHistory[g], ops[p].player, ops[p].card)
      BY <1>c, <2>9 DEF CardsShown
    <3>3. ops[p].index = commitIndex + 1 => p = w
      BY <1>a, <2>3, <2>9 DEF SoloInv, OwnPlaces, InLog
    <3>4. ops[p].index # commitIndex + 1 =>
            Shows(Committed.matchHistory[g], ops[p].player, ops[p].card)
      BY <1>b, <1>c, <2>9 DEF CardsShown
    <3> HIDE DEF c, g
    <3>5. CASE c.Op = "play_cards" /\ ops[w].game = g
      BY <1>b, <2>2, <2>7, <3>1, <3>2, <3>5 DEF MatchHistoryAfter, g
    <3>6. CASE ~(c.Op = "play_cards" /\ ops[w].game = g)
      <4>1. ops[p].index # commitIndex + 1
        BY <2>4, <2>9, <3>3, <3>6 DEF Put, Plays, g
      <4>2. Committed'.matchHistory[g] = Committed.matchHistory[g]
        BY <1>b, <2>2, <2>7, <2>8, <3>1, <3>6 DEF MatchHistoryAfter
      <4> QED BY <3>4, <4>1, <4>2 DEF g
    <3> QED BY <3>5, <3>6
  <2>10. CardsShown'
    <3>1. \A p \in Op : Put(p)' <=> Put(p)
      BY <2>1 DEF Put, Plays
    <3>2. \A p \in Op : Put(p) => Shows(Fsm.matchHistory[ops[p].game], ops[p].player, ops[p].card)
      BY <1>c DEF CardsShown
    <3> QED BY <2>1, <2>9, <3>1, <3>2 DEF CardsShown
  <2> QED BY <1>a, <2>6, <2>10 DEF PlayInv
<1> QED
  BY <1>a, <1>1, <1>2, <1>4, <1>5, <1>6, <1>7, <1>8, <1>9, <1>10, <1>11 DEF SoloStep

\* The log shows the card of every play it answered or can still answer.
CardsKept ==
  \A o \in Answerable :
    Plays(o) => Shows(Committed.matchHistory[ops[o].game], ops[o].player, ops[o].card)

LEMMA PlayKept == PlayInv => CardsKept
BY DEF PlayInv, CardsShown, CardsKept, Put, Answerable, InLog, Running

PlayFirst ==
  /\ AckedInv
  /\ elections = 0 => IF leader = NoNode THEN CardsKept ELSE PlayInv

LEMMA PlayFirstStep == Single /\ PlayFirst /\ [Next]_vars => PlayFirst'
<1> SUFFICES ASSUME Single, PlayFirst, [Next]_vars PROVE PlayFirst'
  OBVIOUS
<1>1. AckedInv /\ AckedInv' /\ TypeOK
  BY AckedStep DEF PlayFirst, AckedInv
<1>2. ASSUME elections' = 0, leader' # NoNode PROVE PlayInv'
  <2>1. PlayInv
    BY <1>1, <1>2, FirstTerm DEF PlayFirst
  <2> QED BY <1>2, <2>1, PlayStep
<1>3. ASSUME elections' = 0, leader' = NoNode PROVE CardsKept'
  <2>1. CardsKept
    BY <1>1, <1>3, FirstTerm, PlayKept DEF PlayFirst
  <2>2. Committed' = Committed
    BY <1>1, <1>3, Leaderless DEF Committed
  <2> QED BY <1>1, <1>3, <2>1, <2>2, AnswerableRemain DEF CardsKept, Plays, SameRequest
<1> QED BY <1>1, <1>2, <1>3 DEF PlayFirst

\* Until it is elected again, a server alone keeps every card whose play it
\* acknowledged: no command between writes an older record of that match.
THEOREM PlayedCardsKeptCorrect ==
  Single => (Spec => [](elections = 0 => PlayedCardsKept))
<1> SUFFICES ASSUME Single PROVE Spec => [](elections = 0 => PlayedCardsKept)
  OBVIOUS
<1>1. Init => PlayFirst
  BY PlayInit, AckedInit, FirstLeads DEF PlayFirst
<1>2. PlayFirst /\ [Next]_vars => PlayFirst'
  BY PlayFirstStep
<1>3. AckedInv /\ CardsKept => PlayedCardsKept
  BY AckedAnswerable DEF CardsKept, Plays, Shows, PlayedCardsKept
<1>4. PlayFirst => (elections = 0 => PlayedCardsKept)
  BY <1>3, PlayKept DEF PlayFirst
<1> QED
  BY <1>1, <1>2, <1>4, PTL DEF Spec

-----------------------------------------------------------------------------
(* The packs: the proof of PackOnce.                                       *)

Held(cards) == {cards[i] : i \in 1 .. Len(cards)}
Once(cards) == \A i, j \in 1 .. Len(cards) : cards[i] = cards[j] => i = j

\* Key 0 of the map holds what the store was told of players it did not have.
Listed == PlayerId \ {0}
Real(players) == {p \in Listed : players[p].Id # 0}

\* On the server a pack is in the deck or with one player, once.
PacksApart(players, deck) ==
  /\ Once(deck)
  /\ \A p \in Listed :
       /\ players[p].Id \in {0, p}
       /\ Once(players[p].Cards)
       /\ Held(players[p].Cards) \cap Held(deck) = {}
       /\ \A q \in Listed \ {p} : Held(players[p].Cards) \cap Held(players[q].Cards) = {}

\* Nobody has opened a pack with an id before its account is applied ...
NewId(op, players) ==
  /\ op.cmd.PlayerCards = <<>>
  /\ op.pc # "called" => players[op.cmd.PlayerID].Id = 0

NewIds ==
  \A o \in Op : Working(o, "create_player") => NewId(ops[o], Fsm.players)

\* ... or what he opened went to key 0.  Until the command of an opening is
\* applied nothing changes the deck and the packs it carries.
PackRead(op, players, deck) ==
  LET cards == op.cmd.PlayerCards
      id == op.cmd.PlayerID
  IN /\ op.pc # "mutated" => op.cmd.Cards = deck
     /\ Once(cards) /\ Held(cards) \cap Held(deck) = {}
     /\ id # 0 => players[id] = [Id |-> id, Cards |-> cards]
     /\ id = 0 => \A q \in Real(players) : Held(cards) \cap Held(players[q].Cards) = {}

PacksRead ==
  \A o \in Op :
    Working(o, "open_pack") =>
      /\ ops[o].player # 0
      /\ ops[o].pc # "called" => PackRead(ops[o], Fsm.players, Fsm.Cards)

\* The committed packs of a player are among those the server shows.
PacksShown(mine, left, players, deck) ==
  /\ \A p \in PlayerId : Once(mine[p].Cards) /\ Held(mine[p].Cards) \cap Held(left) = {}
  /\ \A p \in Listed : /\ Held(mine[p].Cards) \subseteq Held(players[p].Cards)
                       /\ Held(mine[p].Cards) # {} => p \in Real(players)
  /\ Held(mine[0].Cards) \cap Held(deck) = {}
  /\ \A p \in Real(players) : Held(mine[0].Cards) \cap Held(players[p].Cards) = {}

DeckKept(l, n) == \A i \in 1 .. n : l[i].Op = "open_pack" => l[i].Cards # <<>>

PacksCommitted ==
  DeckKept(log, commitIndex) =>
    PacksShown(Committed.players, Committed.Cards, Fsm.players, Fsm.Cards)

PackInv ==
  /\ CounterInv
  /\ PacksApart(Fsm.players, Fsm.Cards) /\ NewIds /\ PacksRead /\ PacksCommitted

LEMMA HeldEmpty == Held(<<>>) = {} /\ Once(<<>>)
BY DEF Held, Once

LEMMA HeldAppend ==
  ASSUME NEW S, NEW cards \in Seq(S), NEW e \in S
  PROVE  /\ Held(Append(cards, e)) = Held(cards) \cup {e}
         /\ Once(cards) /\ e \notin Held(cards) => Once(Append(cards, e))
<1> DEFINE more == Append(cards, e)
           n == Len(cards)
<1>1. /\ n \in Nat /\ Len(more) = n + 1 /\ more[n + 1] = e
      /\ \A i \in 1 .. n : more[i] = cards[i]
  OBVIOUS
<1> HIDE DEF more
<1>2. \A i \in 1 .. n + 1 : i \in 1 .. n \/ i = n + 1
  BY <1>1
<1>3. Held(more) = Held(cards) \cup {e}
  <2>1. Held(more) = {more[i] : i \in 1 .. n + 1}
    BY <1>1 DEF Held
  <2>2. \A x : x \in Held(cards) <=> \E i \in 1 .. n : x = more[i]
    BY <1>1 DEF Held
  <2>3. \A i \in 1 .. n : i \in 1 .. n + 1
    BY <1>1
  <2>4. n + 1 \in 1 .. n + 1
    BY <1>1
  <2> HIDE DEF n
  <2> QED BY <1>1, <1>2, <2>1, <2>2, <2>3, <2>4
<1>4. Once(cards) /\ e \notin Held(cards) => Once(more)
  BY <1>1, <1>2 DEF Once, Held
<1> QED BY <1>3, <1>4 DEF more

LEMMA HeldSwapRemove ==
  ASSUME NEW S, NEW deck \in Seq(S), Once(deck), NEW i \in 1 .. Len(deck)
  PROVE  /\ Once(SwapRemove(deck, i))
         /\ Held(SwapRemove(deck, i)) \subseteq Held(deck)
         /\ deck[i] \notin Held(SwapRemove(deck, i))
         /\ deck[i] \in S /\ deck[i] \in Held(deck)
<1> DEFINE n == Len(deck)
           swapped == [deck EXCEPT ![i] = deck[n]]
           rest == SwapRemove(deck, i)
<1>1. n \in Nat /\ n >= 1 /\ n - 1 \in Nat /\ i \in Nat /\ 1 <= i /\ i <= n
  OBVIOUS
<1>2. swapped \in Seq(S) /\ Len(swapped) = n
  BY <1>1
<1>3. \A j \in 1 .. n : swapped[j] = IF j = i THEN deck[n] ELSE deck[j]
  BY <1>1
<1> HIDE DEF swapped
<1>4. Len(rest) = n - 1 /\ \A j \in 1 .. n - 1 : rest[j] = swapped[j]
  <2>1. rest = SubSeq(swapped, 1, n - 1)
    BY DEF SwapRemove, swapped
  <2> HIDE DEF rest
  <2> QED BY <1>1, <1>2, <2>1
<1> HIDE DEF rest
<1>5. \A j \in 1 .. n - 1 : /\ j \in 1 .. n /\ j # n
                            /\ rest[j] = IF j = i THEN deck[n] ELSE deck[j]
  BY <1>1, <1>3, <1>4
<1>6. n \in 1 .. n
  BY <1>1
<1>7. Once(rest)
  BY <1>4, <1>5, <1>6 DEF Once
<1>8. Held(rest) \subseteq Held(deck)
  BY <1>4, <1>5, <1>6 DEF Held
<1>9. deck[i] \notin Held(rest)
  BY <1>4, <1>5, <1>6 DEF Held, Once
<1>10. deck[i] \in S /\ deck[i] \in Held(deck)
  BY DEF Held
<1> QED BY <1>7, <1>8, <1>9, <1>10 DEF rest

LEMMA PackTypes ==
  ASSUME NEW s \in StoreState
  PROVE  /\ s.Cards \in Seq(Pack) /\ s.players \in [PlayerId -> Player]
         /\ \A p \in PlayerId : s.players[p].Id \in PlayerId /\ s.players[p].Cards \in Seq(Pack)
<1>1. s.Cards \in Seq(Pack) /\ s.players \in [PlayerId -> Player]
  BY DEF StoreState
<1>2. \A p \in PlayerId : s.players[p] \in Player
  BY <1>1
<1> QED BY <1>1, <1>2 DEF Player

\* An opening moves a pack from the deck to a player of the store.
MovesPack(players, deck, i, p, cards, new, left) ==
  /\ players \in [PlayerId -> Player] /\ PacksApart(players, deck)
  /\ deck \in Seq(Pack) /\ i \in 1 .. Len(deck) /\ p \in Listed
  /\ cards = Append(players[p].Cards, deck[i])
  /\ new = [players EXCEPT ![p] = [Id |-> players[p].Id, Cards |-> cards]]
  /\ left = SwapRemove(deck, i)

PackMoved(players, deck, i, p, cards, new, left) ==
  /\ PacksApart(new, left)
  /\ Once(cards) /\ Held(cards) \cap Held(left) = {} /\ Held(left) \subseteq Held(deck)
  /\ Held(cards) = Held(players[p].Cards) \cup {deck[i]} /\ deck[i] \in Held(deck)
  /\ new[p] = [Id |-> players[p].Id, Cards |-> cards]
  /\ \A q \in PlayerId \ {p} : new[q] = players[q]

LEMMA OpeningApart ==
  ASSUME NEW players, NEW deck, NEW i, NEW p, NEW cards, NEW new, NEW left,
         MovesPack(players, deck, i, p, cards, new, left)
  PROVE  PackMoved(players, deck, i, p, cards, new, left)
<1>0. /\ players \in [PlayerId -> Player] /\ PacksApart(players, deck)
      /\ deck \in Seq(Pack) /\ i \in 1 .. Len(deck) /\ p \in Listed
      /\ cards = Append(players[p].Cards, deck[i])
      /\ new = [players EXCEPT ![p] = [Id |-> players[p].Id, Cards |-> cards]]
      /\ left = SwapRemove(deck, i)
  BY DEF MovesPack
<1>1. p \in PlayerId /\ players[p].Cards \in Seq(Pack) /\ Listed \subseteq PlayerId
  <2>1. p \in PlayerId /\ Listed \subseteq PlayerId
    BY <1>0 DEF Listed
  <2>2. players[p] \in Player
    BY <1>0, <2>1
  <2> QED BY <2>1, <2>2 DEF Player
<1>2. /\ Once(left) /\ Held(left) \subseteq Held(deck) /\ deck[i] \notin Held(left)
      /\ deck[i] \in Pack /\ deck[i] \in Held(deck)
  BY <1>0, HeldSwapRemove DEF PacksApart
<1>3. Once(players[p].Cards) /\ Held(players[p].Cards) \cap Held(deck) = {}
  BY <1>0 DEF PacksApart
<1>4. Held(cards) = Held(players[p].Cards) \cup {deck[i]} /\ Once(cards)
  BY <1>0, <1>1, <1>2, <1>3, HeldAppend
<1>5. /\ new[p] = [Id |-> players[p].Id, Cards |-> cards]
      /\ \A q \in PlayerId \ {p} : new[q] = players[q]
  BY <1>0, <1>1
<1>6. Held(cards) \cap Held(left) = {}
  BY <1>2, <1>3, <1>4
<1>7. \A q \in Listed : /\ new[q].Id = players[q].Id
                        /\ q # p => new[q].Cards = players[q].Cards
                        /\ q = p => new[q].Cards = cards
  BY <1>1, <1>5
<1>8. PacksApart(new, left)
  <2>1. ASSUME NEW q \in Listed
        PROVE  /\ new[q].Id \in {0, q} /\ Once(new[q].Cards)
               /\ Held(new[q].Cards) \cap Held(left) = {}
    BY <1>0, <1>2, <1>4, <1>6, <1>7 DEF PacksApart
  <2>2. ASSUME NEW q \in Listed, NEW r \in Listed \ {q}
        PROVE  Held(new[q].Cards) \cap Held(new[r].Cards) = {}
    <3>1. /\ Held(players[q].Cards) \cap Held(players[r].Cards) = {}
          /\ deck[i] \notin Held(players[q].Cards) /\ deck[i] \notin Held(players[r].Cards)
      BY <1>0, <1>2 DEF PacksApart
    <3> QED BY <1>4, <1>7, <3>1
  <2> QED BY <1>2, <2>1, <2>2 DEF PacksApart
<1> QED BY <1>2, <1>4, <1>5, <1>6, <1>8 DEF PackMoved

LEMMA PackInit == Init /\ Single => PackInv
<1> SUFFICES ASSUME Init, Single PROVE PackInv
  OBVIOUS
<1>1. CounterInv /\ commitIndex = 0 /\ Fsm = Base /\ Committed = Base
  BY CounterInit, SoloInit DEF Init, RaftInit, Fsm, Committed, SoloInv
<1>2. \A o \in Op : ops[o] = IdleOp
  BY DEF Init
<1>3. \A p \in PlayerId : /\ Base.players[p].Id = IF p \in 1 .. Accounts THEN p ELSE 0
                          /\ Base.players[p].Cards = <<>>
  BY DEF Base, NewStore, ZeroPlayer
<1>4. Base.Cards = [i \in Pack |-> i]
  BY DEF Base, NewStore
<1>5. Once(Base.Cards)
  <2>1. \A i \in 1 .. NumPacks : Base.Cards[i] = i
    BY <1>4 DEF Pack
  <2>2. Len(Base.Cards) = NumPacks
    BY <1>4, StoreAssumption DEF Pack
  <2> QED BY <2>1, <2>2 DEF Once
<1>6. PlayerId \subseteq Nat /\ Listed \subseteq PlayerId /\ 0 \in PlayerId
  BY StoreAssumption DEF PlayerId, Listed
<1>7. PacksApart(Base.players, Base.Cards)
  BY <1>3, <1>5, <1>6, HeldEmpty DEF PacksApart
<1>8. PacksShown(Base.players, Base.Cards, Base.players, Base.Cards)
  BY <1>3, <1>6, HeldEmpty DEF PacksShown, Real
<1>9. NewIds /\ PacksRead
  BY <1>2 DEF NewIds, PacksRead, Working, Running, IdleOp
<1> QED BY <1>1, <1>7, <1>8, <1>9 DEF PackInv, PacksCommitted

LEMMA PackStep ==
  ASSUME PackInv, Single, leader' # NoNode, [Next]_vars
  PROVE  PackInv'
<1>a. /\ leader' = leader /\ SoloStep /\ SoloInv /\ SoloInv'
      /\ CounterInv /\ CounterInv'
  BY SoloSteps, SoloKept, CounterStep DEF PackInv, CounterInv
<1>b. /\ commitIndex \in Nat /\ Len(log) \in Nat /\ commitIndex <= Len(log)
      /\ log \in Seq(Command) /\ OneEach /\ Staged /\ AckedOver /\ WaitingPlaced
      /\ ops \in [Op -> OpRecord \cup {IdleOp}]
      /\ Fsm \in StoreState /\ Committed \in StoreState
      /\ Fsm.Cards \in Seq(Pack) /\ Fsm.players \in [PlayerId -> Player]
  BY <1>a, SoloTypes, PackTypes DEF SoloInv, AckedInv
<1>c. /\ PacksApart(Fsm.players, Fsm.Cards) /\ NewIds /\ PacksRead /\ PacksCommitted
      /\ 0 \in PlayerId /\ Listed \subseteq PlayerId /\ 0 \notin Listed
  BY StoreAssumption DEF PackInv, Listed, PlayerId
<1>d. ASSUME NEW o \in Op, ops[o].pc \in Running
      PROVE  ops[o].cmd \in Command /\ ops[o].player \in PlayerId
  BY <1>b, <1>d DEF OpRecord, IdleOp, Running
\* Most steps touch neither the packs nor what the log makes of them.
<1>e. ASSUME UNCHANGED <<commitIndex, promised>>, Fsm'.players = Fsm.players,
             Fsm'.Cards = Fsm.Cards, \A i \in 1 .. commitIndex : log'[i] = log[i],
             NewIds', PacksRead'
      PROVE  PackInv'
  <2>1. Committed' = Committed
    BY <1>e DEF Committed
  <2>2. DeckKept(log', commitIndex) => DeckKept(log, commitIndex)
    BY <1>e DEF DeckKept
  <2>3. PacksCommitted'
    BY <1>c, <1>e, <2>1, <2>2 DEF PacksCommitted
  <2> QED BY <1>a, <1>c, <1>e, <2>3 DEF PackInv
<1>f. ASSUME NEW o \in Op, Kept(o), NEW kind, ops'[o].pc \in Running, ops'[o].cmd.Op = kind
      PROVE  /\ Working(o, kind) /\ ops[o].pc = ops'[o].pc /\ ops'[o].cmd = ops[o].cmd
             /\ ops'[o].player = ops[o].player
  BY <1>f DEF Kept, Working, Running, OpState
\* What a kept execution relies on while the packs stay.
<1>g. ASSUME NEW o \in Op, Kept(o), Fsm'.players = Fsm.players, Fsm'.Cards = Fsm.Cards,
             ops'[o].pc \in Running
      PROVE  /\ ops'[o].cmd.Op = "create_player" => NewId(ops'[o], Fsm'.players)
             /\ ops'[o].cmd.Op = "open_pack" =>
                  /\ ops'[o].player # 0
                  /\ ops'[o].pc # "called" => PackRead(ops'[o], Fsm'.players, Fsm'.Cards)
  BY <1>c, <1>f, <1>g DEF NewIds, NewId, PacksRead, PackRead
\* Steps of one execution that leave the packs and the committed commands.
<1>h. ASSUME NEW o \in Op, \A p \in Op \ {o} : Kept(p), UNCHANGED <<commitIndex, promised>>,
             Fsm'.players = Fsm.players, Fsm'.Cards = Fsm.Cards,
             \A i \in 1 .. commitIndex : log'[i] = log[i],
             ops'[o].pc \in Running /\ ops'[o].cmd.Op = "create_player" =>
               NewId(ops'[o], Fsm'.players),
             ops'[o].pc \in Running /\ ops'[o].cmd.Op = "open_pack" =>
               /\ ops'[o].player # 0
               /\ ops'[o].pc # "called" => PackRead(ops'[o], Fsm'.players, Fsm'.Cards)
      PROVE  PackInv'
  <2>1. NewIds'
    BY <1>g, <1>h DEF NewIds, Working
  <2>2. PacksRead'
    BY <1>g, <1>h DEF PacksRead, Working
  <2> QED BY <1>e, <1>h, <2>1, <2>2
<1>1. ASSUME Ends PROVE PackInv'
  <2>1. NewIds'
    BY <1>1, <1>a, <1>g DEF Ends, NewIds, Working, Fsm
  <2>2. PacksRead'
    BY <1>1, <1>a, <1>g DEF Ends, PacksRead, Working, Fsm
  <2> QED BY <1>1, <1>a, <1>e, <2>1, <2>2 DEF Ends, Fsm
<1>2. ASSUME NEW o \in Op, Starts(o) PROVE PackInv'
  <2>1. /\ ops'[o].cmd.Op = "create_player" =>
             ops'[o].pc = "called" /\ ops'[o].cmd.PlayerCards = <<>>
        /\ ops'[o].cmd.Op = "open_pack" => ops'[o].pc = "called" /\ ops'[o].player # 0
    BY <1>2 DEF Starts, AdminKind
  <2> QED BY <1>2, <1>a, <1>h, <2>1 DEF Starts, Fsm, NewId
<1>3. ASSUME NEW o \in Op, Readies(o) \/ PutsCard(o) PROVE PackInv'
  <2>1. /\ \A p \in Op \ {o} : Kept(p)
        /\ UNCHANGED <<commitIndex, promised, log>>
        /\ ops'[o].cmd.Op \notin {"create_player", "open_pack"}
    BY <1>3 DEF Readies, PutsCard, Moves
  <2>2. Fsm'.players = Fsm.players /\ Fsm'.Cards = Fsm.Cards
    BY <1>3, <1>a, <1>b DEF Readies, PutsCard, StoreState, Fsm
  <2> QED BY <1>h, <2>1, <2>2
<1>4. ASSUME NEW o \in Op, CountsUp(o) PROVE PackInv'
  <2>1. /\ \A p \in Op \ {o} : Kept(p)
        /\ UNCHANGED <<commitIndex, promised, log>>
        /\ ops[o].cmd.Op = "create_player" /\ ops'[o].cmd.Op = "create_player"
        /\ ops[o].pc = "called" /\ ops'[o].cmd.PlayerCards = ops[o].cmd.PlayerCards
        /\ ops'[o].cmd.PlayerID = Fsm.count + 1
        /\ Fsm' = [Fsm EXCEPT !.count = Fsm.count + 1]
    BY <1>4 DEF CountsUp, Moves
  <2>2. Fsm'.players = Fsm.players /\ Fsm'.Cards = Fsm.Cards /\ Fsm'.count = Fsm.count + 1
    BY <1>b, <2>1 DEF StoreState
  <2>3. ops[o].cmd.PlayerCards = <<>>
    BY <1>c, <2>1 DEF NewIds, NewId, Working, Running
  <2>4. Fsm.players[Fsm.count + 1].Id = 0
    <3>1. Fsm.count + 1 \in PlayerId /\ Fsm.count \in Nat /\ Committed.count \in Nat
      <4>1. Fsm' \in StoreState
        <5>1. fsm' \in [Node -> StoreState] /\ leader \in Node
          BY <1>a DEF SoloInv, AckedInv, TypeOK
        <5> QED BY <1>a, <5>1 DEF Fsm
      <4>2. Fsm'.count \in PlayerId /\ Fsm.count \in PlayerId /\ Committed.count \in PlayerId
        BY <1>b, <4>1 DEF StoreState
      <4> QED BY <2>2, <4>2 DEF PlayerId
    <3>2. Fsm.players[Fsm.count + 1].Id <= Committed.count /\ Committed.count <= Fsm.count
      BY <1>a, <3>1 DEF CounterInv, IdsCounted, CountCommitted
    <3>3. Fsm.players[Fsm.count + 1].Id \in {0, Fsm.count + 1}
      BY <1>c, <3>1 DEF PacksApart, Listed
    <3> QED BY <3>1, <3>2, <3>3
  <2> QED BY <1>h, <2>1, <2>2, <2>3, <2>4 DEF NewId
<1>5. ASSUME NEW o \in Op, Builds(o) PROVE PackInv'
  <2>1. /\ \A p \in Op \ {o} : Kept(p)
        /\ UNCHANGED <<commitIndex, promised, log>>
        /\ ops[o].pc = "mutated" /\ ops'[o].pc = "built" /\ ops'[o].player = ops[o].player
        /\ Fsm' = Fsm
        /\ ops'[o].cmd = IF ops[o].cmd.Op = "create_player"
                         THEN [ops[o].cmd EXCEPT !.Count = Fsm.count]
                         ELSE [ops[o].cmd EXCEPT !.Cards = Fsm.Cards]
    BY <1>5, <1>a DEF Builds, Moves, Fsm
  <2>2. ops[o].cmd \in Command /\ ops[o].cmd.Op \in {"create_player", "open_pack"}
    BY <1>b, <1>d, <2>1 DEF Staged, Running
  <2>3. /\ ops'[o].cmd.Op = ops[o].cmd.Op /\ ops'[o].cmd.PlayerID = ops[o].cmd.PlayerID
        /\ ops'[o].cmd.PlayerCards = ops[o].cmd.PlayerCards
        /\ ops[o].cmd.Op = "open_pack" => ops'[o].cmd.Cards = Fsm.Cards
    BY <2>1, <2>2 DEF Command
  <2>4. ops[o].cmd.Op = "create_player" => NewId(ops'[o], Fsm'.players)
    BY <1>c, <2>1, <2>3 DEF NewIds, NewId, Working, Running
  <2>5. ops[o].cmd.Op = "open_pack" =>
          ops[o].player # 0 /\ PackRead(ops'[o], Fsm'.players, Fsm'.Cards)
    BY <1>c, <2>1, <2>3 DEF PacksRead, PackRead, Working, Running
  <2> QED BY <1>h, <2>1, <2>3, <2>4, <2>5
<1>6. ASSUME NEW o \in Op, Enqueues(o) PROVE PackInv'
  <2>1. /\ \A p \in Op \ {o} : Kept(p)
        /\ UNCHANGED <<commitIndex, promised>> /\ Fsm' = Fsm
        /\ ops[o].pc = "built" /\ ops'[o].pc = "waiting" /\ ops'[o].player = ops[o].player
        /\ ops'[o].cmd = ops[o].cmd /\ log' = Append(log, ops[o].cmd)
    BY <1>6, <1>a DEF Enqueues, Moves, Fsm
  <2>2. \A i \in 1 .. commitIndex : log'[i] = log[i]
    BY <1>b, <1>d, <2>1 DEF Running
  <2>3. ops[o].cmd.Op = "create_player" => NewId(ops'[o], Fsm'.players)
    BY <1>c, <2>1 DEF NewIds, NewId, Working, Running
  <2>4. ops[o].cmd.Op = "open_pack" =>
          ops[o].player # 0 /\ PackRead(ops'[o], Fsm'.players, Fsm'.Cards)
    BY <1>c, <2>1 DEF PacksRead, PackRead, Working, Running
  <2> QED BY <1>h, <2>1, <2>2, <2>3, <2>4
<1>7. ASSUME NEW o \in Op, Opens(o) PROVE PackInv'
  <2> DEFINE p == ops[o].player
             players == Fsm.players
             deck == Fsm.Cards
  <2>1. PICK i \in 1 .. Len(deck) :
          LET cards == Append(players[p].Cards, deck[i])
          IN /\ ops'[o].cmd.PlayerID = players[p].Id
             /\ ops'[o].cmd.PlayerCards = cards
             /\ Fsm' = [Fsm EXCEPT !.Cards = SwapRemove(deck, i),
                                   !.players = [players EXCEPT ![p] =
                                                  [Id |-> players[p].Id, Cards |-> cards]]]
    BY <1>7 DEF Opens
  <2>2. /\ \A q \in Op \ {o} : Kept(q)
        /\ UNCHANGED <<commitIndex, promised, log>>
        /\ ops[o].pc = "called" /\ ops'[o].pc = "mutated" /\ ops'[o].player = p
        /\ ops[o].cmd.Op = "open_pack" /\ ops'[o].cmd.Op = "open_pack"
        /\ Committed' = Committed
    BY <1>7 DEF Opens, Moves, Committed
  <2>3. p \in Listed
    BY <1>c, <1>d, <2>2 DEF PacksRead, Working, Running, Listed
  <2> DEFINE cards == Append(players[p].Cards, deck[i])
             new == Fsm'.players
             left == Fsm'.Cards
  <2>4. /\ left = SwapRemove(deck, i)
        /\ new = [players EXCEPT ![p] = [Id |-> players[p].Id, Cards |-> cards]]
    BY <1>b, <2>1 DEF StoreState
  <2>5. cards = Append(players[p].Cards, deck[i]) /\ ops'[o].cmd.PlayerCards = cards
        /\ ops'[o].cmd.PlayerID = players[p].Id /\ i \in 1 .. Len(deck)
    BY <2>1
  <2> HIDE DEF cards, new, left, p
  <2>6. /\ PacksApart(new, left)
        /\ Once(cards) /\ Held(cards) \cap Held(left) = {} /\ Held(left) \subseteq Held(deck)
        /\ Held(cards) = Held(players[p].Cards) \cup {deck[i]} /\ deck[i] \in Held(deck)
        /\ new[p] = [Id |-> players[p].Id, Cards |-> cards]
        /\ \A q \in PlayerId \ {p} : new[q] = players[q]
    <3> HIDE DEF players, deck
    <3>1. deck \in Seq(Pack) /\ players \in [PlayerId -> Player] /\ PacksApart(players, deck)
      BY <1>b, <1>c DEF players, deck
    <3>2. MovesPack(players, deck, i, p, cards, new, left)
      BY <2>3, <2>4, <2>5, <3>1 DEF MovesPack
    <3>3. PackMoved(players, deck, i, p, cards, new, left)
      BY <3>2, OpeningApart
    <3> QED BY <3>3 DEF PackMoved
  <2>7. p \in PlayerId /\ players[p].Id \in {0, p} /\ p # 0 /\ Real(new) = Real(players)
    <3>1. p \in PlayerId /\ players[p].Id \in {0, p} /\ p # 0
      BY <1>c, <2>3 DEF PacksApart, Listed
    <3>2. \A q \in Listed : new[q].Id = players[q].Id
      BY <1>c, <2>6, <3>1
    <3> QED BY <3>1, <3>2 DEF Real
  <2> HIDE DEF players, deck
  <2>8. \A q \in Op \ {o} : ~(ops'[q].pc \in Running /\ ops'[q].cmd.Op = "open_pack")
    BY <1>b, <1>f, <2>2 DEF OneEach, OwnSubject, Working, Running
  <2>9. NewIds'
    <3>1. ASSUME NEW q \in Op, ops'[q].pc \in Running, ops'[q].cmd.Op = "create_player"
          PROVE  NewId(ops'[q], new)
      <4>1. /\ q # o /\ Working(q, "create_player") /\ ops[q].pc = ops'[q].pc
            /\ ops'[q].cmd = ops[q].cmd /\ ops[q].cmd \in Command
        BY <1>d, <1>f, <2>2, <3>1 DEF Working
      <4>2. NewId(ops[q], players)
        BY <1>c, <4>1 DEF NewIds, players
      <4>3. \A r \in PlayerId : new[r].Id = players[r].Id
        BY <2>6, <2>7
      <4>4. ops[q].cmd.PlayerID \in PlayerId
        BY <4>1 DEF Command
      <4> QED BY <4>1, <4>2, <4>3, <4>4 DEF NewId
    <3> QED BY <3>1 DEF NewIds, Working, new
  <2>10. PacksRead'
    <3>1. PackRead(ops'[o], new, left)
      <4>1. players[p].Id # 0 => new[players[p].Id] = [Id |-> players[p].Id, Cards |-> cards]
        BY <2>6, <2>7
      <4>2. ASSUME players[p].Id = 0, NEW q \in Real(new)
            PROVE  Held(cards) \cap Held(new[q].Cards) = {}
        <5>1. q \in Listed /\ q # p
          BY <2>7, <4>2 DEF Real
        <5>2. Held(new[q].Cards) \cap Held(new[p].Cards) = {}
          BY <2>3, <2>6, <5>1 DEF PacksApart
        <5>3. new[p].Cards = cards
          BY <2>6
        <5> QED BY <5>2, <5>3
      <4> QED BY <2>2, <2>5, <2>6, <4>1, <4>2 DEF PackRead
    <3> QED BY <2>2, <2>7, <2>8, <3>1 DEF PacksRead, Working, new, left
  <2>11. PacksCommitted'
    <3> DEFINE mine == Committed.players
    <3> SUFFICES ASSUME PacksShown(mine, Committed.Cards, players, deck)
                 PROVE  PacksShown(mine, Committed.Cards, new, left)
      BY <1>c, <2>2 DEF PacksCommitted, players, deck, new, left
    <3> HIDE DEF mine
    <3>1. \A q \in Listed : Held(mine[q].Cards) \subseteq Held(new[q].Cards)
      <4>1. \A q \in Listed : Held(players[q].Cards) \subseteq Held(new[q].Cards)
        BY <1>c, <2>6
      <4> QED BY <4>1 DEF PacksShown
    <3>2. \A q \in Real(new) : Held(mine[0].Cards) \cap Held(new[q].Cards) = {}
      <4>1. \A q \in Real(new) : q \in PlayerId /\ Held(mine[0].Cards) \cap Held(players[q].Cards) = {}
        BY <1>c, <2>7 DEF PacksShown, Real
      <4>2. deck[i] \notin Held(mine[0].Cards)
        BY <2>6 DEF PacksShown
      <4> QED BY <2>6, <4>1, <4>2
    <3> QED BY <2>6, <2>7, <3>1, <3>2 DEF PacksShown
  <2> QED BY <1>a, <2>6, <2>9, <2>10, <2>11 DEF PackInv, new, left
<1>8. ASSUME Applies PROVE PackInv'
  <2> DEFINE c == log[applied[leader] + 1]
             players == Fsm.players
             new == Fsm'.players
  <2>1. PICK w \in Op : Answered(w) /\ ops[w].cmd = c
    BY <1>8, <1>a, AppliesAwaited DEF Applies
  <2>2. /\ UNCHANGED <<commitIndex, promised, log>> /\ Committed' = Committed
        /\ new = PlayersAfter(Fsm, c) /\ Fsm'.Cards = CardsAfter(Fsm, c)
        /\ ops[w].pc = "waiting" /\ c \in Command
    BY <1>8, <1>d, <2>1 DEF Applies, ApplyCommand, Answered, Committed, Running
  <2>3. ASSUME NEW p \in Op, ops'[p].pc \in Running
        PROVE  p # w /\ Kept(p)
    BY <1>8, <2>1, <2>3 DEF Applies, Running
  <2>4. c.Op = "open_pack" => PackRead(ops[w], players, Fsm.Cards)
    BY <1>c, <2>1, <2>2 DEF PacksRead, Working, Running
  <2>5. c.Op = "create_player" => c.PlayerCards = <<>> /\ players[c.PlayerID].Id = 0
    BY <1>c, <2>1, <2>2 DEF NewIds, NewId, Working, Running
  <2>6. Fsm'.Cards = Fsm.Cards
    BY <2>1, <2>2, <2>4 DEF CardsAfter, PackRead
  <2> HIDE DEF c, players, new
  <2>7. c.PlayerID \in PlayerId /\ players \in [PlayerId -> Player]
    BY <1>b, <2>2 DEF Command, players
  \* Only an account changes what the server shows of the players it lists.
  <2>8. CASE \A p \in Listed : new[p] = players[p]
    <3>1. Real(new) = Real(players)
      BY <2>8 DEF Real
    <3>2. PacksApart(new, Fsm.Cards)
      BY <1>c, <2>8 DEF PacksApart, players
    <3>3. PacksCommitted'
      <4> SUFFICES ASSUME PacksShown(Committed.players, Committed.Cards, players, Fsm.Cards)
                   PROVE  PacksShown(Committed.players, Committed.Cards, new, Fsm.Cards)
        BY <1>c, <2>2, <2>6 DEF PacksCommitted, players, new
      <4>1. Real(players) \subseteq Listed
        BY DEF Real
      <4> QED BY <2>8, <3>1, <4>1 DEF PacksShown
    <3>4. NewIds'
      <4>1. ASSUME NEW p \in Op, ops'[p].pc \in Running, ops'[p].cmd.Op = "create_player"
            PROVE  NewId(ops'[p], new)
        <5>1. /\ Working(p, "create_player") /\ ops[p].pc = ops'[p].pc
              /\ ops'[p].cmd = ops[p].cmd /\ ops[p].cmd \in Command
          BY <1>d, <1>f, <2>3, <4>1 DEF Working
        <5>2. NewId(ops[p], players)
          BY <1>c, <5>1 DEF NewIds, players
        <5>3. ops[p].cmd.PlayerID \in PlayerId
          BY <5>1 DEF Command
        <5>4. new[0].Id = 0 \/ new[0].Id = players[0].Id
          BY <1>c, <2>2, <2>7 DEF PlayersAfter, players
        <5>5. new[ops[p].cmd.PlayerID].Id = 0 \/ ops[p].pc = "called"
          BY <2>8, <5>2, <5>3, <5>4 DEF NewId, Listed
        <5> QED BY <5>1, <5>2, <5>5 DEF NewId
      <4> QED BY <4>1 DEF NewIds, Working, new
    <3>5. PacksRead'
      <4>1. ASSUME NEW p \in Op, ops'[p].pc \in Running, ops'[p].cmd.Op = "open_pack"
            PROVE  /\ ops'[p].player # 0
                   /\ ops'[p].pc # "called" => PackRead(ops'[p], new, Fsm.Cards)
        <5>1. /\ Working(p, "open_pack") /\ ops[p].pc = ops'[p].pc
              /\ ops'[p].cmd = ops[p].cmd /\ ops'[p].player = ops[p].player
              /\ ops[p].cmd.PlayerID \in PlayerId
          BY <1>d, <1>f, <2>3, <4>1 DEF Working, Command
        <5>2. ops[p].player # 0 /\ (ops[p].pc # "called" => PackRead(ops[p], players, Fsm.Cards))
          BY <1>c, <5>1 DEF PacksRead, players
        <5>3. \A q \in Real(players) : new[q] = players[q]
          BY <2>8 DEF Real
        <5> QED BY <2>8, <3>1, <5>1, <5>2, <5>3 DEF PackRead, Listed
      <4> QED BY <2>6, <4>1 DEF PacksRead, Working, new
    <3> QED BY <1>a, <2>6, <3>2, <3>3, <3>4, <3>5 DEF PackInv, new
  <2>9. CASE ~ \A p \in Listed : new[p] = players[p]
    <3> DEFINE id == c.PlayerID
    <3>1. /\ c.Op = "create_player" /\ id \in Listed
          /\ new = [players EXCEPT ![id] = [Id |-> id, Cards |-> <<>>]]
      <4>1. c.Op = "open_pack" /\ id # 0 => players[id] = [Id |-> id, Cards |-> c.PlayerCards]
        BY <2>1, <2>4 DEF PackRead
      <4>2. c.Op \in {"create_player", "open_pack"}
              /\ new = [players EXCEPT ![id] = [Id |-> id, Cards |-> c.PlayerCards]]
        BY <2>2, <2>9 DEF PlayersAfter, players
      <4>3. id # 0
        BY <1>c, <2>7, <2>9, <4>2 DEF Listed
      <4>4. c.Op = "create_player"
        BY <1>c, <2>7, <2>9, <4>1, <4>2, <4>3 DEF Listed
      <4> QED BY <2>5, <2>7, <4>2, <4>3, <4>4 DEF Listed
    <3> HIDE DEF id
    <3>2. /\ new[id] = [Id |-> id, Cards |-> <<>>] /\ players[id].Id = 0
          /\ \A p \in PlayerId : p # id => new[p] = players[p]
      BY <1>c, <2>5, <2>7, <3>1 DEF id
    <3>3. /\ \A p \in Listed : Held(new[p].Cards) \subseteq Held(players[p].Cards)
          /\ Held(new[id].Cards) = {} /\ Once(new[id].Cards)
      BY <1>c, <3>2, HeldEmpty
    <3>4. Real(new) = Real(players) \cup {id} /\ id \notin Real(players)
      <4>1. id # 0 /\ new[id].Id = id
        BY <3>1, <3>2, <1>c
      <4> QED BY <1>c, <3>1, <3>2, <4>1 DEF Real
    <3>5. PacksApart(new, Fsm.Cards)
      <4>1. ASSUME NEW p \in Listed
            PROVE  /\ new[p].Id \in {0, p} /\ Once(new[p].Cards)
                   /\ Held(new[p].Cards) \cap Held(Fsm.Cards) = {}
        BY <1>c, <3>2, <3>3 DEF PacksApart, players
      <4>2. ASSUME NEW p \in Listed, NEW q \in Listed \ {p}
            PROVE  Held(new[p].Cards) \cap Held(new[q].Cards) = {}
        <5>1. Held(players[p].Cards) \cap Held(players[q].Cards) = {}
          BY <1>c DEF PacksApart, players
        <5> QED BY <3>3, <5>1
      <4> QED BY <1>c, <4>1, <4>2 DEF PacksApart
    <3>6. PacksCommitted'
      <4> DEFINE mine == Committed.players
      <4> SUFFICES ASSUME PacksShown(mine, Committed.Cards, players, Fsm.Cards)
                   PROVE  PacksShown(mine, Committed.Cards, new, Fsm.Cards)
        BY <1>c, <2>2, <2>6 DEF PacksCommitted, players, new
      <4> HIDE DEF mine
      <4>1. Held(mine[id].Cards) = {}
        BY <3>1, <3>4 DEF PacksShown
      <4>2. \A p \in Listed : Held(mine[p].Cards) \subseteq Held(new[p].Cards)
        BY <1>c, <3>2, <4>1 DEF PacksShown
      <4>3. \A p \in Real(new) : Held(mine[0].Cards) \cap Held(new[p].Cards) = {}
        <5>1. \A p \in Real(players) : p \in Listed
          BY DEF Real
        <5> QED BY <3>3, <3>4, <5>1 DEF PacksShown
      <4> QED BY <3>4, <4>2, <4>3 DEF PacksShown
    <3>7. NewIds'
      <4>1. ASSUME NEW p \in Op, ops'[p].pc \in Running, ops'[p].cmd.Op = "create_player"
            PROVE  FALSE
        <5>1. Working(p, "create_player") /\ p # w
          BY <1>f, <2>3, <4>1
        <5>2. Working(w, "create_player")
          BY <2>1, <2>2, <3>1 DEF Working, Running
        <5> QED BY <1>b, <5>1, <5>2 DEF OneEach, OwnSubject
      <4> QED BY <4>1 DEF NewIds, Working
    <3>8. PacksRead'
      <4>1. ASSUME NEW p \in Op, ops'[p].pc \in Running, ops'[p].cmd.Op = "open_pack"
            PROVE  /\ ops'[p].player # 0
                   /\ ops'[p].pc # "called" => PackRead(ops'[p], new, Fsm.Cards)
        <5>1. /\ Working(p, "open_pack") /\ ops[p].pc = ops'[p].pc
              /\ ops'[p].cmd = ops[p].cmd /\ ops'[p].player = ops[p].player
              /\ ops[p].cmd.PlayerID \in PlayerId
          BY <1>d, <1>f, <2>3, <4>1 DEF Working, Command
        <5>2. ops[p].player # 0 /\ (ops[p].pc # "called" => PackRead(ops[p], players, Fsm.Cards))
          BY <1>c, <5>1 DEF PacksRead, players
        <5>3. ASSUME PackRead(ops[p], players, Fsm.Cards) PROVE PackRead(ops[p], new, Fsm.Cards)
          <6> DEFINE own == ops[p].cmd.PlayerID
                     cards == ops[p].cmd.PlayerCards
          <6>1. own # 0 => new[own] = players[own]
            <7>1. own # 0 => players[own].Id = own
              BY <5>3 DEF PackRead
            <7>2. own = id => own = 0
              BY <3>2, <7>1
            <7> QED BY <3>2, <5>1, <7>2
          <6>2. own = 0 => \A q \in Real(new) : Held(cards) \cap Held(new[q].Cards) = {}
            <7>1. \A q \in Real(players) : q \in Listed
              BY DEF Real
            <7>2. own = 0 => \A q \in Real(players) : Held(cards) \cap Held(players[q].Cards) = {}
              BY <5>3 DEF PackRead
            <7> HIDE DEF own, cards
            <7> QED BY <3>3, <3>4, <7>1, <7>2
          <6> QED BY <5>3, <6>1, <6>2 DEF PackRead
        <5>4. PackRead(ops'[p], new, Fsm.Cards) <=> PackRead(ops[p], new, Fsm.Cards)
          BY <5>1 DEF PackRead
        <5> QED BY <5>1, <5>2, <5>3, <5>4
      <4> QED BY <2>6, <4>1 DEF PacksRead, Working, new
    <3> QED BY <1>a, <2>6, <3>5, <3>6, <3>7, <3>8 DEF PackInv, new
  <2> QED BY <2>8, <2>9
<1>9. ASSUME Commits PROVE PackInv'
  <2> DEFINE c == log[commitIndex + 1]
             id == c.PlayerID
             mine == Committed.players
             new == Committed'.players
  <2>1. /\ UNCHANGED <<log, fsm, ops>> /\ Fsm' = Fsm /\ commitIndex' = commitIndex + 1
        /\ commitIndex < Len(log)
    BY <1>9, <1>a DEF Commits, Fsm
  <2>2. /\ c \in Command /\ new = PlayersAfter(Committed, c)
        /\ Committed'.Cards = CardsAfter(Committed, c)
    BY <1>9, <1>a, CommitsFacts DEF ApplyCommand
  <2>3. PICK w \in Op : ops[w].pc = "waiting" /\ ops[w].cmd = c
    <3>1. applied[leader] \in Nat /\ applied[leader] <= commitIndex
      BY <1>a, SoloTypes
    <3>2. commitIndex + 1 \in applied[leader] + 1 .. Len(log)
      BY <1>b, <2>1, <3>1
    <3>3. PICK w \in Op : ops[w].pc = "waiting" /\ ops[w].index = commitIndex + 1
      BY <1>a, <3>2 DEF SoloInv, Awaited
    <3> QED BY <1>b, <3>3 DEF WaitingPlaced, Placed
  <2>4. NewIds' /\ PacksRead'
    BY <1>c, <2>1 DEF NewIds, PacksRead, Working
  <2>5. /\ c.Op = "create_player" => c.PlayerCards = <<>>
        /\ c.Op = "open_pack" => PackRead(ops[w], Fsm.players, Fsm.Cards)
    BY <1>c, <2>3 DEF NewIds, NewId, PacksRead, Working, Running
  <2>6. id \in PlayerId /\ mine \in [PlayerId -> Player]
    BY <1>b, <2>2, PackTypes DEF Command
  <2>7. DeckKept(log, commitIndex + 1) =>
          DeckKept(log, commitIndex) /\ (c.Op = "open_pack" => c.Cards # <<>>)
    BY <1>b DEF DeckKept
  <2> HIDE DEF c, id, mine, new
  <2>8. ASSUME PacksShown(mine, Committed.Cards, Fsm.players, Fsm.Cards),
               c.Op = "open_pack" => c.Cards # <<>>
        PROVE  PacksShown(new, Committed'.Cards, Fsm.players, Fsm.Cards)
    <3>1. CASE c.Op \notin {"create_player", "open_pack"}
      BY <2>2, <2>8, <3>1 DEF PlayersAfter, CardsAfter, mine
    <3>2. CASE c.Op = "create_player"
      <4>1. Committed'.Cards = Committed.Cards
        BY <2>2, <3>2 DEF CardsAfter
      <4>2. new = [mine EXCEPT ![id] = [Id |-> id, Cards |-> <<>>]]
        BY <2>2, <2>5, <3>2 DEF PlayersAfter, mine, id
      <4>3. \A p \in PlayerId : new[p].Cards = mine[p].Cards \/ new[p].Cards = <<>>
        BY <2>6, <4>2
      <4>4. \A p \in PlayerId : /\ Held(new[p].Cards) \subseteq Held(mine[p].Cards)
                                /\ Once(mine[p].Cards) => Once(new[p].Cards)
        BY <4>3, HeldEmpty
      <4> QED BY <1>c, <2>8, <4>1, <4>4 DEF PacksShown
    <3>3. CASE c.Op = "open_pack"
      <4> DEFINE cards == c.PlayerCards
                 players == Fsm.players
                 deck == Fsm.Cards
      <4>1. /\ Committed'.Cards = deck
            /\ Once(cards) /\ Held(cards) \cap Held(deck) = {}
            /\ id # 0 => players[id] = [Id |-> id, Cards |-> cards]
            /\ id = 0 => \A q \in Real(players) : Held(cards) \cap Held(players[q].Cards) = {}
        BY <2>2, <2>3, <2>5, <2>8, <3>3 DEF PackRead, CardsAfter, id
      <4>2. new = [mine EXCEPT ![id] = [Id |-> id, Cards |-> cards]]
        BY <2>2, <3>3 DEF PlayersAfter, mine, id
      <4> HIDE DEF cards, players, deck
      <4>3. new[id].Cards = cards /\ \A p \in PlayerId : p # id => new[p].Cards = mine[p].Cards
        BY <2>6, <4>2
      <4>4. id # 0 => id \in Real(players) /\ players[id].Cards = cards /\ id \in Listed
        BY <2>6, <4>1 DEF Real, Listed
      <4>5. PacksApart(players, deck) /\ PacksShown(mine, Committed.Cards, players, deck)
        BY <1>c, <2>8 DEF players, deck
      <4>6. \A p \in Listed : Held(players[p].Cards) \cap Held(deck) = {}
        BY <4>5 DEF PacksApart
      <4>7. \A p \in Listed : /\ Held(new[p].Cards) \subseteq Held(players[p].Cards)
                              /\ Held(new[p].Cards) # {} => p \in Real(players)
        BY <1>c, <4>3, <4>4, <4>5 DEF PacksShown
      <4>8. /\ Held(new[0].Cards) \cap Held(deck) = {}
            /\ \A p \in Real(players) : Held(new[0].Cards) \cap Held(players[p].Cards) = {}
        BY <1>c, <4>1, <4>3, <4>5 DEF PacksShown
      <4>9. \A p \in PlayerId : Once(new[p].Cards)
        BY <4>1, <4>3, <4>5 DEF PacksShown
      <4>10. \A p \in PlayerId : Held(new[p].Cards) \cap Held(deck) = {}
        <5>1. \A p \in PlayerId : p = 0 \/ p \in Listed
          BY DEF Listed
        <5> QED BY <4>6, <4>7, <4>8, <5>1
      <4>11. PacksShown(new, deck, players, deck)
        BY <4>7, <4>8, <4>9, <4>10 DEF PacksShown
      <4> QED BY <4>1, <4>11 DEF players, deck
    <3> QED BY <3>1, <3>2, <3>3
  <2>9. PacksCommitted'
    BY <1>c, <2>1, <2>7, <2>8 DEF PacksCommitted, mine, new
  <2> QED BY <1>a, <1>c, <2>1, <2>4, <2>9 DEF PackInv
<1> QED
  BY <1>a, <1>1, <1>2, <1>3, <1>4, <1>5, <1>6, <1>7, <1>8, <1>9 DEF SoloStep


LEMMA PackInvImplies == PackInv /\ Single => PackOnce
<1> DEFINE mine == Committed.players
           deck == Committed.Cards
           opened == {x \in PlayerId \X (1 .. NumPacks) : x[2] <= Len(mine[x[1]].Cards)}
           packOf(x) == mine[x[1]].Cards[x[2]]
<1> SUFFICES ASSUME PackInv, Single, DeckKept(log, commitIndex)
             PROVE  /\ \A x, y \in opened : x # y => packOf(x) # packOf(y)
                    /\ \A x \in opened : \A i \in 1 .. Len(deck) : packOf(x) # deck[i]
  BY DEF PackOnce, DeckKept
<1>1. /\ PacksApart(Fsm.players, Fsm.Cards)
      /\ PacksShown(mine, deck, Fsm.players, Fsm.Cards)
  BY DEF PackInv, PacksCommitted
<1>2. \A p \in PlayerId : mine[p].Cards \in Seq(Pack)
  BY SoloTypes, PackTypes DEF PackInv, CounterInv
<1> HIDE DEF mine, deck
<1>3. ASSUME NEW x \in opened
      PROVE  /\ x = <<x[1], x[2]>> /\ x[1] \in PlayerId /\ x[2] \in 1 .. Len(mine[x[1]].Cards)
             /\ packOf(x) \in Held(mine[x[1]].Cards)
  <2>1. /\ x = <<x[1], x[2]>> /\ x[1] \in PlayerId /\ x[2] \in 1 .. NumPacks
        /\ x[2] <= Len(mine[x[1]].Cards)
    BY <1>3
  <2>2. Len(mine[x[1]].Cards) \in Nat
    BY <1>2, <2>1
  <2>3. x[2] \in 1 .. Len(mine[x[1]].Cards)
    BY <2>1, <2>2, StoreAssumption
  <2> QED BY <2>1, <2>3 DEF Held
<1> HIDE DEF opened
<1>4. ASSUME NEW p \in PlayerId, NEW q \in PlayerId, p # q
      PROVE  Held(mine[p].Cards) \cap Held(mine[q].Cards) = {}
  <2>1. \A r \in PlayerId : r = 0 \/ r \in Listed
    BY DEF Listed
  <2>2. CASE p \in Listed /\ q \in Listed
    <3>1. Held(Fsm.players[p].Cards) \cap Held(Fsm.players[q].Cards) = {}
      BY <1>1, <1>4, <2>2 DEF PacksApart
    <3>2. /\ Held(mine[p].Cards) \subseteq Held(Fsm.players[p].Cards)
          /\ Held(mine[q].Cards) \subseteq Held(Fsm.players[q].Cards)
      BY <1>1, <2>2 DEF PacksShown
    <3> QED BY <3>1, <3>2
  <2>3. ASSUME NEW r \in Listed
        PROVE  Held(mine[0].Cards) \cap Held(mine[r].Cards) = {}
    <3>1. /\ Held(mine[r].Cards) \subseteq Held(Fsm.players[r].Cards)
          /\ Held(mine[r].Cards) # {} => r \in Real(Fsm.players)
      BY <1>1, <2>3 DEF PacksShown
    <3>2. r \in Real(Fsm.players) =>
            Held(mine[0].Cards) \cap Held(Fsm.players[r].Cards) = {}
      BY <1>1 DEF PacksShown
    <3> QED BY <3>1, <3>2
  <2> QED BY <1>4, <2>1, <2>2, <2>3
<1>5. ASSUME NEW x \in opened, NEW y \in opened, x # y PROVE packOf(x) # packOf(y)
  <2>1. CASE x[1] = y[1]
    <3>1. x[2] # y[2]
      BY <1>3, <1>5, <2>1
    <3>2. Once(mine[x[1]].Cards)
      BY <1>1, <1>3 DEF PacksShown
    <3> QED BY <1>3, <2>1, <3>1, <3>2 DEF Once
  <2>2. CASE x[1] # y[1]
    BY <1>3, <1>4, <2>2
  <2> QED BY <2>1, <2>2
<1>6. ASSUME NEW x \in opened, NEW i \in 1 .. Len(deck) PROVE packOf(x) # deck[i]
  <2>1. Held(mine[x[1]].Cards) \cap Held(deck) = {}
    BY <1>1, <1>3 DEF PacksShown
  <2>2. deck[i] \in Held(deck)
    BY DEF Held
  <2> QED BY <1>3, <2>1, <2>2
<1> QED BY <1>5, <1>6

PackFirst ==
  /\ TypeOK
  /\ elections = 0 => IF leader = NoNode THEN PackOnce ELSE PackInv

LEMMA PackFirstStep == Single /\ PackFirst /\ [Next]_vars => PackFirst'
<1> SUFFICES ASSUME Single, PackFirst, [Next]_vars PROVE PackFirst'
  OBVIOUS
<1>1. TypeOK /\ TypeOK'
  BY TypeStep DEF PackFirst
<1>2. ASSUME elections' = 0, leader' # NoNode PROVE PackInv'
  <2>1. PackInv
    BY <1>1, <1>2, FirstTerm DEF PackFirst
  <2> QED BY <1>2, <2>1, PackStep
<1>3. ASSUME elections' = 0, leader' = NoNode PROVE PackOnce'
  <2>1. PackOnce
    BY <1>1, <1>3, FirstTerm, PackInvImplies DEF PackFirst
  <2>2. Committed' = Committed /\ UNCHANGED <<log, commitIndex>>
    BY <1>1, <1>3, Leaderless DEF Committed
  <2> QED BY <2>1, <2>2 DEF PackOnce
<1> QED BY <1>1, <1>2, <1>3 DEF PackFirst

\* Until it is elected again, a server alone hands out every pack once, as long as
\* no opening has emptied the deck.
THEOREM PackOnceCorrect == Single => (Spec => [](elections = 0 => PackOnce))
<1> SUFFICES ASSUME Single PROVE Spec => [](elections = 0 => PackOnce)
  OBVIOUS
<1>1. Init => PackFirst
  BY PackInit, TypeInit, FirstLeads DEF PackFirst
<1>2. PackFirst /\ [Next]_vars => PackFirst'
  BY PackFirstStep
<1>3. PackFirst => (elections = 0 => PackOnce)
  BY PackInvImplies DEF PackFirst
<1> QED
  BY <1>1, <1>2, <1>3, PTL DEF Spec

-----------------------------------------------------------------------------
(* The queue: the proof of NoJoinLost.                                      *)

\* The callback of topic.findMatch runs o.
Matching(o) ==
  /\ ops[o].pc \in Running \cup {"joined"}
  /\ Subject(ops[o].cmd.Op) = "join_game_queue"

OneCallback ==
  /\ \A o, p \in Op : Matching(o) /\ Matching(p) => o = p
  /\ \A o \in Op : /\ Matching(o) => ops[o].from \in Node
                   /\ ops[o].pc = "joined" => Matching(o)

\* The command of a match carries what the queue still begins with.
FirstTwo(cmd, queue) ==
  /\ Len(queue) >= 2
  /\ cmd.GameId.P1 = queue[1] /\ cmd.GameId.P2 = queue[2]
  /\ cmd.GameQueue = NewQueue(queue)

MatchRead ==
  \A o \in Op :
    Working(o, "create_game") /\ ops[o].pc # "called" =>
      FirstTwo(ops[o].cmd, Fsm.gameQueue)

\* The committed queue differs from the server's by the one command that the
\* server has still to apply.
Due(o) == ops[o].pc = "waiting" /\ Matching(o) /\ ops[o].index <= commitIndex

QueueCommitted ==
  /\ \A o \in Op : Due(o) => Committed.gameQueue = GameQueueAfter(Fsm, ops[o].cmd)
  /\ (\A o \in Op : ~Due(o)) => Committed.gameQueue = Fsm.gameQueue

QueueInv ==
  SoloInv /\ OneCallback /\ MatchRead /\ QueueCommitted /\ NoJoinLost

-----------------------------------------------------------------------------
LEMMA NumberFacts ==
  ASSUME NEW l, NEW kind, NEW n \in Nat
  PROVE  /\ NumberOf(l, kind, n) \in Nat
         /\ NumberOf(l, kind, 0) = 0
         /\ l[n + 1].Op = kind => NumberOf(l, kind, n + 1) = NumberOf(l, kind, n) + 1
         /\ l[n + 1].Op # kind => NumberOf(l, kind, n + 1) = NumberOf(l, kind, n)
<1> DEFINE places(k) == {i \in 1 .. k : l[i].Op = kind}
<1>1. IsFiniteSet(places(n))
  <2>1. IsFiniteSet(1 .. n) /\ places(n) \subseteq 1 .. n
    BY FS_Interval
  <2> HIDE DEF places
  <2> QED BY <2>1, FS_Subset
<1>2. places(0) = {}
  OBVIOUS
<1>3. IF l[n + 1].Op = kind THEN /\ places(n + 1) = places(n) \cup {n + 1}
                                 /\ n + 1 \notin places(n)
                           ELSE places(n + 1) = places(n)
  <2>1. \A i : i \in 1 .. n + 1 <=> i \in 1 .. n \/ i = n + 1
    OBVIOUS
  <2>2. n + 1 \notin 1 .. n
    OBVIOUS
  <2> QED BY <2>1, <2>2
<1>n. \A k : NumberOf(l, kind, k) = Cardinality(places(k))
  BY DEF NumberOf
<1> HIDE DEF places
<1>4. Cardinality(places(n)) \in Nat /\ Cardinality(places(0)) = 0
  BY <1>1, <1>2, FS_CardinalityType, FS_EmptySet
<1>5. l[n + 1].Op = kind => Cardinality(places(n + 1)) = Cardinality(places(n)) + 1
  BY <1>1, <1>3, FS_AddElement
<1>6. l[n + 1].Op # kind => Cardinality(places(n + 1)) = Cardinality(places(n))
  BY <1>3
<1> QED BY <1>n, <1>4, <1>5, <1>6

LEMMA NumberGrows ==
  ASSUME NEW l, NEW kind, NEW n \in Nat, NEW m \in 0 .. n
  PROVE  NumberOf(l, kind, m) <= NumberOf(l, kind, n)
<1> DEFINE places(k) == {i \in 1 .. k : l[i].Op = kind}
<1>1. IsFiniteSet(1 .. n) /\ places(n) \subseteq 1 .. n
  BY FS_Interval
<1>2. places(m) \subseteq places(n)
  OBVIOUS
<1> HIDE DEF places
<1>3. IsFiniteSet(places(n))
  BY <1>1, FS_Subset
<1>4. Cardinality(places(m)) <= Cardinality(places(n))
  BY <1>2, <1>3, FS_Subset
<1> QED BY <1>4 DEF NumberOf, places

SameFirst(l, k, n) == \A i \in 1 .. n : k[i] = l[i]

LEMMA NumberSame ==
  ASSUME NEW l, NEW k, NEW kind, NEW n \in Nat, NEW m \in 0 .. n, SameFirst(l, k, n)
  PROVE  NumberOf(k, kind, m) = NumberOf(l, kind, m)
<1>1. \A i \in 1 .. m : k[i] = l[i]
  BY DEF SameFirst
<1>2. {i \in 1 .. m : k[i].Op = kind} = {i \in 1 .. m : l[i].Op = kind}
  BY <1>1
<1> QED BY <1>2 DEF NumberOf

\* What NoJoinLost says of the first n commands of a log and a queue.
InOrder(l, n, queue, j) ==
  LET matched == 2 * NumberOf(l, "create_game", n)
      k == NumberOf(l, "join_game_queue", j)
  IN l[j].Op = "join_game_queue" =>
       /\ k > matched => queue[k - matched] = l[j].PlayerID
       /\ \A g \in 1 .. n :
            l[g].Op = "create_game" =>
              /\ k = 2 * NumberOf(l, "create_game", g) - 1 => l[g].GameId.P1 = l[j].PlayerID
              /\ k = 2 * NumberOf(l, "create_game", g) => l[g].GameId.P2 = l[j].PlayerID

Served(l, n, queue) ==
  /\ NumberOf(l, "join_game_queue", n) = 2 * NumberOf(l, "create_game", n) + Len(queue)
  /\ \A j \in 1 .. n : InOrder(l, n, queue, j)

LEMMA ServedSame ==
  ASSUME NEW l, NEW k, NEW n \in Nat, NEW queue, SameFirst(l, k, n),
         Served(l, n, queue)
  PROVE  Served(k, n, queue)
<1>1. ASSUME NEW kind, NEW m \in 0 .. n PROVE NumberOf(k, kind, m) = NumberOf(l, kind, m)
  BY NumberSame
<1>2. \A kind : \A m \in 0 .. n : NumberOf(k, kind, m) = NumberOf(l, kind, m)
  BY <1>1
<1>3. n \in 0 .. n /\ \A i \in 1 .. n : i \in 0 .. n
  OBVIOUS
<1>4. ASSUME NEW j \in 1 .. n PROVE InOrder(k, n, queue, j)
  <2>1. InOrder(l, n, queue, j)
    BY <1>4 DEF Served
  <2> QED BY <1>2, <1>3, <2>1 DEF InOrder, SameFirst
<1> QED BY <1>2, <1>3, <1>4 DEF Served

LEMMA ServedStep ==
  ASSUME NEW l, NEW n \in Nat, NEW s, s.gameQueue \in Seq(PlayerId),
         NEW c, c = l[n + 1], Served(l, n, s.gameQueue),
         c.Op = "create_game" => FirstTwo(c, s.gameQueue)
  PROVE  Served(l, n + 1, GameQueueAfter(s, c))
<1> DEFINE Joins(i) == NumberOf(l, "join_game_queue", i)
           Games(i) == NumberOf(l, "create_game", i)
           queue == s.gameQueue
           after == GameQueueAfter(s, c)
<1>1. /\ \A i \in 0 .. n + 1 : Joins(i) \in Nat /\ Games(i) \in Nat
      /\ \A i \in 0 .. n : Joins(i) <= Joins(n) /\ Games(i) <= Games(n)
      /\ Joins(n + 1) = Joins(n) + (IF c.Op = "join_game_queue" THEN 1 ELSE 0)
      /\ Games(n + 1) = Games(n) + (IF c.Op = "create_game" THEN 1 ELSE 0)
  <2>1. ASSUME NEW i \in 0 .. n + 1 PROVE Joins(i) \in Nat /\ Games(i) \in Nat
    BY NumberFacts
  <2>2. ASSUME NEW i \in 0 .. n PROVE Joins(i) <= Joins(n) /\ Games(i) <= Games(n)
    BY NumberGrows
  <2>3. ASSUME NEW kind
        PROVE  /\ c.Op = kind => NumberOf(l, kind, n + 1) = NumberOf(l, kind, n) + 1
               /\ c.Op # kind => NumberOf(l, kind, n + 1) = NumberOf(l, kind, n)
    BY NumberFacts
  <2> QED BY <2>1, <2>2, <2>3
<1>2. Joins(n) = 2 * Games(n) + Len(queue) /\ Len(queue) \in Nat
  BY DEF Served
<1>3. \A j \in 1 .. n :
        l[j].Op = "join_game_queue" =>
          /\ Joins(j) > 2 * Games(n) => queue[Joins(j) - 2 * Games(n)] = l[j].PlayerID
          /\ \A g \in 1 .. n :
               l[g].Op = "create_game" =>
                 /\ Joins(j) = 2 * Games(g) - 1 => l[g].GameId.P1 = l[j].PlayerID
                 /\ Joins(j) = 2 * Games(g) => l[g].GameId.P2 = l[j].PlayerID
  BY DEF Served, InOrder
<1>4. /\ n + 1 \in Nat /\ n \in 0 .. n /\ n + 1 \in 0 .. n + 1
      /\ \A i \in 1 .. n : i \in 0 .. n /\ i \in 0 .. n + 1
      /\ \A i \in 1 .. n + 1 : i \in 1 .. n \/ i = n + 1
  OBVIOUS
<1>n. Joins(n) \in Nat /\ Games(n) \in Nat /\ Joins(n + 1) \in Nat /\ Games(n + 1) \in Nat
  BY <1>1, <1>4
<1>i. \A i \in 1 .. n : /\ Joins(i) \in Nat /\ Games(i) \in Nat
                        /\ Joins(i) <= Joins(n) /\ Games(i) <= Games(n)
  BY <1>1, <1>4
<1> SUFFICES /\ Joins(n + 1) = 2 * Games(n + 1) + Len(after)
             /\ \A j \in 1 .. n + 1 :
                  l[j].Op = "join_game_queue" =>
                    /\ Joins(j) > 2 * Games(n + 1) =>
                         after[Joins(j) - 2 * Games(n + 1)] = l[j].PlayerID
                    /\ \A g \in 1 .. n + 1 :
                         l[g].Op = "create_game" =>
                           /\ Joins(j) = 2 * Games(g) - 1 => l[g].GameId.P1 = l[j].PlayerID
                           /\ Joins(j) = 2 * Games(g) => l[g].GameId.P2 = l[j].PlayerID
  BY DEF Served, InOrder
<1> HIDE DEF Joins, Games, after
<1>5. CASE c.Op = "join_game_queue"
  <2>1. after = Append(queue, c.PlayerID)
    BY <1>5 DEF GameQueueAfter, after
  <2>2. /\ Len(after) = Len(queue) + 1 /\ after[Len(queue) + 1] = c.PlayerID
        /\ \A i \in 1 .. Len(queue) : after[i] = queue[i]
    BY <2>1
  <2>3. Joins(n + 1) = Joins(n) + 1 /\ Games(n + 1) = Games(n)
    BY <1>1, <1>5
  <2>4. ASSUME NEW j \in 1 .. n, l[j].Op = "join_game_queue", Joins(j) > 2 * Games(n)
        PROVE  after[Joins(j) - 2 * Games(n)] = l[j].PlayerID
    <3>1. Joins(j) - 2 * Games(n) \in 1 .. Len(queue)
      <4>1. Joins(j) \in Nat /\ Joins(j) <= Joins(n)
        BY <1>i
      <4> QED BY <1>2, <1>n, <2>4, <4>1
    <3> QED BY <1>3, <2>2, <2>4, <3>1
  <2>5. after[Joins(n + 1) - 2 * Games(n)] = c.PlayerID
    <3>1. Joins(n + 1) - 2 * Games(n) = Len(queue) + 1
      BY <1>2, <1>n, <2>3
    <3> QED BY <2>2, <3>1
  <2>6. ASSUME NEW g \in 1 .. n PROVE Joins(n + 1) > 2 * Games(g)
    <3>1. Games(g) \in Nat /\ Games(g) <= Games(n)
      BY <1>i
    <3> QED BY <1>2, <1>n, <2>3, <3>1
  <2>7. \A g \in 1 .. n + 1 : l[g].Op = "create_game" => g \in 1 .. n
    BY <1>4, <1>5
  <2>8. ASSUME NEW g \in 1 .. n
        PROVE  Joins(n + 1) # 2 * Games(g) /\ Joins(n + 1) # 2 * Games(g) - 1
    <3>1. Games(g) \in Nat
      BY <1>i
    <3> QED BY <1>n, <2>6, <3>1
  <2>9. Joins(n + 1) = 2 * Games(n + 1) + Len(after)
    BY <1>2, <1>n, <2>2, <2>3
  <2>10. ASSUME NEW j \in 1 .. n + 1, l[j].Op = "join_game_queue"
         PROVE  /\ Joins(j) > 2 * Games(n + 1) =>
                     after[Joins(j) - 2 * Games(n + 1)] = l[j].PlayerID
                /\ \A g \in 1 .. n + 1 :
                     l[g].Op = "create_game" =>
                       /\ Joins(j) = 2 * Games(g) - 1 => l[g].GameId.P1 = l[j].PlayerID
                       /\ Joins(j) = 2 * Games(g) => l[g].GameId.P2 = l[j].PlayerID
    <3>1. CASE j \in 1 .. n
      BY <1>3, <2>3, <2>4, <2>7, <2>10, <3>1
    <3>2. CASE j = n + 1
      BY <2>3, <2>5, <2>7, <2>8, <3>2
    <3> QED BY <1>4, <3>1, <3>2
  <2> QED BY <2>9, <2>10
<1>6. CASE c.Op = "create_game"
  <2>1. /\ after = NewQueue(queue) /\ Len(queue) >= 2
        /\ c.GameId.P1 = queue[1] /\ c.GameId.P2 = queue[2]
    BY <1>6 DEF GameQueueAfter, after, FirstTwo
  <2>2. /\ Len(after) = Len(queue) - 2
        /\ \A i \in 1 .. Len(after) : after[i] = queue[i + 2]
    BY <1>2, <2>1 DEF NewQueue
  <2>3. Joins(n + 1) = Joins(n) /\ Games(n + 1) = Games(n) + 1
    BY <1>1, <1>6
  <2>4. \A j \in 1 .. n + 1 : l[j].Op = "join_game_queue" => j \in 1 .. n
    BY <1>4, <1>6
  <2>5. ASSUME NEW j \in 1 .. n, l[j].Op = "join_game_queue",
               Joins(j) > 2 * Games(n + 1)
        PROVE  after[Joins(j) - 2 * Games(n + 1)] = l[j].PlayerID
    <3> DEFINE i == Joins(j) - 2 * Games(n + 1)
    <3>1. i \in 1 .. Len(after) /\ i + 2 = Joins(j) - 2 * Games(n) /\ Joins(j) > 2 * Games(n)
      <4>1. Joins(j) \in Nat /\ Joins(j) <= Joins(n)
        BY <1>i
      <4>2. Len(queue) \in Nat /\ Joins(n) = 2 * Games(n) + Len(queue)
        BY <1>2
      <4>3. Joins(j) > 2 * (Games(n) + 1) /\ i = Joins(j) - 2 * (Games(n) + 1)
        BY <2>3, <2>5
      <4> DEFINE join == Joins(j)
                 joins == Joins(n)
                 games == Games(n)
                 waiting == Len(queue)
      <4>4. /\ join \in Nat /\ games \in Nat /\ waiting \in Nat /\ join <= joins
            /\ joins = 2 * games + waiting /\ join > 2 * (games + 1)
            /\ i = join - 2 * (games + 1)
        BY <1>n, <4>1, <4>2, <4>3
      <4> HIDE DEF i, join, joins, games, waiting
      <4>5. i \in 1 .. (waiting - 2) /\ i + 2 = join - 2 * games /\ join > 2 * games
        BY <4>4
      <4> QED BY <2>2, <4>5 DEF join, games, waiting
    <3> HIDE DEF i
    <3>2. after[i] = queue[i + 2]
      BY <2>2, <3>1
    <3>3. after[i] = l[j].PlayerID
      BY <1>3, <2>5, <3>1, <3>2
    <3> QED BY <3>3 DEF i
  <2>6. ASSUME NEW j \in 1 .. n, l[j].Op = "join_game_queue"
        PROVE  /\ Joins(j) = 2 * Games(n + 1) - 1 => c.GameId.P1 = l[j].PlayerID
               /\ Joins(j) = 2 * Games(n + 1) => c.GameId.P2 = l[j].PlayerID
    <3>1. /\ Joins(j) = 2 * Games(n + 1) - 1 =>
               Joins(j) > 2 * Games(n) /\ Joins(j) - 2 * Games(n) = 1
          /\ Joins(j) = 2 * Games(n + 1) =>
               Joins(j) > 2 * Games(n) /\ Joins(j) - 2 * Games(n) = 2
      <4>1. Joins(j) \in Nat
        BY <1>i
      <4> QED BY <1>n, <2>3, <4>1
    <3> QED BY <1>3, <2>1, <2>6, <3>1
  <2>7. Joins(n + 1) = 2 * Games(n + 1) + Len(after)
    BY <1>2, <1>n, <2>1, <2>2, <2>3
  <2> QED BY <1>3, <1>4, <2>4, <2>5, <2>6, <2>7
<1>7. CASE c.Op \notin {"join_game_queue", "create_game"}
  <2>1. after = queue
    BY <1>7 DEF GameQueueAfter, after
  <2>2. Joins(n + 1) = Joins(n) /\ Games(n + 1) = Games(n)
    BY <1>1, <1>4, <1>7
  <2>3. \A j \in 1 .. n + 1 :
          l[j].Op \in {"join_game_queue", "create_game"} => j \in 1 .. n
    BY <1>4, <1>7
  <2> QED BY <1>2, <1>3, <2>1, <2>2, <2>3
<1> QED BY <1>5, <1>6, <1>7

LEMMA NoJoinLostServed == NoJoinLost <=> Served(log, commitIndex, Committed.gameQueue)
BY DEF NoJoinLost, Served, InOrder

LEMMA QueueInit == Init /\ Single => QueueInv
<1> SUFFICES ASSUME Init, Single PROVE QueueInv
  OBVIOUS
<1>1. SoloInv /\ commitIndex = 0 /\ Fsm = Base /\ Committed = Base
  BY SoloInit DEF Init, RaftInit, Fsm, Committed, SoloInv
<1>2. \A o \in Op : ops[o].pc = "idle"
  BY DEF Init, IdleOp
<1>3. OneCallback /\ MatchRead /\ QueueCommitted
  BY <1>1, <1>2 DEF OneCallback, Matching, MatchRead, Working, QueueCommitted, Due, Running
<1>4. Base.gameQueue = <<>>
  BY DEF Base, NewStore
<1>5. NoJoinLost
  <2>1. Served(log, 0, <<>>)
    BY NumberFacts DEF Served
  <2> QED BY <1>1, <1>4, <2>1, NoJoinLostServed
<1> QED BY <1>1, <1>3, <1>5 DEF QueueInv

LEMMA QueueStep ==
  ASSUME QueueInv, Single, leader' # NoNode, [Next]_vars
  PROVE  QueueInv'
<1>a. /\ leader' = leader /\ SoloStep /\ SoloInv /\ SoloInv'
      /\ OneCallback /\ MatchRead /\ QueueCommitted
  BY SoloSteps, SoloKept DEF QueueInv
<1>b. /\ commitIndex \in Nat /\ Len(log) \in Nat /\ commitIndex <= Len(log)
      /\ log \in Seq(Command) /\ OwnPlaces /\ Staged /\ WaitingPlaced
      /\ Fsm \in StoreState /\ Committed \in StoreState
      /\ Fsm.gameQueue \in Seq(PlayerId) /\ Committed.gameQueue \in Seq(PlayerId)
  BY <1>a, SoloTypes DEF SoloInv, AckedInv, StoreState
<1>c. Served(log, commitIndex, Committed.gameQueue)
  BY NoJoinLostServed DEF QueueInv
<1>k. ASSUME NEW o \in Op, Kept(o)
      PROVE  /\ Matching(o)' => Matching(o) /\ ops'[o].pc = ops[o].pc
             /\ Matching(o)' => ops'[o].from = ops[o].from
             /\ ops'[o].cmd = ops[o].cmd
             /\ ops'[o].pc = "waiting" <=> ops[o].pc = "waiting"
             /\ ops'[o].pc = "waiting" => ops'[o].index = ops[o].index
             /\ ops'[o].pc = "joined" => ops[o].pc = "joined"
  BY <1>k DEF Kept, Matching, Running, OpState, InLog
\* Steps of executions that were Matching, or of others, keep the callback's one.
<1>d. ASSUME \A o \in Op : /\ Matching(o)' => Matching(o) /\ ops'[o].from = ops[o].from
                           /\ ops'[o].pc = "joined" => Matching(o)'
      PROVE  OneCallback'
  BY <1>a, <1>d DEF OneCallback
<1>e. ASSUME UNCHANGED <<commitIndex, promised>>, SameFirst(log, log', commitIndex)
      PROVE  NoJoinLost'
  <2>1. Served(log', commitIndex, Committed.gameQueue)
    BY <1>b, <1>c, <1>e, ServedSame
  <2> QED BY <1>e, <2>1 DEF NoJoinLost, Served, InOrder, Committed
<1>f. ASSUME UNCHANGED <<commitIndex, promised>>, Fsm'.gameQueue = Fsm.gameQueue,
             \A o \in Op : /\ Due(o)' => Due(o) /\ ops'[o].cmd = ops[o].cmd
                           /\ Due(o) => Due(o)'
      PROVE  QueueCommitted'
  <2>1. Committed' = Committed
    BY <1>f DEF Committed
  <2>2. ASSUME NEW o \in Op, Due(o)'
        PROVE  Committed'.gameQueue = GameQueueAfter(Fsm', ops'[o].cmd)
    BY <1>a, <1>f, <2>1, <2>2 DEF QueueCommitted, GameQueueAfter
  <2>3. ASSUME \A o \in Op : ~Due(o)' PROVE Committed'.gameQueue = Fsm'.gameQueue
    BY <1>a, <1>f, <2>1, <2>3 DEF QueueCommitted
  <2> QED BY <2>2, <2>3 DEF QueueCommitted
<1>g. ASSUME NEW o \in Op, Kept(o), UNCHANGED commitIndex
      PROVE  (Due(o)' => Due(o) /\ ops'[o].cmd = ops[o].cmd) /\ (Due(o) => Due(o)')
  <2>1. Due(o)' => Due(o)
    BY <1>g, <1>k DEF Due
  <2>2. Due(o) => Due(o)'
    BY <1>g, <1>k DEF Due, Matching, Running
  <2> QED BY <1>g, <1>k, <2>1, <2>2
\* A kept execution has read what the queue still begins with.
<1>h. ASSUME NEW o \in Op, Kept(o), Fsm'.gameQueue = Fsm.gameQueue,
             Working(o, "create_game")', ops'[o].pc # "called"
      PROVE  FirstTwo(ops'[o].cmd, Fsm'.gameQueue)
  BY <1>a, <1>h DEF MatchRead, Working, Kept, Running, OpState
<1>1. ASSUME Ends PROVE QueueInv'
  <2>1. /\ UNCHANGED <<commitIndex, promised, log, fsm>> /\ Fsm' = Fsm
        /\ \A o \in Op : Kept(o)
    BY <1>1, <1>a DEF Ends, Fsm
  <2>2. OneCallback'
    BY <1>a, <1>d, <1>k, <2>1 DEF OneCallback, Matching
  <2>3. MatchRead'
    BY <1>h, <2>1 DEF MatchRead
  <2>4. QueueCommitted'
    BY <1>f, <1>g, <2>1
  <2>5. NoJoinLost'
    BY <1>e, <2>1 DEF SameFirst
  <2> QED BY <1>a, <2>2, <2>3, <2>4, <2>5 DEF QueueInv
<1>2. ASSUME NEW o \in Op, Starts(o) PROVE QueueInv'
  <2>1. /\ UNCHANGED <<commitIndex, promised, log, fsm>> /\ Fsm' = Fsm
        /\ \A p \in Op \ {o} : Kept(p)
        /\ ops[o].pc = "idle" /\ ops'[o].pc \in {"built", "called"}
        /\ ops'[o].pc = "built" => ops'[o].cmd.Op \in AdminKind
    BY <1>2, <1>a DEF Starts, Fsm
  <2>2. ~Matching(o) /\ ~Due(o) /\ ~Due(o)'
    BY <2>1 DEF Matching, Due, Running
  <2>3. Matching(o)' => /\ ops'[o].from \in Node
                        /\ \A p \in Op \ {o} : ~Matching(p)'
    <3> SUFFICES ASSUME Matching(o)'
                 PROVE  /\ ops'[o].from \in Node
                        /\ \A p \in Op \ {o} : ~Matching(p)'
      OBVIOUS
    <3>1. /\ Subject(ops'[o].cmd.Op) = "join_game_queue" /\ ops'[o].from \in Node
          /\ \/ CallbackFree(ops'[o].from, ops'[o].cmd.Op)
             \/ \E q \in Op : ops[q].pc = "joined" /\ ops'[q].pc # "joined"
      BY <1>2, <2>1 DEF Matching, Starts, AdminKind, Subject
    <3>2. CASE CallbackFree(ops'[o].from, ops'[o].cmd.Op)
      <4>1. ASSUME NEW p \in Op, Matching(p) PROVE FALSE
        <5>1. ops[p].from = ops'[o].from
          BY <1>a, <3>1, <4>1 DEF OneCallback, Single
        <5> QED BY <3>1, <3>2, <4>1, <5>1 DEF CallbackFree, Matching
      <4> QED BY <1>k, <2>1, <3>1, <4>1
    <3>3. CASE \E q \in Op : ops[q].pc = "joined" /\ ops'[q].pc # "joined"
      <4>1. PICK q \in Op : ops[q].pc = "joined" /\ ops'[q].pc # "joined"
        BY <3>3
      <4>2. \A p \in Op : Matching(p) => p = q
        BY <1>a, <4>1 DEF OneCallback
      <4>3. \A p \in Op \ {o} : Matching(p)' => ops'[p].pc = ops[p].pc /\ Matching(p)
        BY <1>k, <2>1
      <4> QED BY <3>1, <4>1, <4>2, <4>3
    <3> QED BY <3>1, <3>2, <3>3
  <2>4. \A p \in Op \ {o} : /\ Matching(p)' => Matching(p) /\ ops'[p].from = ops[p].from
                            /\ ops'[p].pc = "joined" => Matching(p)'
    BY <1>a, <1>k, <2>1 DEF OneCallback, Matching
  <2>5. OneCallback'
    <3>1. ASSUME NEW p \in Op, NEW q \in Op, Matching(p)', Matching(q)' PROVE p = q
      BY <1>a, <2>3, <2>4, <3>1 DEF OneCallback
    <3>2. ASSUME NEW p \in Op
          PROVE  /\ Matching(p)' => ops'[p].from \in Node
                 /\ ops'[p].pc = "joined" => Matching(p)'
      BY <1>a, <2>1, <2>3, <2>4, <3>2 DEF OneCallback
    <3> QED BY <3>1, <3>2 DEF OneCallback
  <2>6. MatchRead'
    <3>1. Working(o, "create_game")' => ops'[o].pc = "called"
      BY <2>1 DEF Working, AdminKind
    <3> QED BY <1>h, <2>1, <3>1 DEF MatchRead
  <2>7. QueueCommitted'
    BY <1>f, <1>g, <2>1, <2>2
  <2>8. NoJoinLost'
    BY <1>e, <2>1 DEF SameFirst
  <2> QED BY <1>a, <2>5, <2>6, <2>7, <2>8 DEF QueueInv
\* Steps of one execution up to its place in the log.
<1>m. ASSUME NEW o \in Op, NEW from \in Running, NEW to \in Running, from # "waiting",
             Moves(o, from, to), Fsm'.gameQueue = Fsm.gameQueue,
             SameFirst(log, log', commitIndex),
             to = "waiting" => ops'[o].index > commitIndex,
             ops[o].cmd.Op = "create_game" => FirstTwo(ops'[o].cmd, Fsm.gameQueue)
      PROVE  QueueInv'
  <2>1. /\ UNCHANGED <<commitIndex, promised>> /\ \A p \in Op \ {o} : Kept(p)
        /\ ops[o].pc = from /\ ops'[o].pc = to /\ ops'[o].from = ops[o].from
        /\ ops'[o].cmd.Op = ops[o].cmd.Op
    BY <1>m DEF Moves
  <2>2. Matching(o)' => Matching(o)
    BY <2>1 DEF Matching, Running
  <2>3. OneCallback'
    <3>1. ASSUME NEW p \in Op
          PROVE  /\ Matching(p)' => Matching(p) /\ ops'[p].from = ops[p].from
                 /\ ops'[p].pc = "joined" => Matching(p)'
      <4>1. CASE p = o
        BY <2>1, <2>2, <4>1 DEF Running
      <4>2. CASE p # o
        BY <1>a, <1>k, <2>1, <4>2 DEF OneCallback, Matching
      <4> QED BY <4>1, <4>2
    <3> QED BY <1>d, <3>1
  <2>4. MatchRead'
    BY <1>h, <1>m, <2>1 DEF MatchRead, Working
  <2>5. QueueCommitted'
    <3>1. ~Due(o) /\ ~Due(o)'
      <4>1. ~Due(o)
        BY <1>m, <2>1 DEF Due
      <4>2. ~Due(o)'
        <5>1. to = "waiting" => ~(ops'[o].index <= commitIndex)
          <6>1. SoloInv'
            BY <1>a
          <6>2. ops'[o].pc = "waiting" => ops'[o].index \in Nat
            BY <6>1 DEF SoloInv, AckedInv, WaitingPlaced, Placed
          <6> QED BY <1>b, <1>m, <2>1, <6>2
        <5> QED BY <2>1, <5>1 DEF Due
      <4> QED BY <4>1, <4>2
    <3>2. \A p \in Op : /\ Due(p)' => Due(p) /\ ops'[p].cmd = ops[p].cmd
                        /\ Due(p) => Due(p)'
      BY <1>g, <2>1, <3>1
    <3> QED BY <1>f, <1>m, <2>1, <3>2
  <2>6. NoJoinLost'
    BY <1>e, <1>m, <2>1
  <2> QED BY <1>a, <2>3, <2>4, <2>5, <2>6 DEF QueueInv
<1>n. SameFirst(log, log, commitIndex)
  BY DEF SameFirst
<1>3. ASSUME NEW o \in Op, CountsUp(o) \/ Opens(o) \/ PutsCard(o) PROVE QueueInv'
  <2>1. /\ \E to \in {"mutated", "built"} : Moves(o, "called", to)
        /\ log' = log /\ ops[o].cmd.Op # "create_game"
    BY <1>3 DEF CountsUp, Opens, PutsCard
  <2>2. Fsm'.gameQueue = Fsm.gameQueue
    BY <1>3, <1>b DEF CountsUp, Opens, PutsCard, StoreState
  <2> QED BY <1>m, <1>n, <2>1, <2>2 DEF Running
<1>4. ASSUME NEW o \in Op, Readies(o) PROVE QueueInv'
  <2>1. /\ Moves(o, "called", "built") /\ log' = log /\ Fsm' = Fsm
        /\ ops[o].cmd.Op = "create_game" => FirstTwo(ops'[o].cmd, Fsm.gameQueue)
    BY <1>4, <1>a DEF Readies, Fsm, FirstTwo, NewMatch
  <2> QED BY <1>m, <1>n, <2>1 DEF Running
<1>5. ASSUME NEW o \in Op, Builds(o) PROVE QueueInv'
  <2>1. /\ Moves(o, "mutated", "built") /\ log' = log /\ Fsm' = Fsm
        /\ ops[o].cmd.Op # "create_game"
    BY <1>5, <1>a, <1>b DEF Builds, Moves, Fsm, Staged
  <2> QED BY <1>m, <1>n, <2>1 DEF Running
<1>6. ASSUME NEW o \in Op, Enqueues(o) PROVE QueueInv'
  <2>1. /\ Moves(o, "built", "waiting") /\ Fsm' = Fsm /\ ops'[o].cmd = ops[o].cmd
        /\ ops'[o].index = Len(log) + 1 /\ log' = Append(log, ops[o].cmd)
        /\ ops[o].pc = "built"
    BY <1>6, <1>a DEF Enqueues, Fsm, Moves
  <2>2. SameFirst(log, log', commitIndex)
    BY <1>b, <2>1 DEF SameFirst
  <2>3. ops[o].cmd.Op = "create_game" => FirstTwo(ops'[o].cmd, Fsm.gameQueue)
    BY <1>a, <2>1 DEF MatchRead, Working, Running
  <2>4. ops'[o].index > commitIndex
    BY <1>b, <2>1
  <2> QED BY <1>m, <2>1, <2>2, <2>3, <2>4 DEF Running
<1>7. ASSUME Applies PROVE QueueInv'
  <2> DEFINE c == log[applied[leader] + 1]
  <2>1. PICK w \in Op : Answered(w) /\ ops[w].cmd = c
    BY <1>7, <1>a, AppliesAwaited DEF Applies
  <2>2. /\ UNCHANGED <<commitIndex, promised, log>> /\ Committed' = Committed
        /\ Fsm'.gameQueue = GameQueueAfter(Fsm, c)
        /\ ops[w].pc = "waiting" /\ ops[w].index <= commitIndex
    <3>1. applied[leader] + 1 <= commitIndex
      BY <1>7, <1>a, SoloTypes DEF Applies
    <3>2. UNCHANGED <<commitIndex, promised, log>> /\ Fsm' = ApplyCommand(Fsm, c)
      BY <1>7 DEF Applies
    <3> QED BY <2>1, <3>1, <3>2 DEF ApplyCommand, Answered, Committed
  <2>3. \A p \in Op : Answered(p) => p = w
    BY <1>b, <2>1 DEF OwnPlaces, Answered, InLog
  <2>4. \A p \in Op \ {w} : Kept(p)
    BY <1>7, <2>3 DEF Applies
  <2>5. /\ ops'[w].from = ops[w].from /\ ops'[w].cmd = ops[w].cmd
        /\ ops'[w].pc = "ok" \/ (ops'[w].pc = "joined" /\ c.Op = "join_game_queue")
    BY <1>7, <2>1 DEF Applies, IdleOp
  <2> HIDE DEF c
  <2>6. OneCallback'
    <3>1. ASSUME NEW p \in Op
          PROVE  /\ Matching(p)' => Matching(p) /\ ops'[p].from = ops[p].from
                 /\ ops'[p].pc = "joined" => Matching(p)'
      <4>1. CASE p = w
        BY <2>1, <2>2, <2>5, <4>1 DEF Running, Matching, Subject
      <4>2. CASE p # w
        BY <1>a, <1>k, <2>4, <4>2 DEF OneCallback, Matching
      <4> QED BY <4>1, <4>2
    <3> QED BY <1>d, <3>1
  <2>7. NoJoinLost'
    BY <1>e, <1>n, <2>2
  <2>8. CASE Matching(w)
    <3>1. Due(w)
      BY <2>2, <2>8 DEF Due
    <3>2. Fsm'.gameQueue = Committed'.gameQueue
      BY <1>a, <2>1, <2>2, <3>1 DEF QueueCommitted
    <3>3. \A p \in Op : Matching(p)' => p = w
      BY <1>a, <1>k, <2>4, <2>8 DEF OneCallback
    <3>4. ops'[w].pc \notin Running
      BY <2>5 DEF Running
    <3>5. \A p \in Op : ~Due(p)'
      BY <3>3, <3>4 DEF Due, Running
    <3>6. QueueCommitted'
      BY <3>2, <3>5 DEF QueueCommitted
    <3>7. MatchRead'
      <4>1. \A p \in Op : Working(p, "create_game")' => Matching(p)'
        BY DEF Working, Matching, Subject
      <4>2. ~Working(w, "create_game")'
        BY <3>4 DEF Working
      <4> QED BY <3>3, <4>1, <4>2 DEF MatchRead
    <3> QED BY <1>a, <2>6, <2>7, <3>6, <3>7 DEF QueueInv
  <2>9. CASE ~Matching(w)
    <3>1. Fsm'.gameQueue = Fsm.gameQueue
      BY <2>1, <2>2, <2>9 DEF Matching, Running, Subject, GameQueueAfter
    <3>2. ~Due(w) /\ ~Due(w)'
      BY <2>5, <2>9 DEF Due
    <3>3. QueueCommitted'
      BY <1>f, <1>g, <2>2, <2>4, <3>1, <3>2
    <3>4. MatchRead'
      <4>1. ~Working(w, "create_game")'
        BY <2>5 DEF Working, Running
      <4> QED BY <1>h, <2>4, <3>1, <4>1 DEF MatchRead
    <3> QED BY <1>a, <2>6, <2>7, <3>3, <3>4 DEF QueueInv
  <2> QED BY <2>8, <2>9
<1>8. ASSUME Commits PROVE QueueInv'
  <2> DEFINE c == log[commitIndex + 1]
  <2>1. /\ UNCHANGED <<log, fsm, ops>> /\ Fsm' = Fsm /\ commitIndex' = commitIndex + 1
        /\ commitIndex < Len(log)
    BY <1>8, <1>a DEF Commits, Fsm
  <2>2. /\ c \in Command /\ Committed' = ApplyCommand(Committed, c)
        /\ Committed'.gameQueue = GameQueueAfter(Committed, c)
    BY <1>8, <1>a, CommitsFacts DEF ApplyCommand
  <2>3. PICK w \in Op : /\ ops[w].pc = "waiting" /\ ops[w].cmd = c
                        /\ ops[w].index = commitIndex + 1
    <3>1. applied[leader] \in Nat /\ applied[leader] <= commitIndex
      BY <1>a, SoloTypes
    <3>2. commitIndex + 1 \in applied[leader] + 1 .. Len(log)
      BY <1>b, <2>1, <3>1
    <3>3. PICK w \in Op : ops[w].pc = "waiting" /\ ops[w].index = commitIndex + 1
      BY <1>a, <3>2 DEF SoloInv, Awaited
    <3> QED BY <1>b, <3>3 DEF WaitingPlaced, Placed
  <2> HIDE DEF c
  <2>4. OneCallback' /\ MatchRead'
    BY <1>a, <2>1 DEF OneCallback, Matching, MatchRead, Working
  <2>5. ~Due(w) /\ (Matching(w) => Due(w)')
    BY <1>b, <2>1, <2>3 DEF Due, Matching
  <2>6. ASSUME NEW p \in Op, p # w PROVE Due(p)' <=> Due(p)
    <3>1. ops[p].pc = "waiting" => ops[p].index \in Nat /\ ops[p].index # commitIndex + 1
      BY <1>b, <2>3, <2>6 DEF OwnPlaces, InLog, WaitingPlaced, Placed
    <3> QED BY <1>b, <2>1, <3>1 DEF Due, Matching
  <2>7. c.Op \in {"join_game_queue", "create_game"} <=> Matching(w)
    BY <2>3 DEF Matching, Subject, Running
  <2>8. CASE Matching(w)
    <3>1. \A p \in Op : Due(p) => p = w
      BY <1>a, <2>8 DEF OneCallback, Due
    <3>2. Committed.gameQueue = Fsm.gameQueue
      BY <1>a, <2>5, <3>1 DEF QueueCommitted
    <3>3. QueueCommitted'
      <4>1. \A p \in Op : Due(p)' => p = w
        BY <2>5, <2>6, <3>1
      <4>2. Committed'.gameQueue = GameQueueAfter(Fsm', ops'[w].cmd)
        BY <2>1, <2>2, <2>3, <3>2 DEF GameQueueAfter
      <4> QED BY <2>5, <2>8, <4>1, <4>2 DEF QueueCommitted
    <3>4. c.Op = "create_game" => FirstTwo(c, Committed.gameQueue)
      BY <1>a, <2>3, <3>2 DEF MatchRead, Working, Running
    <3>5. Served(log, commitIndex + 1, Committed'.gameQueue)
      BY <1>b, <1>c, <2>2, <3>4, ServedStep DEF c
    <3>6. NoJoinLost'
      BY <2>1, <3>5 DEF NoJoinLost, Served, InOrder
    <3> QED BY <1>a, <2>4, <3>3, <3>6 DEF QueueInv
  <2>9. CASE ~Matching(w)
    <3>1. Committed'.gameQueue = Committed.gameQueue
      BY <2>2, <2>7, <2>9 DEF GameQueueAfter
    <3>2. ~Due(w)'
      BY <2>1, <2>9 DEF Due, Matching
    <3>3. \A p \in Op : Due(p)' <=> Due(p)
      BY <2>5, <2>6, <3>2
    <3>4. QueueCommitted'
      BY <1>a, <2>1, <3>1, <3>3 DEF QueueCommitted
    <3>5. Served(log, commitIndex + 1, Committed'.gameQueue)
      BY <1>b, <1>c, <2>2, <2>7, <2>9, ServedStep DEF c
    <3>6. NoJoinLost'
      BY <2>1, <3>5 DEF NoJoinLost, Served, InOrder
    <3> QED BY <1>a, <2>4, <3>4, <3>6 DEF QueueInv
  <2> QED BY <2>8, <2>9
<1> QED
  BY <1>a, <1>1, <1>2, <1>3, <1>4, <1>5, <1>6, <1>7, <1>8 DEF SoloStep

QueueFirst ==
  /\ TypeOK
  /\ elections = 0 => IF leader = NoNode THEN NoJoinLost ELSE QueueInv

LEMMA QueueFirstStep == Single /\ QueueFirst /\ [Next]_vars => QueueFirst'
<1> SUFFICES ASSUME Single, QueueFirst, [Next]_vars PROVE QueueFirst'
  OBVIOUS
<1>1. TypeOK /\ TypeOK'
  BY TypeStep DEF QueueFirst
<1>2. ASSUME elections' = 0, leader' # NoNode PROVE QueueInv'
  <2>1. QueueInv
    BY <1>1, <1>2, FirstTerm DEF QueueFirst
  <2> QED BY <1>2, <2>1, QueueStep
<1>3. ASSUME elections' = 0, leader' = NoNode PROVE NoJoinLost'
  <2>1. NoJoinLost
    BY <1>1, <1>3, FirstTerm DEF QueueFirst, QueueInv
  <2>2. Committed' = Committed /\ UNCHANGED <<log, commitIndex>>
    BY <1>1, <1>3, Leaderless DEF Committed
  <2> QED BY <2>1, <2>2 DEF NoJoinLost
<1> QED BY <1>1, <1>2, <1>3 DEF QueueFirst

\* Until it is elected again, a server alone matches the players first come, first
\* served, and uses every join once.
THEOREM NoJoinLostCorrect == Single => (Spec => [](elections = 0 => NoJoinLost))
<1> SUFFICES ASSUME Single PROVE Spec => [](elections = 0 => NoJoinLost)
  OBVIOUS
<1>1. Init => QueueFirst
  BY QueueInit, TypeInit, FirstLeads DEF QueueFirst
<1>2. QueueFirst /\ [Next]_vars => QueueFirst'
  BY QueueFirstStep
<1>3. QueueFirst => (elections = 0 => NoJoinLost)
  BY DEF QueueFirst, QueueInv
<1> QED
  BY <1>1, <1>2, <1>3, PTL DEF Spec
=============================================================================
