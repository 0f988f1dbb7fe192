----------------------------- MODULE GameCluster -----------------------------
(***************************************************************************)
(* The servers of the card game: the Store of every node, the operations   *)
(* of game_logic.go, applyLogInternal, and the NATS callbacks and REST      *)
(* handlers that call them, over one Raft log.                             *)
(*                                                                         *)
(* An operation is one execution of a handler.  Its steps are the pieces    *)
(* of code between two points where other goroutines may run:              *)
(*                                                                         *)
(*   called   the handler saw State() = Leader and calls the operation     *)
(*   mutated  s.mu is released again, shared fields are still to be read   *)
(*   built    the command is in a local variable, about to be marshalled   *)
(*   waiting  raft.Apply accepted it, the handler waits for its future     *)
(*   joined   a join was answered, its callback sleeps before the queue    *)
(*   ok, failed, panicked, lost   the operation is over                    *)
(***************************************************************************)
EXTENDS Store, RaftLog, FiniteSets

CONSTANTS
  Op,           \* executions of handlers: bounds how many there are
  Kinds,        \* the operations the clients ask for
  Accounts,     \* accounts that exist at the start
  FirstMatch,   \* a match between players 1 and 2 at the start, or NoMatch
  MaxRestarts,  \* bound on spontaneous restarts
  Snapshotting  \* the servers that take snapshots

ASSUME ClusterAssumption ==
  /\ Op \subseteq MatchId
  /\ Kinds \subseteq Operation \ {"create_game", "delete"}
  /\ Accounts \in 0 .. MaxPlayers
  /\ FirstMatch \in (MatchId \ Op) \cup {NoMatch}
  /\ FirstMatch # NoMatch => Accounts >= 2
  /\ MaxRestarts \in Nat
  /\ Snapshotting \subseteq Node

VARIABLES
  fsm,          \* fsm[n]: the replicated fields of the Store of node n
  applied,      \* applied[n]: how many commands of the log are in fsm[n]
  stuck,        \* stuck[n]: a handler panicked while it held s.mu of n
  snapshots,    \* snapshots[n]: the last snapshot on the disk of n
  restarts,     \* spontaneous restarts so far
  ops,          \* ops[o]: the state of an execution
  acked,        \* the executions whose command was reported as applied
  promised      \* promised[i + 1]: the state after i committed commands

serverVars == <<fsm, applied, stuck, snapshots, restarts>>
clientVars == <<ops, acked>>
vars == <<raftVars, serverVars, clientVars, promised>>

-----------------------------------------------------------------------------
OpState == {"called", "mutated", "built", "waiting", "joined",
            "ok", "failed", "panicked", "lost"}

\* from is the server whose callback runs; node executes the operation, the
\* same server or, through REST, the leader.  A live command still shares the
\* array of node's deck.
OpRecord ==
  [pc : OpState, from : Node \cup {NoNode}, node : Node,
   player : PlayerId, game : MatchId \cup {NoMatch}, card : Card,
   cmd : Command, index : Nat, live : BOOLEAN]

IdleOp ==
  [pc |-> "idle", from |-> NoNode, node |-> NoNode,
   player |-> 0, game |-> NoMatch, card |-> 0,
   cmd |-> ZeroCommand, index |-> 0, live |-> FALSE]

\* An execution at its next stage, with the command it has by then.
At(op, pc, cmd) == [op EXCEPT !.pc = pc, !.cmd = cmd]

SnapshotRecord == [index : Nat, state : StoreState]

\* The stages in which the client has no answer yet.
Running == {"called", "mutated", "built", "waiting"}

\* The store when the model starts: every server joined, some accounts and at
\* most one match created, all of it applied and snapshotted everywhere.
Base ==
  [NewStore EXCEPT
     !.members = MemberID,
     !.count = Accounts,
     !.players = [p \in PlayerId |-> IF p \in 1 .. Accounts
                                     THEN [Id |-> p, Cards |-> <<>>]
                                     ELSE ZeroPlayer],
     !.matchHistory = [g \in MatchId \cup {NoMatch} |->
                         IF g = FirstMatch /\ g # NoMatch
                         THEN NewMatch(g, 1, 2)
                         ELSE ZeroMatch]]

Init ==
  /\ \E n \in Node : RaftInit(n)
  /\ fsm = [n \in Node |-> Base]
  /\ applied = [n \in Node |-> 0]
  /\ stuck = [n \in Node |-> FALSE]
  /\ snapshots = [n \in Node |-> [index |-> 0, state |-> Base]]
  /\ restarts = 0
  /\ ops = [o \in Op |-> IdleOp]
  /\ acked = {}
  /\ promised = <<Base>>

-----------------------------------------------------------------------------
(* Requests.                                                               *)

\* NATS runs the callback of one subscription one message at a time; joins
\* and the matches they start run in the callback of topic.findMatch.
Subject(kind) == IF kind = "create_game" THEN "join_game_queue" ELSE kind

CallbackFree(n, kind) ==
  \A o \in Op : ops[o].pc \in Running \cup {"joined"} /\ ops[o].from = n =>
                  Subject(ops[o].cmd.Op) # Subject(kind)

\* Players that some server let log in.
KnownPlayer == {p \in PlayerId \ {0} : \E n \in Node : p <= fsm[n].count}

\* Matches whose players were told of them, with the players.
Playing ==
  (IF FirstMatch = NoMatch THEN {} ELSE {<<FirstMatch, 1>>, <<FirstMatch, 2>>})
    \cup UNION {{<<o, ops[o].cmd.GameId.P1>>, <<o, ops[o].cmd.GameId.P2>>} :
                  o \in {a \in acked : ops[a].cmd.Op = "create_game"}}

\* A client plays one card per match; each server handles that one message.
SameCard(g, p, card) ==
  \A o \in Op : ops[o].cmd.Op = "play_cards" /\ ops[o].game = g
                  /\ ops[o].player = p /\ ops[o].pc # "idle" => ops[o].card = card

Argument == [player : PlayerId, game : MatchId \cup {NoMatch}, card : Card]
NoArgument == [player |-> 0, game |-> NoMatch, card |-> 0]

Arguments(kind) ==
  CASE kind = "create_player" -> {NoArgument}
    [] kind = "play_cards" ->
         {a \in Argument : <<a.game, a.player>> \in Playing /\ a.card # 0}
    [] OTHER -> {[NoArgument EXCEPT !.player = p] : p \in KnownPlayer}

\* An execution that begins on node, for a message to server f.
Begin(pc, f, node, a, cmd) ==
  [pc |-> pc, from |-> f, node |-> node,
   player |-> a.player, game |-> a.game, card |-> a.card,
   cmd |-> cmd, index |-> 0, live |-> FALSE]

\* A command of which only the operation is known.
Blank(kind) == [ZeroCommand EXCEPT !.Op = kind]

\* Its handler is about to call the operation.
Called(kind, f, node, a) == Begin("called", f, node, a, Blank(kind))

\* A handler found its server leading: a callback (from = node) or the REST
\* handler that a follower's callback called (from # node).
GameRequest(o, kind) ==
  /\ ops[o].pc = "idle"
  /\ leader # NoNode
  /\ \E f \in Node, a \in Arguments(kind) :
       /\ CallbackFree(f, kind)
       /\ kind = "play_cards" => SameCard(a.game, a.player, a.card)
       /\ ops' = [ops EXCEPT ![o] = Called(kind, f, leader, a)]
  /\ UNCHANGED <<raftVars, serverVars, acked, promised>>

\* The key-value API and the membership changes reach applyLogInternal with
\* their arguments alone, on whatever server was asked.
SetCommand(k, v) == [Blank("set") EXCEPT !.Key = k, !.Value = v]

AdminCommands(kind) ==
  IF kind = "set" THEN {SetCommand(k, v) : k \in Key, v \in Value}
                  ELSE {[Blank(kind) EXCEPT !.MemberID = {m}] : m \in MemberID}

AdminRequest(o, kind) ==
  /\ ops[o].pc = "idle"
  /\ \E n \in Node, c \in AdminCommands(kind) :
       ops' = [ops EXCEPT ![o] = Begin("built", NoNode, n, NoArgument, c)]
  /\ UNCHANGED <<raftVars, serverVars, acked, promised>>

AdminKind == {"set", "add_member", "remove_member"}

Request(o) ==
  \E kind \in Kinds : IF kind \in AdminKind THEN AdminRequest(o, kind)
                                            ELSE GameRequest(o, kind)

-----------------------------------------------------------------------------
(* The operations of game_logic.go, up to their unlock.                    *)

CanLock(o, kind) ==
  /\ ops[o].pc = "called"
  /\ ops[o].cmd.Op = kind
  /\ ~stuck[ops[o].node]

\* Mutation of NextId: the increment of s.count is missing.
NextIdReused(n) == fsm[n].count

NextId(n) == fsm[n].count + 1

\* Mutation of CreatePlayer: the unlock is deferred to the end of the function,
\* so s.mu is held while Apply needs it.
CreatePlayerDeferredUnlock(o) ==
  LET n == ops[o].node
      id == NextId(n)
  IN /\ CanLock(o, "create_player")
     /\ id <= MaxPlayers
     /\ stuck' = [stuck EXCEPT ![n] = TRUE]
     /\ fsm' = [fsm EXCEPT ![n] = [@ EXCEPT !.count = id]]
     /\ ops' = [ops EXCEPT ![o] = At(@, "mutated", [@.cmd EXCEPT !.PlayerID = id])]
     /\ UNCHANGED <<raftVars, applied, snapshots, restarts, acked, promised>>

CreatePlayer(o) ==
  LET n == ops[o].node
      id == NextId(n)
  IN /\ CanLock(o, "create_player")
     /\ id <= MaxPlayers
     /\ fsm' = [fsm EXCEPT ![n] = [@ EXCEPT !.count = id]]
     /\ ops' = [ops EXCEPT ![o] = At(@, "mutated", [@.cmd EXCEPT !.PlayerID = id])]
     /\ UNCHANGED <<raftVars, applied, stuck, snapshots, restarts, acked, promised>>

\* The swap writes into the array that commands being marshalled still share.
SwapSeen(op, n, i) ==
  IF op.live /\ op.node = n /\ i <= Len(op.cmd.Cards)
  THEN At(op, op.pc, [op.cmd EXCEPT !.Cards =
         [op.cmd.Cards EXCEPT ![i] = fsm[n].Cards[Len(fsm[n].Cards)]]])
  ELSE op

\* A player the server does not have is read as the zero Player, and it is
\* player.Id, not the id asked for, that goes into the command.
OpenPack(o) ==
  LET n == ops[o].node
      id == ops[o].player
      player == fsm[n].players[id]
  IN /\ CanLock(o, "open_pack")
     /\ \E i \in 1 .. Len(fsm[n].Cards) :
          LET cards == Append(player.Cards, fsm[n].Cards[i])
          IN /\ fsm' = [fsm EXCEPT ![n] =
                  [@ EXCEPT !.Cards = SwapRemove(fsm[n].Cards, i),
                            !.players = [fsm[n].players EXCEPT ![id] =
                                           [Id |-> player.Id, Cards |-> cards]]]]
             /\ ops' = [p \in Op |->
                  IF p = o
                  THEN At(ops[o], "mutated", [ops[o].cmd EXCEPT !.PlayerID = player.Id,
                                                             !.PlayerCards = cards])
                  ELSE SwapSeen(ops[p], n, i)]
     /\ UNCHANGED <<raftVars, applied, stuck, snapshots, restarts, acked, promised>>

JoinQueue(o) ==
  /\ CanLock(o, "join_game_queue")
  /\ ops' = [ops EXCEPT ![o] = At(@, "built", [@.cmd EXCEPT !.PlayerID = ops[o].player])]
  /\ UNCHANGED <<raftVars, serverVars, acked, promised>>

\* Mutation of NewQueue: s.gameQueue[1:] keeps a player who was matched.
NewQueueKeepsOne(queue) == SubSeq(queue, 2, Len(queue))

\* s.gameQueue[2:]
NewQueue(queue) == SubSeq(queue, 3, Len(queue))

CreateMatch(o) ==
  LET queue == fsm[ops[o].node].gameQueue
  IN /\ CanLock(o, "create_game")
     /\ Len(queue) >= 2
     /\ ops' = [ops EXCEPT ![o] =
          At(@, "built", [@.cmd EXCEPT !.GameId = NewMatch(o, queue[1], queue[2]),
                                       !.GameQueue = NewQueue(queue)])]
     /\ UNCHANGED <<raftVars, serverVars, acked, promised>>

\* Mutation of Played: a new record is written instead of the one that was read.
PlayedAlone(match, p, card) ==
  IF match.P1 = p THEN [match EXCEPT !.Card1 = card, !.Card2 = 0]
                  ELSE [match EXCEPT !.Card2 = card, !.Card1 = 0]

Played(match, p, card) ==
  IF match.P1 = p THEN [match EXCEPT !.Card1 = card] ELSE [match EXCEPT !.Card2 = card]

PlayCard(o) ==
  LET n == ops[o].node
      game == Played(fsm[n].matchHistory[ops[o].game], ops[o].player, ops[o].card)
  IN /\ CanLock(o, "play_cards")
     /\ fsm' = [fsm EXCEPT ![n] = [@ EXCEPT !.matchHistory =
                                     [fsm[n].matchHistory EXCEPT ![ops[o].game] = game]]]
     /\ ops' = [ops EXCEPT ![o] = At(@, "built", [@.cmd EXCEPT !.GameId = game])]
     /\ UNCHANGED <<raftVars, applied, stuck, snapshots, restarts, acked, promised>>

\* rand.Intn(0), or gameQueue[1] of a shorter queue: a panic under s.mu.
Panics(o) ==
  \/ CanLock(o, "open_pack") /\ fsm[ops[o].node].Cards = <<>>
  \/ CanLock(o, "create_game") /\ Len(fsm[ops[o].node].gameQueue) < 2

-----------------------------------------------------------------------------
(* applyLogInternal.                                                       *)

\* Mutation of WithShared: the counter is left out of the command.
WithSharedNoCount(op, s) ==
  IF op.cmd.Op = "create_player" THEN At(op, "built", op.cmd)
  ELSE [At(op, "built", [op.cmd EXCEPT !.Cards = s.Cards]) EXCEPT !.live = TRUE]

\* The shared fields are read after the unlock: s.count as an argument of
\* CreatePlayer's call, the header of s.Cards in applyLogInternal.
WithShared(op, s) ==
  IF op.cmd.Op = "create_player" THEN At(op, "built", [op.cmd EXCEPT !.Count = s.count])
  ELSE [At(op, "built", [op.cmd EXCEPT !.Cards = s.Cards]) EXCEPT !.live = TRUE]

BuildCommand(o) ==
  /\ ops[o].pc = "mutated"
  /\ leader = ops[o].node
  /\ ops' = [ops EXCEPT ![o] = WithShared(@, fsm[leader])]
  /\ UNCHANGED <<raftVars, serverVars, acked, promised>>

\* Mutation of Enqueue: the answer does not wait for the future.
EnqueueWithoutWaiting(o) ==
  /\ ops[o].pc = "built"
  /\ leader = ops[o].node
  /\ RaftPropose(ops[o].cmd)
  /\ ops' = [ops EXCEPT ![o] = [@ EXCEPT !.pc = "ok", !.live = FALSE,
                                         !.index = Len(log) + 1]]
  /\ acked' = acked \cup {o}
  /\ UNCHANGED <<serverVars, promised>>

Enqueue(o) ==
  /\ ops[o].pc = "built"
  /\ leader = ops[o].node
  /\ RaftPropose(ops[o].cmd)
  /\ ops' = [ops EXCEPT ![o] = [@ EXCEPT !.pc = "waiting", !.live = FALSE,
                                         !.index = Len(log) + 1]]
  /\ UNCHANGED <<serverVars, acked, promised>>

\* The handler got an error.  The callback of a follower cannot tell: a join
\* it forwarded goes on to look at the queue.
Failed(op) ==
  [op EXCEPT !.index = 0, !.live = FALSE,
             !.pc = IF op.cmd.Op = "join_game_queue" /\ op.from \in Node \ {op.node}
                    THEN "joined" ELSE "failed"]

\* The node does not lead any more, or the log took no command for 500 ms.
Reject(o) ==
  /\ ops[o].pc \in {"mutated", "built"}
  /\ leader # ops[o].node \/ ops[o].pc = "built"
  /\ ops' = [ops EXCEPT ![o] = Failed(@)]
  /\ UNCHANGED <<raftVars, serverVars, acked, promised>>

-----------------------------------------------------------------------------
(* The callback of topic.findMatch after its answer, 100 ms later.         *)

Settled(op) ==
  [op EXCEPT !.pc = IF op.index = 0 THEN "failed" ELSE "ok"]

\* len(s.gameQueue) == 2 read without s.mu on the callback's own server.
QueueReady(o) ==
  /\ ops[o].pc = "joined"
  /\ ops[o].from # NoNode
  /\ Len(fsm[ops[o].from].gameQueue) = 2

CheckQueue(o) ==
  /\ ops[o].pc = "joined"
  /\ ~QueueReady(o)
  /\ ops' = [ops EXCEPT ![o] = Settled(@)]
  /\ UNCHANGED <<raftVars, serverVars, acked, promised>>

\* A leading server makes the match itself.  Any other asks the server it
\* believes leads, and handleMatchmaking does not check that it does.
StartMatch(o) ==
  /\ QueueReady(o)
  /\ \E p \in Op, m \in Node :
       /\ ops[p].pc = "idle"
       /\ leader = ops[o].from => m = leader
       /\ ops' = [ops EXCEPT
            ![o] = Settled(@),
            ![p] = Called("create_game", ops[o].from, m, NoArgument)]
  /\ UNCHANGED <<raftVars, serverVars, acked, promised>>

-----------------------------------------------------------------------------
(* The FSM goroutine of each server.                                       *)

\* Store.Apply, and the answer to the handler that waits for this command.
ApplyNext(n) ==
  LET i == applied[n] + 1
      c == log[i]
      answered == {o \in Op : ops[o].pc = "waiting" /\ ops[o].node = n
                                /\ ops[o].index = i}
  IN /\ applied[n] < commitIndex
     /\ ~stuck[n]
     /\ fsm' = [fsm EXCEPT ![n] = ApplyCommand(@, c)]
     /\ applied' = [applied EXCEPT ![n] = i]
     /\ ops' = [o \in Op |->
          IF o \in answered
          THEN [ops[o] EXCEPT !.pc = IF c.Op = "join_game_queue" THEN "joined" ELSE "ok"]
          ELSE IF ops[o].node = n /\ c.Op = "open_pack" /\ c.Cards # <<>>
               THEN [ops[o] EXCEPT !.live = FALSE] ELSE ops[o]]
     /\ acked' = acked \cup answered
     /\ UNCHANGED <<raftVars, stuck, snapshots, restarts, promised>>

\* Mutation of SnapshotOf: the copy of the queue is missing.
SnapshotWithoutQueue(n) ==
  [index |-> applied[n], state |-> [fsm[n] EXCEPT !.gameQueue = <<>>]]

\* Mutation of SnapshotOf: the copy of the players is missing.
SnapshotWithoutPlayers(n) ==
  [index |-> applied[n], state |-> [fsm[n] EXCEPT !.players = Base.players]]

SnapshotOf(n) == [index |-> applied[n], state |-> fsm[n]]

\* Store.Snapshot and Persist.
TakeSnapshot(n) ==
  /\ n \in Snapshotting
  /\ ~stuck[n]
  /\ applied[n] > snapshots[n].index
  /\ snapshots' = [snapshots EXCEPT ![n] = SnapshotOf(n)]
  /\ UNCHANGED <<raftVars, fsm, applied, stuck, restarts, clientVars, promised>>

\* Store.Restore of the leader's snapshot on a server that lacks its commands.
InstallSnapshot(n) ==
  /\ leader \notin {NoNode, n}
  /\ ~stuck[n]
  /\ snapshots[leader].index > applied[n]
  /\ \A o \in Op : ops[o].node = n => ops[o].pc # "waiting"
  /\ fsm' = [fsm EXCEPT ![n] = snapshots[leader].state]
  /\ applied' = [applied EXCEPT ![n] = snapshots[leader].index]
  /\ snapshots' = [snapshots EXCEPT ![n] = snapshots[leader]]
  /\ ops' = [o \in Op |-> IF ops[o].node = n THEN [ops[o] EXCEPT !.live = FALSE]
                                              ELSE ops[o]]
  /\ UNCHANGED <<raftVars, stuck, restarts, acked, promised>>

-----------------------------------------------------------------------------
(* Leadership, commitment and failures.                                    *)

Commit ==
  /\ RaftCommit
  /\ promised' = Append(promised, ApplyCommand(promised[Len(promised)],
                                               log[commitIndex + 1]))
  /\ UNCHANGED <<serverVars, clientVars>>

\* Pending futures fail; those of committed commands may still be answered.
LoseLeadership ==
  /\ RaftStepDown
  /\ \E kept \in SUBSET {o \in Op : ops[o].pc = "waiting"
                                      /\ ops[o].index <= commitIndex} :
       ops' = [o \in Op |-> IF ops[o].pc = "waiting" /\ ops[o].node = leader
                                /\ o \notin kept
                             THEN Failed(ops[o]) ELSE ops[o]]
  /\ UNCHANGED <<serverVars, acked, promised>>

BecomeLeader(n) ==
  /\ RaftElect(n)
  /\ UNCHANGED <<serverVars, clientVars, promised>>

\* A follower whose forwarded join gets no answer goes on to the queue.
AfterCrash(op, n) ==
  LET orphan == IF op.from = n THEN [op EXCEPT !.from = NoNode] ELSE op
  IN CASE op.pc = "joined" /\ op.from = n -> Settled(orphan)
       [] op.pc \in Running /\ op.node = n ->
            IF Failed(orphan).pc = "failed" THEN [Failed(orphan) EXCEPT !.pc = "lost"]
                                            ELSE Failed(orphan)
       [] OTHER -> orphan

\* Mutation of Crash: the server starts from its snapshot, but what it had
\* applied since is not applied again.
CrashWithoutReplay(n) ==
  /\ RaftCrash(n)
  /\ fsm' = [fsm EXCEPT ![n] = snapshots[n].state]
  /\ stuck' = [stuck EXCEPT ![n] = FALSE]
  /\ ops' = [o \in Op |-> AfterCrash(ops[o], n)]
  /\ UNCHANGED <<applied, snapshots, acked, promised>>

\* The process ends and starts again from its snapshot; committed commands
\* are applied again as it learns of them.  Its executions are gone, and so
\* is whatever its callbacks had left to do for executions elsewhere.
Crash(n) ==
  /\ RaftCrash(n)
  /\ fsm' = [fsm EXCEPT ![n] = snapshots[n].state]
  /\ applied' = [applied EXCEPT ![n] = snapshots[n].index]
  /\ stuck' = [stuck EXCEPT ![n] = FALSE]
  /\ ops' = [o \in Op |-> AfterCrash(ops[o], n)]
  /\ UNCHANGED <<snapshots, acked, promised>>

Restart(n) ==
  /\ restarts < MaxRestarts
  /\ restarts' = restarts + 1
  /\ Crash(n)

\* A panic in a NATS callback ends the process.
PanicInCallback(o) ==
  /\ Panics(o)
  /\ ops[o].from = ops[o].node
  /\ Crash(ops[o].node)
  /\ UNCHANGED restarts

\* gin's Recovery answers 500 to a REST handler that panicked; s.mu stays locked.
PanicInREST(o) ==
  /\ Panics(o)
  /\ ops[o].from # ops[o].node
  /\ stuck' = [stuck EXCEPT ![ops[o].node] = TRUE]
  /\ ops' = [ops EXCEPT ![o] = [@ EXCEPT !.pc = "panicked"]]
  /\ UNCHANGED <<raftVars, fsm, applied, snapshots, restarts, acked, promised>>

\* The callback of a follower asserts the type of a field of the answer to
\* its matchmaking request, and there is none: no leader was known, or the
\* handler panicked or died.
MatchUnanswered(o) ==
  /\ \/ QueueReady(o) /\ leader = NoNode
     \/ /\ ops[o].cmd.Op = "create_game"
        /\ ops[o].pc \in {"panicked", "lost"}
        /\ ops[o].from # NoNode
  /\ Crash(ops[o].from)
  /\ UNCHANGED restarts

-----------------------------------------------------------------------------
HandlerStep(o) ==
  \/ CreatePlayer(o) \/ OpenPack(o) \/ JoinQueue(o) \/ CreateMatch(o) \/ PlayCard(o)
  \/ BuildCommand(o) \/ Enqueue(o) \/ Reject(o)
  \/ CheckQueue(o) \/ StartMatch(o)
  \/ PanicInCallback(o) \/ PanicInREST(o) \/ MatchUnanswered(o)

ServerStep(n) ==
  \/ ApplyNext(n) \/ TakeSnapshot(n) \/ InstallSnapshot(n)
  \/ BecomeLeader(n) \/ Restart(n)

Next ==
  \/ \E o \in Op : Request(o) \/ HandlerStep(o)
  \/ \E n \in Node : ServerStep(n)
  \/ Commit
  \/ LoseLeadership

Spec == Init /\ [][Next]_vars

\* Goroutines run, a quorum is connected again and again, and when no server
\* leads one is elected.  No fairness on requests, restarts, snapshots or the
\* loss of leadership.
Fairness ==
  /\ \A o \in Op : WF_vars(HandlerStep(o))
  /\ \A n \in Node : WF_vars(ApplyNext(n))
  /\ WF_vars(Commit)
  /\ WF_vars(\E n \in Node : BecomeLeader(n))

FairSpec == Spec /\ Fairness

-----------------------------------------------------------------------------
(* Properties.                                                             *)

\* Every variable holds a value of the program's types.
TypeOK ==
  /\ log \in Seq(Command)
  /\ commitIndex \in 0 .. Len(log)
  /\ leader \in Node \cup {NoNode}
  /\ elections \in Nat
  /\ fsm \in [Node -> StoreState]
  /\ applied \in [Node -> Nat]
  /\ stuck \in [Node -> BOOLEAN]
  /\ snapshots \in [Node -> SnapshotRecord]
  /\ restarts \in Nat
  /\ ops \in [Op -> OpRecord \cup {IdleOp}]
  /\ acked \subseteq Op
  /\ promised \in Seq(StoreState) \ {<<>>}

\* What the committed commands make of the store.
Committed == promised[Len(promised)]

\* What node n would hold had it only applied commands.
Promised(n) == promised[applied[n] + 1]

\* Only commands ever write the queue, the members and the data: every server
\* has exactly those of the log up to its last applied command, across changes
\* of leader, restarts and snapshots (Apply, Snapshot, Restore; game_logic.go
\* has no other write to them).
LogDrivenAgreement ==
  \A n \in Node :
    /\ applied[n] <= commitIndex
    /\ fsm[n].gameQueue = Promised(n).gameQueue
    /\ fsm[n].members = Promised(n).members
    /\ fsm[n].data = Promised(n).data

\* Stronger: on those fields the servers implement one replicated object.
LogView(s) ==
  [gameQueue |-> s.gameQueue, members |-> s.members, data |-> s.data]

LogViews ==
  [gameQueue : Seq(PlayerId), members : SUBSET MemberID,
   data : [Key -> Value \cup {NoValue}]]

Replicated ==
  INSTANCE ReplicatedState WITH
    Server <- Node,
    State <- LogViews,
    history <- [i \in 1 .. Len(promised) |-> LogView(promised[i])],
    pos <- [n \in Node |-> applied[n] + 1],
    stored <- [n \in Node |-> snapshots[n].index + 1],
    view <- [n \in Node |-> LogView(fsm[n])]

ImplementsReplicatedState == Replicated!Spec

\* An execution that wrote its server's store before it had a command.
Mutated(o) == ops[o].cmd # Blank(ops[o].cmd.Op)

\* Server n did not apply o's command as an answered one.
Pending(o, n) == ~(o \in acked /\ ops[o].index <= applied[n])

\* The fields game_logic.go writes before it has a committed command may differ
\* from the log's, but never without a cause: an execution that wrote exactly
\* that field and whose command this server did not apply as an answered one,
\* or whose command did not name what it wrote.
DivergenceExplained ==
  \A n \in Node :
    /\ \A p \in PlayerId :
         fsm[n].players[p] # Promised(n).players[p] =>
           \E o \in Op : /\ ops[o].cmd.Op = "open_pack" /\ Mutated(o)
                         /\ ops[o].player = p
                         /\ Pending(o, n) \/ ops[o].cmd.PlayerID # p
    /\ \A g \in MatchId :
         fsm[n].matchHistory[g] # Promised(n).matchHistory[g] =>
           \E o \in Op : /\ ops[o].cmd.Op = "play_cards" /\ Mutated(o)
                         /\ ops[o].game = g
                         /\ Pending(o, n) \/ ops[o].cmd.GameId.SelfId # g
    /\ fsm[n].count # Promised(n).count =>
         \E o \in Op : /\ ops[o].cmd.Op = "create_player" /\ Mutated(o)
                       /\ Pending(o, n)
    /\ fsm[n].Cards # Promised(n).Cards =>
         \E o \in Op : /\ ops[o].cmd.Op = "open_pack" /\ Mutated(o)
                       /\ Pending(o, n) \/ ops[o].cmd.Cards = <<>>

\* A client is told of success only for a command that is in the committed log
\* for good (applyFuture.Error and Response in applyLogInternal).
AckedCommitted ==
  \A o \in acked : /\ ops[o].index \in 1 .. commitIndex
                   /\ log[ops[o].index] = ops[o].cmd

\* Whoever is matched had joined before, whichever server made the match and
\* however stale the queue it read.
MatchedPlayersJoined ==
  \A i \in 1 .. commitIndex :
    log[i].Op = "create_game" =>
      \A p \in {log[i].GameId.P1, log[i].GameId.P2} :
        \E j \in 1 .. i - 1 : log[j].Op = "join_game_queue" /\ log[j].PlayerID = p

-----------------------------------------------------------------------------
(* What a server alone guarantees: its callbacks run one at a time per      *)
(* subject, so nothing overtakes a command between its reads and its place  *)
(* in the log.                                                             *)

\* How many of the first n commands are of this kind.
NumberOf(l, kind, n) == Cardinality({i \in 1 .. n : l[i].Op = kind})

\* Matchmaking is first come, first served: the players matched so far, then
\* the queue, are the joins in their order; none is lost or used twice.
NoJoinLost ==
  LET Joins(n) == NumberOf(log, "join_game_queue", n)
      Games(n) == NumberOf(log, "create_game", n)
      queue == Committed.gameQueue
      matched == 2 * Games(commitIndex)
  IN /\ Joins(commitIndex) = matched + Len(queue)
     /\ \A j \in 1 .. commitIndex :
          log[j].Op = "join_game_queue" =>
            /\ Joins(j) > matched => queue[Joins(j) - matched] = log[j].PlayerID
            /\ \A g \in 1 .. commitIndex :
                 log[g].Op = "create_game" =>
                   /\ Joins(j) = 2 * Games(g) - 1 => log[g].GameId.P1 = log[j].PlayerID
                   /\ Joins(j) = 2 * Games(g) => log[g].GameId.P2 = log[j].PlayerID

\* A card that was acknowledged stays in its match, whatever the opponent's
\* play did to the same record (PlayCard writes the whole matchStruct).
PlayedCardsKept ==
  \A o \in acked :
    ops[o].cmd.Op = "play_cards" =>
      LET match == Committed.matchHistory[ops[o].game]
      IN ops[o].card = IF match.P1 = ops[o].player THEN match.Card1
                                                   ELSE match.Card2

\* No two accounts get the same id.
UniqueIds ==
  \A o, p \in acked :
    /\ {ops[o].cmd.Op, ops[p].cmd.Op} = {"create_player"}
    /\ o # p
    => ops[o].cmd.PlayerID # ops[p].cmd.PlayerID

\* A pack is in the deck or with one player, once (OpenPack moves it in two writes
\* that reach the log as one command), until an opening empties the deck: that
\* deck is not applied.
PackOnce ==
  LET opened == {x \in PlayerId \X (1 .. NumPacks) :
                   x[2] <= Len(Committed.players[x[1]].Cards)}
      packOf(x) == Committed.players[x[1]].Cards[x[2]]
  IN (\A i \in 1 .. commitIndex : log[i].Op = "open_pack" => log[i].Cards # <<>>) =>
       /\ \A x, y \in opened : x # y => packOf(x) # packOf(y)
       /\ \A x \in opened : \A i \in 1 .. Len(Committed.Cards) :
            packOf(x) # Committed.Cards[i]

-----------------------------------------------------------------------------
(* What the documentation says.                                            *)

\* "mantem o contador consistente" (store.go:92): the counter that logins are
\* checked against covers every account.
CounterCoversPlayers ==
  \A p \in PlayerId : Committed.players[p].Id # 0 => p <= Committed.count

\* "Alta disponibilidade" (README:49): every request is answered.
RequestsAnswered ==
  \A o \in Op : (ops[o].pc \in Running) ~> (ops[o].pc \notin Running)
=============================================================================
