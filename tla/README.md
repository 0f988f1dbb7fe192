# Verification of the distributed card game

TLA+ modules, TLC configurations and TLAPS proofs for the servers of the card
game in this repository: Go servers that replicate the game's state with
hashicorp/raft, talk to clients over NATS and to each other over an internal
REST API. Paths below are relative to `src/server` unless they say otherwise.

- [1. The system](#1-the-system)
- [2. Modules and how they correspond to the code](#2-modules-and-how-they-correspond-to-the-code)
- [3. Runs](#3-runs)
- [4. Proofs](#4-proofs)
- [5. Where the models differ from the documentation](#5-where-the-models-differ-from-the-documentation)
- [6. What is not modelled](#6-what-is-not-modelled)
- [7. Plan](#7-plan)

## 1. The system

| Component | State it keeps | Operations | Talks to |
| --- | --- | --- | --- |
| Replicated store, `API/store.go` | `data`, `members`, `players`, `matchHistory`, `gameQueue`, `Cards`, `count` under `s.mu` | `Apply`, `Snapshot`, `Persist`, `Restore` | called by Raft's FSM goroutine |
| Game operations, `API/game_logic.go` | the same fields, **also written directly** | `CreatePlayer`, `OpenPack`, `JoinQueue`, `CreateMatch`, `PlayCard` | `applyLogInternal` |
| Pack construction, `game_logic.go` | none | `setupPacks` | `NewStore` |
| `applyLogInternal`, `API/server-api.go` | a command in a local variable and its future | build, marshal, `raft.Apply`, wait | Raft |
| NATS callbacks, `API/pubsub.go` | the leader address they last saw | account, login, packs, matchmaking, play | clients, operations, REST |
| Internal REST handlers, `server-api.go` | none | the same operations on the leader | operations |
| Key-value and membership API, `server-api.go` | Raft configuration | `/set`, `/join`, `/leave` | Raft, store |
| Questions to all members, `server-api.go` | goroutines, a `WaitGroup`, a channel of capacity one | `checkIfAnyNodeLogged`, `checkMatchmaking`, `checkGame` | REST of every member |
| Forwarding, `server-api.go` | attempts and back-off | `forwardToLeaderViaREST` | REST of the leader |
| Login, `pubsub.go`, `server-api.go`, `../client` | who answers on `topic.loggedIn` | `RequestLogin`, `ClientLogin`, `handleLogin`, `LoggedIn` | clients, all members |
| Matchmaking, `pubsub.go`, `../client` | `gameQueue`, the clients that wait | `RequestFindMatch`, `ClientJoinGameQueue` | clients, operations, all members |
| Peer monitor, `main.go` | a configuration and a member list it read, health results | `monitorRaftPeers` | Raft, TCP |
| Join protocol, `main.go` | peers left and tried | `joinCluster`, `joinHandler` | REST of the peers |
| Start-up and shutdown, `main.go` | `RaftLog`, the broker connection, the data directory | `main`, `setupRaft`, `SetupPS`, `BrokerConnect` | Raft, NATS |
| Client, `../client` | a subscription per match, two channels | login, packs, matchmaking, play | NATS |

An operation travels: client -> NATS -> the callback of every server. A
callback on the leader calls the operation itself; on a follower it asks the
leader over REST. The operation takes `s.mu`, changes some fields, releases the
lock, and calls `applyLogInternal`, which builds a command from its arguments
(some of them shared fields read again without the lock), checks that the
server still leads, marshals the command, gives it to Raft and waits without a
limit. Every server's FSM goroutine takes `s.mu` and applies the command.

What makes this hard:

- **State is written twice.** `CreatePlayer`, `OpenPack` and `PlayCard` write
  the store before their command is committed, and nothing undoes the write
  when the command fails. `JoinQueue`, `CreateMatch` and the API do not.
- **Commands carry whole values** (the deck, a player's cards, a match, the
  queue that is left) computed before they enter the log, so commands that
  overtake each other overwrite what was committed in between.
- **`omitempty`.** An empty deck or queue is absent from the JSON.
- **A panic under the lock.** Drawing from an empty deck, or matching from a
  queue with fewer than two players, panics with `s.mu` held. In a NATS
  callback that ends the process; behind REST gin recovers, and the lock is
  never released.
- **Failures:** a change of leader loses accepted commands, a restart goes back
  to a snapshot, snapshots copy stores that were written outside the log.
- **Timeouts:** forwarding repeats requests that may have been executed; a
  client gives up on one while servers go on with it.
- **Everybody handles everything.** Subscriptions have no queue group, so the
  callback of every server handles each message of a client, and every member
  publishes each result of a match.
- **Two lists of servers.** Raft's configuration and `s.members` are changed one
  after the other, by handlers and a monitor that do not wait for each other.
- **Unbuffered channels** in the client hold a message until a later match.

What has to be right, per component:

- store: what a server shows is a prefix of one decided history, through
  snapshots and restarts;
- operations: acknowledged commands stay; whoever is matched had joined; ids
  are unique; a pack has one owner; joins and played cards are not lost; a
  difference from the log has a known cause;
- `applyLogInternal` and its callers: every request is answered;
- pack construction: no bound of a slice panics and every card is in one pack;
- questions to all members: the answer is right, no goroutine writes to a
  closed channel or stays behind;
- forwarding: how often a message is executed has a known cause, what a client
  is told it has exists, and every callback ends;
- login: an id is used twice only for a known cause;
- matchmaking: two who wait get a match, or a known cause prevents it;
- members: voters and list differ only for a known cause, and a dead peer goes;
- join protocol: a server that serves is a member; one that gives up had reason;
- games: published results are true, and each client sees one;
- start-up: every start ends, with the API up or the process over.

`PROJECT.json` lists the hazards line by line, each with the properties that
cover it or the reason none does.

## 2. Modules and how they correspond to the code

| Module | Models |
| --- | --- |
| `Store` | the replicated fields, the command, and `Apply` as one operator per field (`store.go`) |
| `RaftLog` | external: the service hashicorp/raft gives this program |
| `GameCluster` | the servers: operations, `applyLogInternal`, callbacks, handlers, FSM, snapshots, failures. EXTENDS `Store` and `RaftLog` |
| `ReplicatedState` | abstract: servers that show prefixes of one sequence of states |
| `MCGameCluster` | instances of `GameCluster` for TLC |
| `Packs` | `setupPacks` |
| `FanOut` | a question to all members: goroutines, `WaitGroup`, channel, caller |
| `AnyOf` | abstract: what such a question promises |
| `Forwarding`, `MCForwarding` | one message of a client: every server's callback, chains of REST calls, the reply |
| `Login`, `MCLogin` | clients that log in with one id |
| `Matchmaking` | clients that wait for a match, and the callbacks that make it |
| `ClientGame` | a match from its start to the result on two screens |
| `Membership`, `MCMembership` | the Raft configuration beside `s.members`: `/join`, `/leave`, the monitor |
| `JoinCluster` | a new server that asks its way in: the loop and the handlers of the cluster it asks |
| `StartUp`, `MCStartUp` | the lives of one process from start to end, with its broker connection. EXTENDS `JoinCluster`, whose loop is one phase of a life |
| `GameClusterProofs`, `StartUpProofs`, `MembershipProofs`, `LoginProofs`, `MatchmakingProofs`, `ForwardingProofs`, `ClientGameProofs` | theorems, each module about the one it is named for |
| `HelperProofs` | theorems about `Packs` and `FanOut` |

Definitions named "Mutation of X" are plausible bugs of X. Nothing uses them;
substituted for X each one must break the property `PROJECT.json` pairs it with,
which shows that the property depends on that code.

### Store

A Go map is a total function whose absent keys hold Go's zero value, which is
what every read of the code (`m[k]`) returns. A pack is known by its number:
pack `i` holds cards `3i-2 .. 3i`, and `Packs` shows that packs share no card.
A player's cards are the packs he opened. A nil slice and an empty one are one
value, because `omitempty` decodes both as nil. `CardsAfter` therefore keeps
the old deck when the command carries none, as `if c.Cards != nil` does.

### RaftLog

One sequence `log` whose first `commitIndex` commands never change, and at most
one `leader`. `RaftElect` lets any server lead and keeps any part of the log
from the committed prefix on: a server with every committed command wins and
may lack any of the others. A deposed server that still believes it leads
commits and applies nothing new until it steps down, so what it does meanwhile
commutes with `LoseLeadership` and needs no second leader variable. Elections
by loss of the lead are bounded by `MaxElections` in the guard of
`RaftStepDown`, never in that of `RaftElect`: the bound stops no cluster.

### GameCluster

State: `fsm[n]` the store of server `n`, `applied[n]` how many commands it has
applied, `stuck[n]` that a handler panicked with its lock held, `snapshots[n]`
its disk, `ops[o]` the executions of handlers, `acked` those that were told of
success. `promised` is a history variable: `promised[i+1]` is the initial
state after the first `i` committed commands.

An execution moves through the pieces of code between two places where other
goroutines can run:

| Stage | Where the code is | Action that leaves it |
| --- | --- | --- |
| `called` | before `s.mu.Lock()` of the operation | `CreatePlayer`, `OpenPack`, `JoinQueue`, `CreateMatch`, `PlayCard`; a panic instead: `PanicInCallback`, `PanicInREST` |
| `mutated` | after the unlock, shared fields not read yet (`s.count` is an argument, `s.Cards` is read through a pointer) | `BuildCommand`, `Reject` |
| `built` | the command is in a local variable | `Enqueue`, `Reject` |
| `waiting` | in `applyFuture.Error()` | `ApplyNext` (answered), `LoseLeadership` (error) |
| `joined` | in the 100 ms sleep of `ClientJoinGameQueue` after the join | `CheckQueue`, `StartMatch`, `MatchUnanswered` |
| `ok`, `failed`, `panicked`, `lost` | the client's answer, or none | |

- `JoinQueue`, `CreateMatch`, `PlayCard` and the key-value and membership
  commands read no shared field after their unlock, so they go from `called`
  (or from the request) to `built` at once. The leader check of
  `applyLogInternal` is the guard of `BuildCommand` and `Enqueue`, its failure
  is `Reject`; `Reject` of a leader is the 500 ms limit of `raft.Apply`.
- `BuildCommand` copies the header of `s.Cards`, not its array. While the
  execution is `live`, a swap of a later `OpenPack` shows in its command
  (`SwapSeen`) until `json.Marshal` is over (`Enqueue`) or `Apply` replaces the
  server's deck.
- `from` and `node` say on which server the callback runs and which server
  executes. They are equal for a leader's own callback. A callback of a
  follower asks whom it believes to lead, so `StartMatch` lets any server
  execute the match when `from` does not lead: `handleMatchmaking` does not
  check. It also does not look at the queue, which is where `Panics` comes from.
- `CallbackFree`: nats.go runs the callback of one subscription one message at
  a time, so one server handles one message per subject. Servers overlap freely.
- `SameCard`: a client plays one card per match, and every server may handle
  that one message.
- `Crash` is used by `Restart` (spontaneous, bounded by `MaxRestarts`),
  `PanicInCallback` and `MatchUnanswered` (the type assertion at
  `pubsub.go:344` on an answer that has no such field). It restores the
  snapshot, forgets executions and releases the lock; commands are applied
  again by `ApplyNext`. `MaxRestarts` does not limit the panics.
- `TakeSnapshot` and `InstallSnapshot` are possible on the servers of
  `Snapshotting`; an installed snapshot is the leader's.

`Init` starts where the cluster has formed: every server a member, `Accounts`
accounts and perhaps one match `FirstMatch` in the log's past, applied and in a
snapshot everywhere. Any such state is one the program reaches by account
creation and a match without failures and a snapshot after them.

### Packs, FanOut, AnyOf

`FillPack` is one iteration of the second loop of `setupPacks`. `FanOut` has
one variable per Go object: `wg`, `buffered` and `closed` of the channel,
`task[m]` for each goroutine. `Report` is the `select` with its `default`. The
three functions differ in the question; `Answers` without `"yes"` is
`checkGame`, which never writes `true`. Cancelling a goroutine only makes
"failed" the likelier answer and is no step of its own.

### How the other modules divide the system

`GameCluster` has the store, the log and the operations in full. The modules
below look at one protocol around them and take from it what they need:

| Module | takes as given | where that is modelled |
| --- | --- | --- |
| `Forwarding` | an operation is a command that is committed or not | `GameCluster` |
| `Login` | a question to all members ends, each answer may be late | `FanOut` |
| `Login` | the list of members of a server: any | `Membership`, `GameCluster` |
| `Matchmaking` | a join or match is applied or fails; a follower may see an old queue | `GameCluster` |
| `ClientGame` | the leader has every card it was sent, a follower some | `GameCluster` |
| `Membership` | the log decides configuration and members in one order | `RaftLog` |
| `StartUp` | a monitor's checks fail and its removal follows at any later time; the second change of a removal may fail | `Membership` |

### Forwarding

A task is a callback, named by its server, or a REST call, named by its number.
`pc[t]` follows the code: `received` (before the test of `State()`),
`executing`, `appended` or `rejected` (in `applyLogInternal`), `forwarding` (at
the head of the loop), `awaiting` (in `client.Do`), `answered`. `TimeOut` leaves
the callee running, which is how one request is executed twice; a callee that
crashed and an answer that was lost are the same to the caller. Leadership and
what each server believes of it (`leader`, `knows`) are separate, so a handler
may forward, also to itself. `httpOf` says who listens on port 8080 of a
server's host; it is fixed for a behaviour, one of `Deployments`: every server
on a host of its own, or all on one. `Published` is the difference between a callback's own error and
the payload of a forwarded one (`null`), `Understood` what the client makes of
either.

### Login

A client is `out`, `asking`, `letIn` (let in, not yet subscribed to
`topic.loggedIn`) or `in`. `callback[s][r]` is one message in one subscription,
handled in order (`Turn`). `Check` begins `checkIfAnyNodeLogged` at `decider`,
which is the server itself when it leads and whoever it takes for the leader
otherwise. `Hear` asks one member, whose 150 ms may be over before the client
answers. `missed` remembers the requests in whose check that happened, or in
which nobody was asked while somebody was logged in: `Check` lets the applied
`s.members` of the deciding server be any set of servers, since a founder's is
empty until its monitor has ticked and a lagging server's is short. Any server
may apply the account's command at any time after the leader (`ApplyAccount`).
`overlapped` remembers which clients were on their way in together.

### Matchmaking

`callback[s].stage` is where the callback of `topic.findMatch` is: `join`,
`check` (the 100 ms sleep), `create`, `ask1`, `ask2` (the two
`checkMatchmaking`). The queue is the leader's. A follower's test of the length
may go by an old queue (`CheckStaleQueue`, bounded by `MaxStale`), any command
may fail and any question reach no member (`MaxFailures`), and a panic under the lock sets `halted`. A client
whose request timed out keeps its place in the queue and may ask again, as in
the code. `subscribed` are the servers that the broker reaches, any nonempty
set of them: `StartUp` shows how a server runs on without its subscriptions. What becomes of players who are asked and do not answer is
`ClientGame`'s.

### ClientGame

Matches start with both players in the menu; which of them still listens is
arbitrary (`StartMatch`). `known[s][m]` is whose cards server `s` has: those
the leader wrote or applied. `job[s][m][p]` is the callback of `s` for the card
of `p`: it plays the card, sleeps, and looks once (`Conclude`). `hand[p]` is
the channel on which the callback of `game.server` of a client blocks, `inbox`
the messages behind it. `Published` puts one copy for each member that publishes,
up to `Copies`; that there is none, because the leader's list is empty or nobody
on it is reached, counts as a disruption (`Reached`).

### Membership

`conf` and `members` are what the log has decided. A handler is `configuring`
and then `listing`; the monitor goes `checking`, `suspecting`, `removing`,
`unlisting` over the configuration it has `seen`. A change of configuration
needs a majority of the old and the new one, and its leader may lose leadership
without learning that it was made (`ReconfiguredUnknowingly`). The second change
also fails when raft does not take its command within 500 ms under a leader that
stays (`ListFailed`, `UnlistFailed`, `Finish`). raft uses a
configuration as soon as it is appended (`Appended`), so a leader also steps
down when a change that is under way leaves it without a majority (`StepDown`).
`home[s]` is where a server listens; one that starts again may be elsewhere.
`torn` holds the servers whose two entries were not written as one, for
whatever reason.

### StartUp and JoinCluster

`flags` is the command line of one process: `--bootstrap`, `--peers` or
neither. `phase` is where `main` is in the current life; the goroutine of the
broker runs beside it (`broker`). A life ends by a fatal error, a signal, a
crash, or a message whose callback panics (`Deliver`): always while `RaftLog` is
nil, and in a server that runs by an empty deck, a short queue or the answer of a
failed forward, which `GameCluster` models (`PanicInCallback`). The process may
start again with the same command line. `data`, `voter` and `member` outlive it.

Removals go by the id of the server, and `removals` holds those under way. A
monitor sets out when its checks fail (`ChecksFailed`), a handler of `/leave` when
it is asked (`AskLeave`), whatever the process does, since `/leave` is meant to be
called before a shutdown. The change of the configuration (`RemoveServer`) and of
the list (`RemoveMember`) come at any later time, also after the server has
started and joined again. `removed` remembers which of the two a removal has
taken since the start. Of the monitor and the handlers of one server one removal
at a time is looked at.

In the phase `joining` the steps are those of `joinCluster`. Peers are strings;
`HostOf` says whose host one names, `AddressOf` how a redirect names a leader;
an empty string of the flag is not among them. `Ask`, `NoResponse`, `Joined`,
`TryNext`, `Skip` and `JoinFailed` are the branches of the loop; `Redirect`,
`AddVoter` and `AddMember` with their failures those of `joinHandler`, which
goes on after its client gave up. `AddMemberFailed` is the loss of leadership or
the 500 ms that raft has to take the command, which `refused` remembers. A
handler whose asker's life has ended is in `late`, and may still make it a voter.
`restless` remembers whether leadership changed, or was not known to all, since
the process started. `HostOf[AddressOf[s]]` need not be `s`: in the documented
deployment several servers share a host, and its port 8080 is one server's.

## 3. Runs

Two servers are enough for every difference between a leader and a follower,
and any server may become leader. Two or three executions make every pair of
operations overlap. Three let one slip between two; four let a third join slip
between the joins and the match of the first two, or a second request for a
match follow one. `SYMMETRY` permutes executions, servers or clients in runs of safety properties
only (`ImplementsReplicatedState` is one: `ReplicatedState` states no fairness);
no action prefers one. `CHECK_DEADLOCK FALSE` is everywhere because the
executions of an instance end.

| Run | Instance | Checks | Shows |
| --- | --- | --- | --- |
| `MCReplication` | 2 servers, 3 executions of joins and matches, 1 loss of the lead, snapshots on both | `TypeOK`, `AckedCommitted`, `MatchedPlayersJoined`, `ImplementsReplicatedState` | what was acknowledged stays in the log through a change of leader; a match is made of players who joined, however stale the queue it was read from; the servers implement `ReplicatedState` |
| `MCDivergence` | 2 servers, 2 executions of accounts, packs and plays, 1 pack for both; 1 loss, 1 restart, snapshots on both | `DivergenceExplained` | every difference from the log has a cause in an execution that wrote first, also when the deck runs out, a process panics, and snapshots hold what the log does not |
| `MCSolo` | 1 server, 4 executions of everything the clients ask | `NoJoinLost`, `UniqueIds`, `PackOnce`, `PlayedCardsKept`, `CounterCoversPlayers` | what serial callbacks alone guarantee |
| `MCAnswers` | 2 servers, 2 executions of accounts, set and membership commands, 1 loss, 1 restart, `FairSpec` | `LogDrivenAgreement`, `RequestsAnswered` | a request that cannot panic is answered; members and data are those of the log after a restart too |
| `MCPackLoop` | every N from 0 to 40 | `SliceInBounds`, `EveryCardOnce`, `ShortPackLast` | `setupPacks` is right, each remainder of the division many times |
| `MCFanOut` | 3 members, `FairSpec` | `NoSendOnClosed`, `ImplementsAnyOf`, `EverythingEnds` | the question to all members is answered right and leaves nothing behind |
| `MCForwarding` | 2 servers on two hosts or on one, 2 attempts, 3 REST calls, 1 change of leader or lost contact, `FairSpec` | `TypeOK`, `RetriesExplained`, `AcceptedExecuted`, `EveryCallbackAnswers` | executions are one per server give or take failed attempts; a pack the client shows exists; every callback ends |
| `MCMembership` | a founder not listed yet, a voter, a third server; 1 request, 3 disruptions (commands not taken in time are among them), `FairSpec` | `TypeOK`, `MembersExplained`, `LeaderListed`, `DeadPeerRemoved` | the two lists differ for a known cause; a leader that stays is listed; a dead peer does not stay a voter under a leader that stays |
| `MCStartUp` | one process with each command line, 3 servers that may lead, 2 of them on one host, 2 disruptions, `FairSpec` | `JoinedIsMember`, `GivesUpExplained`, `StartEnds` | the joiner ends as a member that only a removal takes out again, or for a reason with an error; every start ends |
| `MCLogin` | 2 clients, 2 servers, 3 logins, 1 disruption | `TypeOK`, `DoubleLoginExplained` | an id is used twice only by overlap, a late answer or a question to nobody, whatever list of members the deciding server has |
| `MCMatchmaking` | 2 clients, 2 servers of which one or both hear the broker, 3 requests, 1 failed command or question, 1 stale view, `FairSpec` | `TypeOK`, `AloneNeverMisses`, `PairServed` | one server's test for exactly two is right; two that wait for good have a known cause |
| `MCClientGame` | 2 servers, 1 match, 0 to 2 copies of a result, 1 change of leader or result nobody publishes, `FairSpec` | `TypeOK`, `ResultsTrue`, `ShownInOrder`, `FirstMatchEnds`, `AbsenceSettled` | true results reach whoever plays, and no message on the way to a client is lost or overtaken |

The properties of `MCSolo` hold because one server's callbacks run one at a
time per subject and only its own commands reach the log. They are **not**
properties of a cluster: two servers' executions, or two commands around a
change of leader, can overtake each other between the read and the log, and
then a join, a played card or a counter is overwritten. `PackOnce` further
stops at the opening that empties the deck, because that deck is not applied.
What a cluster does keep of those fields is `DivergenceExplained`.

**Fairness.** `FairSpec` of `GameCluster` has weak fairness on the steps of
each execution (a goroutine runs), on each server's FSM goroutine, on
commitment (a quorum is connected again and again) and on election when nobody
leads. Requests, restarts, snapshots and loss of the lead have none. `FanOut`
has weak fairness on each goroutine; an HTTP request ends because
`http.Client` has a timeout of 600 ms. Losses and restarts are bounded, so liveness is
claimed of runs in which they end. The other modules:

- `Forwarding`: goroutines run and time-outs expire; nothing is assumed of
  elections or of what servers know of the leader.
- `Membership`: handlers and monitors run, the ticker ticks, a leader without
  a majority steps down; an election need not succeed.
- `Matchmaking`: callbacks run and a client takes what it is sent; a player
  need not ask or leave.
- `ClientGame`: callbacks and clients run; a player need not choose a card and
  a follower need not catch up.
- `StartUp`: the main goroutine of a process that runs goes on, and its HTTP
  client ends a request after 10 s; no handler need answer, and nobody need
  start the process, elect a leader or restart the broker.

**Bounds.** `MaxPlayers` bounds `count`, in the guard of `CreatePlayer`;
`NumPacks` is 1 to 3 instead of 300, fewer than are opened in `MCDivergence`, so
that the deck does run out; `MaxCard` is 1, since `PlayCard` stores a value
without comparing it; the number of `Op` bounds the requests. In the other
modules `MaxDisruptions` bounds changes of leader, lost contacts, stops,
starts, removals, panics, commands not taken in time and results that nobody
publishes, `MaxCalls`, `MaxRequests`, `MaxLogins` and `MaxMatches` what is asked,
`MaxFailures` and `MaxStale` failed commands and questions and old views; each stands in the
guard of the actions it names. Two servers show what a follower forwards, one
more what a majority depends on. Two disruptions tear one operation apart and
let another one start elsewhere; the third of `MCMembership` lets a server come
back, which in `MCStartUp` costs nothing: a crash and a removal begun before it
land in the next life with two. Two attempts stand for three: the second follows a
failure as the third does. The flag of `MCStartUp` names one server twice, so
that the loop does skip a peer, and the others only by redirects; of its three
servers one has its host's port 8080, one shares that host without having it, and
one has a host of its own. Two copies of
a result are the least at which a message waits behind the one that is shown.

## 4. Proofs

Every theorem is proved by `tlapm` for all values of the constants, from the
named assumptions on the constants (`StoreAssumption`, `RaftAssumption`,
`ClusterAssumption`, `PacksAssumption`, `FanOutAssumption`,
`JoinClusterAssumption`, `StartUpAssumption`, `MembershipAssumption`,
`LoginAssumption`, `MatchmakingAssumption`, `ForwardingAssumption`,
`ClientGameAssumption`). They say that sets are finite where the code counts,
that the names of "nobody" are nobody's, that the retry loop of
`forwardToLeaderViaREST` runs at least once, that servers and the numbers of
calls or requests are different things, and that the flag of `--peers` names
somebody. No deployment is assumed, and nothing of the servers' lists. Where a theorem
needs more, it says so in its statement.

| Theorem | Establishes | Argument |
| --- | --- | --- |
| `GameClusterProofs!TypeCorrect` | `Spec => []TypeOK` | `TypeOK` is inductive; lemmas give the types of `ApplyCommand`, of an execution at its next stage and of one whose server crashed |
| `GameClusterProofs!LogDrivenCorrect` | `Spec => []LogDrivenAgreement` | `AgreementInv` |
| `GameClusterProofs!ReplicationCorrect` | `Spec => ImplementsReplicatedState` | from `AgreementInv`: each action is a step of `ReplicatedState` on the mapped variables or leaves them alone |
| `GameClusterProofs!AckedCommittedCorrect` | `Spec => []AckedCommitted` | `AckedInv` |
| `GameClusterProofs!MatchedPlayersJoinedCorrect` | `Spec => []MatchedPlayersJoined` | `MatchInv` |
| `GameClusterProofs!DivergenceExplainedCorrect` | `Spec => []DivergenceExplained` | `DivergenceInv` |
| `GameClusterProofs!UniqueIdsCorrect`, `CounterCoversPlayersCorrect` | `UniqueIds` and `CounterCoversPlayers` of a single server until it is elected again | `CounterInv`, `CounterFirst` |
| `GameClusterProofs!PlayedCardsKeptCorrect` | `PlayedCardsKept` of such a server | `PlayInv`, `PlayFirst` |
| `GameClusterProofs!PackOnceCorrect` | `PackOnce` of such a server | `PackInv`, on top of `CounterInv`, and `PackFirst` |
| `GameClusterProofs!NoJoinLostCorrect` | `NoJoinLost` of such a server | `QueueInv`, `QueueFirst` |
| `HelperProofs!SliceInBoundsCorrect`, `EveryCardOnceCorrect`, `ShortPackLastCorrect` | `setupPacks`, for every number of cards | `LoopInv`: after `i` iterations place `k` of pack `p <= i` holds card `3(p-1)+k` if there is one |
| `HelperProofs!NoSendOnClosedCorrect` | a question to all members, for any number of members | `FanOutInv`: `wg` is the number of goroutines that have not called `Done`, so a closed channel means that all have |
| `HelperProofs!AnyOfCorrect` | `Spec => ImplementsAnyOf` | from `FanOutInv`: a buffered value is some member's yes, and until the caller has received one, a reported yes is in the channel |
| `StartUpProofs!JoinedIsMemberCorrect`, `GivesUpExplainedCorrect` | for any cluster on any hosts, any peers and any number of lives, removals and disruptions | `StartUpInv` |
| `MembershipProofs!TypeCorrect`, `MembersExplainedCorrect` | for any cluster and any number of requests, monitors and disruptions | `MembersInv` |
| `LoginProofs!TypeCorrect`, `DoubleLoginExplainedCorrect` | for any number of clients, servers, logins and disruptions, and any lists of members | `LoginInv` |
| `MatchmakingProofs!TypeCorrect`, `AloneNeverMissesCorrect` | for any number of clients, servers, requests and timeouts | `AloneInv` |
| `ForwardingProofs!TypeCorrect`, `RetriesExplainedCorrect` | for any deployment and any number of attempts, calls and disruptions | `RetriesInv` |
| `ForwardingProofs!AcceptedExecutedCorrect` | the same, for every request but `findMatch` | `AcceptedInv` |
| `ClientGameProofs!TypeCorrect`, `ResultsTrueCorrect`, `ShownInOrderCorrect` | for any number of servers, copies, matches and disruptions | `ResultsInv`, `OrderInv` |

### The servers

`LogDrivenAgreement` alone is not inductive. A restart replaces `fsm[n]` by a
snapshot, so the snapshots must satisfy the same fact (`SnapshotsFollowLog`),
and applying a command advances a store along `promised` only if `promised` is
what the committed commands make of the initial state (`PromisedFollowsLog`).
`ApplyView` is the reason the argument goes through: `Apply` computes queue,
members and data from those fields and the command alone, never from a field
that is written outside the log.

`AckedInv` adds to `AckedCommitted` what makes an answer true when it is given:
an execution that waits has its command at its index of the log, and either
that entry is committed or its server still leads (`WaitingPlaced`), so an
election that drops entries cannot drop one somebody waits for elsewhere. Two
more parts keep the recorded commands fixed: an execution told of success is
over (`AckedOver`), and only a command that is not yet marshalled shares the
deck with the server (`LiveBuilt`).

`MatchInv` joins the two invariants and follows a player from the queue to the
match: whoever is in a queue the committed commands make had joined
(`QueuesJoined`); so had whoever is in the queue a match was built from, even
when that queue is out of date (`CommandsJoined`); and this stays true of the
command in the log (`LogJoined`). `MutatedKinds` excludes the one path that
would build a match without reading the queue.

`DivergenceInv` is about pairs of a store and the state the log gives at the
same place: those of the servers and those of the snapshots, which a restart
or an installation brings back. It is stronger than `DivergenceExplained` in one
point. `Pending` counts every command that was not answered yet, and the answer
makes it false; the invariant asks for a cause that stays one, an execution
whose command is not among the applied ones or will not be answered (`Late`).
When a store applies a command, what the command writes becomes equal on both
sides, so the executions that lose their excuse are those whose command named
what they wrote (`AdvanceExplained`). `CalledFresh` has it that an execution
that has not run yet wrote nothing, so each write finds its cause in itself.

### A server that leads alone

The five properties of `MCSolo` are not true of a cluster (section 3), nor of
a server that leads again. After a restart, until it has applied its log, it
hands out the ids of an old counter and writes plays into an old record. Without
a restart, the command of an account whose handler was told of failure can still
be in the log; when it is applied after the next account has counted, it sets
the counter back (`ApplyCommand`), and with `MaxElections = 1` TLC shows two
accounts with one id. The theorems therefore read
`Single => (Spec => [](elections = 0 => P))`: the cluster has one server, and as
long as no server has been elected after the first one P holds, while that
server leads and after it has lost the lead, panicked or been restarted.
Requests may fail at any stage, and their number is not bounded.

For the time in which the server leads there is one inductive invariant for each
property, the subject of the next paragraphs. For the time after it, `Leaderless`
says that nothing is proposed or committed without a leader, and `PlacesRemain`
that no execution gets a place in the log and none is answered that had not. So
`CounterCoversPlayers`, `PackOnce` and `NoJoinLost`, which are about the log, stay
true. The other two are about answers, and a restarted or deposed server still
gives those of committed commands; so what has to be true when the lead ends is
their extension to every execution that the log can still answer (`IdsApart`,
`CardsKept` over `Answerable`). `CounterFirst`, `PlayFirst`, `PackFirst` and
`QueueFirst` join the two times.

`SoloSteps` reduces the actions to the abstract steps of such a server
(`SoloStep`), and `SoloInv` says what serial callbacks give: of accounts, packs
and plays at most one execution runs (`OneEach`), every command in the log that
is not applied has its handler waiting (`Awaited`), and no two handlers have
one place (`OwnPlaces`). `Awaited` is what a cluster lacks: whatever is applied
next was computed by an execution the server still knows.

`CounterInv` orders the ids: those in the log increase (`IdsIncrease`), the one
in preparation is greater than all of them and equal to the server's counter
(`IdChosen`), and an account's entry is committed exactly when the committed
counter has reached its id (`CountCommitted`). Opening packs makes up no id,
because `OpenPack` sends the id of the record it read (`IdsCounted`).

`PlayInv` shows the record of a match to be a register under one lock although
`PlayCard` releases `s.mu` before its command enters the log: between a play's
write and its place in the log nothing else writes the record (`RecordsRead`),
so the record each play sends carries the opponent's card (`CardsShown`), also
when the opponent's play is not committed or never will be. It needs that who
plays was told of the match, after the match was applied (`MatchesHeld`), and
that a client sends one card per match (`OneCard`).

`PackInv` has two halves. On the server a pack is in the deck or with one
player, once (`PacksApart`); the committed packs of a player are among those the
server shows, and none of them is in the committed deck (`PacksShown`). What
joins the halves is the command between them: while an opening runs, nothing
else changes the deck or the packs it carries (`PackRead`), so its commitment
hands out what left the deck. The opening of a player the store does not have
puts the pack under his number in memory and under key 0 in the log. That the
account is then applied over it does no harm: nobody opened a pack with an id
whose account is not applied and got it replicated under that id (`NewId`, from
`CounterInv`: the id that `CreatePlayer` takes belongs to nobody). Once an
opening replicates no deck, a pack it handed out is still in the committed one;
so the committed half is claimed only as long as none did (`DeckKept`).

`QueueInv` follows the callback of `topic.findMatch`, which runs one join and
the match after it (`OneCallback`). While a match is in preparation the queue
still begins with its two players (`MatchRead`), and the committed queue differs
from the server's by at most the one command the server has still to apply
(`QueueCommitted`). `ServedStep` is the step of `NoJoinLost` itself, over any
log and any queue: a join becomes the last of the queue, a match removes the two
joins that come next. It rests on counting the commands of a kind in a prefix of
the log (`NumberFacts`, `NumberGrows`).

### The other modules

`StartUpInv` follows one life of a server. What its handlers have reached
(`WhatWasReached`) only a removal undoes, and `removed` then says so until the
next start; a start forgets it, but then no handler is left to answer
(`FreshWhenOff`). So an OK is true when it is read, but for removals since the
start, whatever handlers of earlier lives do. For `GivesUpExplained` it follows the leader
through the list: while nothing went wrong (`AtRest`) every server knows it
(`LeaderKnown`), so each peer that answered has named it, and it is tried or
still ahead (`LeaderFound`). When the list is empty the leader itself was tried,
and it would have agreed (`ExhaustedExplained`), unless the request to its
address reached another server of its host: `Misdirected` is the one cause that
does not pass, and a leader with a host of its own never meets it.
`StartUpAssumption` is only that the flag names somebody.

`MembersInv` strengthens `MembersExplained` by what a handler between its two
changes is about to do: it lists the address that the configuration has, or
removes a server the configuration does not have (`Explained`). Without that,
its second change could make the lists of an untorn server differ.

`LoginInv` follows a client's check through the members. While a client is in,
no check that began after its subscription is answered "free", because it has
either found that client or has members left to ask (`NotFree`, `Refused`),
unless the two overlapped, an answer was late or nobody was asked (`missed`).
Whom the members' list names does not matter, as long as it names somebody. Before the
account exists nobody is in and nothing is checked (`AccountFirst`), so the
client that creates it, and enters without a login, meets nobody.

`AloneInv` says why the test for exactly two is safe when one server hears the
clients and no command fails: the stage of its callback tells the length of the
queue (`QueueFollowed`). Between two messages at most one player waits, so a join
makes two at most; the callback that finds two goes on to the match, which
empties the queue, before it takes the next message; and the other servers hear
nobody, so their callbacks are idle for good (`OthersIdle`). A lost `create_game`
or an old view would leave two players behind for the next join to pass, which
is why `AloneNeverMisses` excludes them.

`RetriesInv` counts. Executions are tasks that ended without calling
(`Executed`); each REST call belongs to the one task that waits for it or took
its answer, or stands for a failed attempt (`Counted`, `OneCaller`). The two
halves of `RetriesExplained` are two inequalities over cardinalities of those
sets. `AcceptedInv` follows "ok" back through the chain of answers
(`OkCommitted`). `RequestFindMatch` takes any answer but an error for a place in
the queue, "null" included; so `AcceptedExecuted` does not hold for it and the
theorem excludes it.

`ResultsInv` needs that a card a server knows is not changed any more: servers
have cards of created matches only, and of the last match only those of players
that have chosen (`CardsFinal`). It also needs that before the first disruption
no server is ahead of the leader (`LeaderFirst`); so a result that was sent
remains true, whichever server sent it. `OrderInv` is `ShownInOrder` with the
types, without which its concatenations mean nothing.

### What stays with TLC

Every safety property of the runs is the subject of a theorem, some under the
conditions named above. What TLC alone shows is liveness
(`RequestsAnswered`, `EverythingEnds`,
`EveryCallbackAnswers`, `LeaderListed`, `DeadPeerRemoved`, `StartEnds`,
`PairServed`, `FirstMatchEnds`, `AbsenceSettled`): these properties rest on
fairness, which the prover does not handle.

## 5. Where the models differ from the documentation

The properties above say what the code does keep, with the causes it has to
admit. Some sentences of the documentation promise more; they are not
properties of the project, and these are the steps of the models by which the
code departs from them:

- The stock of packs and the inventories are "100% consistente em todos os nós"
  (repository README, line 21). The opening that empties the deck replicates no
  deck (`CardsAfter`), and an opening whose command fails stays in the inventory
  of the server that tried. `DivergenceExplained` lists the causes.
- "mantém o contador consistente" (`store.go:92`). Two accounts whose commands
  enter the log in the other order leave the counter at the lower id.
- "se id == 0, não conseguiu criar usuário" (`../client/API/pubsub.go:60`). A
  call whose answer was late or lost has created the account
  (`RetriesExplained` counts it).
- One node receives a message and the leader processes it (repository README,
  lines 42 to 45). Every server handles it, and the leader of a cluster on one
  host is not the one that port 8080 reaches (`BothDeployments`).
- "Lista sincronizada de membros" (`store.go:33`). A change of leader between
  the two changes of a join or leave leaves the lists different
  (`MembersExplained`), and the monitor, which "remove os inativos"
  (`main.go:120`), removes by id a server that has come back elsewhere.
- "FATAL: Failed to join cluster" (`main.go:310`). The cluster may have made the
  server a voter all the same (`AddVoterLate`), and with several servers on one
  host, as the repository README and the makefile start them, a cluster at rest
  turns a server away because the port of the leader's host is another server's
  (`Misdirected`).
- "Node added successfully to Raft and FSM" (`server-api.go:276`). A removal that
  was under way may take the server out again after it (`RemoveServer`).
- "Só o líder coordena o login" (`pubsub.go:190`). `handleLogin` does not look
  whether it leads (`decider` of `Login`).
- "sem bloquear o arranque do Raft" (`main.go:348`). A message that arrives
  before `RaftLog` is set ends the process (`Deliver`).
- "reconexão para robustez" (`pubsub.go:43`). After five attempts the library
  closes the connection for good (`GiveUp`), and `SetupPS` does not look at the
  error of the first one (`Connect`).

## 6. What is not modelled

- The composition of the protocol modules in one: each takes the others'
  promise as an action (section 2), since their product is beyond TLC. In
  `GameCluster` a forwarded execution reaches the leader or does not happen.
- A match whose players are in another menu when it starts: a client that is not in `RequestFindMatch` does not
  answer, which `StartMatch` covers.
- Trade requests of the client: no server subscribes to `topic.sendTrade`, so
  they time out after a second.
- Callbacks that a shutdown cuts off between two steps: to the other parts they
  are the crash of `GameCluster` and the lost answer of `Forwarding`.
- A read of a `[3]int` that is torn by a concurrent swap: `SwapSeen` replaces
  whole packs, the array the build copies word by word.
- Raft itself: terms, votes and replication are `RaftLog`'s assumption.
- Health checks, ping, heartbeat, `seeCards`, logging, Docker and the makefile:
  they change no state the other parts read. `common/` is used by nobody.

## 7. Plan

All components with state that other parts read are modelled. What a later
extension could add is `ResultsTrue` through a change of leader with the cards
of `GameCluster`'s log, and a founder's second life joined with `Membership`.

## Running

    tlc -workers 2 -config MCReplication.cfg MCGameCluster.tla
    tlc -workers 2 -config MCPackLoop.cfg Packs.tla
    tlc -workers 2 -config MCFanOut.cfg FanOut.tla
    tlc -workers 2 -config MCForwarding.cfg MCForwarding.tla
    tlc -workers 2 -config MCStartUp.cfg MCStartUp.tla
    tlapm GameClusterProofs.tla
    tlapm StartUpProofs.tla

`PROJECT.json` names the module of every run. The longest, `MCForwarding`,
`MCStartUp`, `MCMatchmaking` and `MCClientGame`, take two to three minutes.
