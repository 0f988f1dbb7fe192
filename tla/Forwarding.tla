----------------------------- MODULE Forwarding ------------------------------
(***************************************************************************)
(* What becomes of one request of a client, from the publication on the    *)
(* broker to the reply the client acts on: the callbacks of                *)
(* src/server/API/pubsub.go, forwardToLeaderViaREST and the internal REST  *)
(* handlers of src/server/API/server-api.go, and the request functions of  *)
(* src/client/API/pubsub.go.                                               *)
(*                                                                         *)
(* The subscriptions have no queue group, so the callback of every server  *)
(* handles the message.  A server that does not believe it leads forwards; *)
(* so does the REST handler it reaches, and so on.  What the operation     *)
(* does to the game is GameCluster's subject: here it is a command that is *)
(* committed or not.                                                       *)
(*                                                                         *)
(* A callee that crashed and an answer that is late are the same to the    *)
(* caller, a call whose answer is lost, so crashes have no action.         *)
(***************************************************************************)
EXTENDS Integers, FiniteSets

CONSTANTS
  Server,
  NoServer,     \* Leader() knows of none
  Operation,    \* of the request
  Deployments,  \* the ways the servers are spread over hosts
  Attempts,     \* retries
  MaxCalls,     \* bound on REST calls; further ones are refused
  MaxDisruptions \* bound on changes of leader and lost contacts

ASSUME ForwardingAssumption ==
  /\ IsFiniteSet(Server)
  /\ NoServer \notin Server
  /\ Operation \in {"createAccount", "openPack", "findMatch"}
  /\ Deployments \subseteq [Server -> Server]
  /\ Attempts \in Nat \ {0}
  /\ MaxCalls \in Nat
  /\ MaxDisruptions \in Nat
  /\ Server \cap (0 .. MaxCalls) = {} \* a task is a server or a call

VARIABLES
  \* The part of raft that forwarding depends on.
  leader,     \* the server whose proposals can be committed
  knows,      \* knows[s]: what Leader() returns at s; s believes it leads iff it is s
  disruptions,
  httpOf,     \* httpOf[s]: who listens on port 8080 of the host of s; fixed
  \* The tasks: the callbacks, named by their servers, and the REST calls.
  at,         \* at[t]: the server that runs t
  pc,
  attempt,    \* attempt[t]: i + 1 of the loop, 0 before it
  callee,     \* callee[t]: the call that t waits for
  answer,     \* answer[t]: the StandardResponse, or what s.CreatePlayer() returned
  calls,      \* REST calls sent
  \* What the properties relate.
  proposed,   \* executions of the operation that proposed their command
  committed,  \* those whose command was or will be applied
  failures,   \* attempts without a leader or without an answer
  replies,    \* published on the inbox of the client
  outcome     \* what the client makes of the first

raftVars == <<leader, knows, disruptions, httpOf>>
taskVars == <<at, pc, attempt, callee, answer, calls>>
countVars == <<proposed, committed, failures>>
clientVars == <<replies, outcome>>
vars == <<raftVars, taskVars, countVars, clientVars>>

Call == 1 .. MaxCalls
Task == Server \cup Call

NoCall == 0

Init ==
  /\ httpOf \in Deployments
  /\ leader \in {s \in Server : httpOf[s] = s} \* the bootstrap server has port 8080
  /\ knows = [s \in Server |-> leader]
  /\ disruptions = 0
  /\ at = [t \in Task |-> IF t \in Server THEN t ELSE NoServer]
  /\ pc = [t \in Task |-> IF t \in Server THEN "received" ELSE "unused"]
  /\ attempt = [t \in Task |-> 0]
  /\ callee = [t \in Task |-> NoCall]
  /\ answer = [t \in Task |-> "none"]
  /\ calls = 0
  /\ proposed = 0
  /\ committed = 0
  /\ failures = 0
  /\ replies = {}
  /\ outcome = "waiting"

-----------------------------------------------------------------------------
(* Raft.                                                                    *)

Elect(s) ==
  /\ disruptions < MaxDisruptions
  /\ s # leader
  /\ leader' = s
  /\ knows' = [knows EXCEPT ![s] = s]
  /\ disruptions' = disruptions + 1
  /\ UNCHANGED <<httpOf, taskVars, countVars, clientVars>>

\* A server hears of the leader (a deposed one steps down) or loses contact.
Learn(s) ==
  /\ knows[s] # leader
  /\ knows' = [knows EXCEPT ![s] = leader]
  /\ UNCHANGED <<leader, disruptions, httpOf, taskVars, countVars, clientVars>>

LoseContact(s) ==
  /\ s # leader
  /\ disruptions < MaxDisruptions
  /\ knows[s] # NoServer
  /\ knows' = [knows EXCEPT ![s] = NoServer]
  /\ disruptions' = disruptions + 1
  /\ UNCHANGED <<leader, httpOf, taskVars, countVars, clientVars>>

-----------------------------------------------------------------------------
(* The callbacks and the REST handlers.                                     *)

\* What the callback of a server publishes for its answer: the error of the own
\* operation as such, but the Payload of the leader's StandardResponse, which
\* an error does not have.
Published(t, a) ==
  IF a = "ok" THEN "ok" ELSE IF attempt[t] = 0 THEN "err" ELSE "null"

\* Task t ends; a callback publishes, a handler writes its response.
Answer(t, a) ==
  /\ pc' = [pc EXCEPT ![t] = "answered"]
  /\ answer' = [answer EXCEPT ![t] = a]
  /\ replies' = IF t \in Server THEN replies \cup {Published(t, a)} ELSE replies

\* The test of State() that every callback and handler starts with.
CheckLeader(t) ==
  /\ pc[t] = "received"
  /\ IF knows[at[t]] = at[t]
     THEN /\ pc' = [pc EXCEPT ![t] = "executing"]
          /\ UNCHANGED attempt
     ELSE /\ pc' = [pc EXCEPT ![t] = "forwarding"]
          /\ attempt' = [attempt EXCEPT ![t] = 1]
  /\ UNCHANGED <<raftVars, at, callee, answer, calls, countVars, clientVars>>

\* RaftLog.Apply inside the operation: a server that no longer leads, or whose
\* raft is too busy for 500 ms, rejects the command.
Propose(t) ==
  /\ pc[t] = "executing"
  /\ \/ leader = at[t] /\ pc' = [pc EXCEPT ![t] = "appended"]
     \/ pc' = [pc EXCEPT ![t] = "rejected"]
  /\ proposed' = proposed + 1
  /\ UNCHANGED <<raftVars, at, attempt, callee, answer, calls, committed, failures, clientVars>>

Applied(t) ==
  /\ pc[t] = "appended"
  /\ leader = at[t]
  /\ committed' = committed + 1
  /\ Answer(t, "ok")
  /\ UNCHANGED <<raftVars, at, attempt, callee, calls, proposed, failures, outcome>>

\* Mutation of ApplyFailed: the error of the operation is ignored.
ApplyFailedIgnored(t) ==
  /\ \/ pc[t] = "rejected" /\ UNCHANGED committed
     \/ pc[t] = "appended" /\ leader # at[t] /\ committed' \in {committed, committed + 1}
  /\ Answer(t, "ok")
  /\ UNCHANGED <<raftVars, at, attempt, callee, calls, proposed, failures, outcome>>

\* RAFT_APPLY_ERROR.  When leadership was lost after the command was appended
\* the next leader may yet commit it.
ApplyFailed(t) ==
  /\ \/ pc[t] = "rejected" /\ UNCHANGED committed
     \/ pc[t] = "appended" /\ leader # at[t] /\ committed' \in {committed, committed + 1}
  /\ Answer(t, "error")
  /\ UNCHANGED <<raftVars, at, attempt, callee, calls, proposed, failures, outcome>>

\* The attempt of t failed: back-off and continue.
NextAttempt(t) ==
  /\ pc' = [pc EXCEPT ![t] = "forwarding"]
  /\ attempt' = [attempt EXCEPT ![t] = @ + 1]
  /\ failures' = failures + 1

\* Mutation of NoLeader: the wait for a leader is not counted as an attempt.
NoLeaderUncounted(t) ==
  /\ pc[t] = "forwarding"
  /\ attempt[t] <= Attempts
  /\ knows[at[t]] = NoServer
  /\ UNCHANGED vars

\* Mutation of NoLeader: the loop does not count the attempts.
NoLeaderEndless(t) ==
  /\ pc[t] = "forwarding"
  /\ knows[at[t]] = NoServer
  /\ NextAttempt(t)
  /\ UNCHANGED <<raftVars, at, callee, answer, calls, proposed, committed, clientVars>>

\* Leader() is empty.
NoLeader(t) ==
  /\ pc[t] = "forwarding"
  /\ attempt[t] <= Attempts
  /\ knows[at[t]] = NoServer
  /\ NextAttempt(t)
  /\ UNCHANGED <<raftVars, at, callee, answer, calls, proposed, committed, clientVars>>

\* The POST to port 8080 of the leader's host arrives.
Send(t) ==
  /\ pc[t] = "forwarding"
  /\ attempt[t] <= Attempts
  /\ knows[at[t]] # NoServer
  /\ calls < MaxCalls
  /\ LET c == calls + 1 IN
       /\ calls' = c
       /\ callee' = [callee EXCEPT ![t] = c]
       /\ at' = [at EXCEPT ![c] = httpOf[knows[at[t]]]]
       /\ pc' = [pc EXCEPT ![t] = "awaiting", ![c] = "received"]
  /\ UNCHANGED <<raftVars, attempt, answer, countVars, clientVars>>

\* The connection is refused.
Unreachable(t) ==
  /\ pc[t] = "forwarding"
  /\ attempt[t] <= Attempts
  /\ knows[at[t]] # NoServer
  /\ NextAttempt(t)
  /\ UNCHANGED <<raftVars, at, callee, answer, calls, proposed, committed, clientVars>>

\* The 5 s of the HTTP client are over; the callee goes on.
TimeOut(t) ==
  /\ pc[t] = "awaiting"
  /\ NextAttempt(t)
  /\ UNCHANGED <<raftVars, at, callee, answer, calls, proposed, committed, clientVars>>

\* Mutation of Receive: a response that is not a success is tried again.
ReceiveRetrying(t) ==
  /\ pc[t] = "awaiting"
  /\ pc[callee[t]] = "answered"
  /\ IF answer[callee[t]] = "ok" \/ attempt[t] = Attempts
     THEN Answer(t, answer[callee[t]]) /\ UNCHANGED attempt
     ELSE /\ pc' = [pc EXCEPT ![t] = "forwarding"]
          /\ attempt' = [attempt EXCEPT ![t] = @ + 1]
          /\ UNCHANGED <<answer, replies>>
  /\ UNCHANGED <<raftVars, at, callee, calls, countVars, outcome>>

\* Any response that can be decoded is returned, an error too.
Receive(t) ==
  /\ pc[t] = "awaiting"
  /\ pc[callee[t]] = "answered"
  /\ Answer(t, answer[callee[t]])
  /\ UNCHANGED <<raftVars, at, attempt, callee, calls, countVars, outcome>>

\* The connection breaks while the body is read: FORWARD_READ_RESPONSE_ERROR.
ReadError(t) ==
  /\ pc[t] = "awaiting"
  /\ pc[callee[t]] = "answered"
  /\ Answer(t, "error")
  /\ failures' = failures + 1
  /\ UNCHANGED <<raftVars, at, attempt, callee, calls, proposed, committed, outcome>>

\* FORWARD_FAILED_MAX_RETRIES.
GiveUp(t) ==
  /\ pc[t] = "forwarding"
  /\ attempt[t] > Attempts
  /\ Answer(t, "error")
  /\ UNCHANGED <<raftVars, at, attempt, callee, calls, countVars, outcome>>

-----------------------------------------------------------------------------
(* The client.                                                              *)

\* RequestCreateAccount returns 0 for whatever has no player_id; RequestOpenPack
\* returns the error if there is one and then asserts the type of the cards;
\* RequestFindMatch only looks at the error.
Understood(reply) ==
  CASE reply = "ok" -> "accepted"
    [] reply = "err" -> "refused"
    [] reply = "null" ->
         [createAccount |-> "refused", openPack |-> "panicked", findMatch |-> "accepted"][Operation]

\* Messages of different servers arrive in any order; the others are dropped.
ClientReceive(reply) ==
  /\ outcome = "waiting"
  /\ outcome' = Understood(reply)
  /\ UNCHANGED <<raftVars, taskVars, countVars, replies>>

\* The request of the client times out after a second.
ClientTimeOut ==
  /\ outcome = "waiting"
  /\ outcome' = "refused"
  /\ UNCHANGED <<raftVars, taskVars, countVars, replies>>

Run(t) ==
  \/ CheckLeader(t) \/ Propose(t) \/ Applied(t) \/ ApplyFailed(t)
  \/ NoLeader(t) \/ Send(t) \/ Unreachable(t) \/ TimeOut(t)
  \/ Receive(t) \/ ReadError(t) \/ GiveUp(t)

Client == ClientTimeOut \/ \E reply \in replies : ClientReceive(reply)

Next ==
  \/ \E s \in Server : Elect(s) \/ Learn(s) \/ LoseContact(s)
  \/ \E t \in Task : Run(t)
  \/ Client

Spec == Init /\ [][Next]_vars

\* Goroutines run and the timeouts of both HTTP client and broker expire.
\* Nothing is assumed of elections or of what the servers know.
FairSpec ==
  /\ Spec
  /\ \A t \in Task : WF_vars(Run(t))
  /\ WF_vars(Client)

-----------------------------------------------------------------------------
TypeOK ==
  /\ leader \in Server
  /\ knows \in [Server -> Server \cup {NoServer}]
  /\ disruptions \in 0 .. MaxDisruptions
  /\ httpOf \in Deployments
  /\ at \in [Task -> Server \cup {NoServer}]
  /\ pc \in [Task -> {"unused", "received", "executing", "appended", "rejected",
                      "forwarding", "awaiting", "answered"}]
  /\ attempt \in [Task -> 0 .. Attempts + 1]
  /\ callee \in [Task -> Call \cup {NoCall}]
  /\ answer \in [Task -> {"none", "ok", "error"}]
  /\ calls \in 0 .. MaxCalls
  /\ proposed \in Nat
  /\ committed \in Nat
  /\ failures \in Nat
  /\ replies \subseteq {"ok", "err", "null"}
  /\ outcome \in {"waiting", "accepted", "refused", "panicked"}

CallbacksAnswered == \A s \in Server : pc[s] = "answered"

\* A request is executed once for every server, give or take the attempts that
\* failed: a failed attempt leaves at most one execution that was not answered,
\* or one callback without an execution.  An error that was answered is not
\* tried again, however long the chain of servers it came through.
RetriesExplained ==
  /\ proposed <= Cardinality(Server) + failures
  /\ CallbacksAnswered => proposed + failures >= Cardinality(Server)

\* An account or a pack the client shows exists: the answer that the client
\* takes, whichever server sent it, goes back to a command that was committed.
\* RequestFindMatch does not have this: it takes "null" for a place in the queue.
AcceptedExecuted == outcome = "accepted" => committed > 0

\* Every callback ends and the client gets an outcome, though handlers forward
\* to each other, or on one host to themselves, and the leader may be unknown
\* for good.  A callback that does
\* not end holds up all later messages of its subscription.
EveryCallbackAnswers == <>(CallbacksAnswered /\ outcome # "waiting")
=============================================================================
