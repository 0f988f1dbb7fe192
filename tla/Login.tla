-------------------------------- MODULE Login --------------------------------
(***************************************************************************)
(* Clients that log in with one id: RequestLogin, LoggedIn and the menu of *)
(* src/client, the callback of topic.login and isLogged of                 *)
(* src/server/API/pubsub.go, and handleLogin and checkIfAnyNodeLogged of   *)
(* src/server/API/server-api.go.                                           *)
(*                                                                         *)
(* No server keeps sessions.  Who is logged in is who answers on           *)
(* topic.loggedIn, which the members that the deciding server has on its   *)
(* list by then ask on its behalf; the goroutines of the question are      *)
(* FanOut's, and the list is Membership's.  A client subscribes only after *)
(* it was let in.                                                          *)
(***************************************************************************)
EXTENDS Integers, FiniteSets

CONSTANTS
  Client,
  Server,
  NoServer,
  MaxLogins,       \* bound on login requests
  MaxDisruptions   \* bound on changes of leader and lost contacts

ASSUME LoginAssumption ==
  /\ IsFiniteSet(Client)
  /\ NoServer \notin Server
  /\ MaxLogins \in Nat
  /\ MaxDisruptions \in Nat

Request == 1 .. MaxLogins
NoRequest == 0

VARIABLES
  \* Raft and the counter of accounts.
  leader,
  knows,       \* knows[s]: Leader() of s
  disruptions,
  count,       \* count[s]: s.count; the id in question is 1
  \* The clients.
  client,      \* client[c]: where c is; it answers on topic.loggedIn when "in"
  current,     \* current[c]: the request c waits for or was let in by
  requests,    \* published, numbered in the order of publication
  \* The callbacks of topic.login.
  callback,    \* callback[s][r]: what server s does with request r
  decider,     \* decider[s][r]: the server that runs the check for it
  unheard,     \* unheard[s][r]: members that have not answered the check
  found,       \* found[s][r]: one of them said yes
  replies,     \* replies[r]: published on the inbox of r
  \* What the property relates.
  missed,      \* requests in whose checks a client that was in was not heard
  overlapped   \* pairs of clients that were on their way in at once

raftVars == <<leader, knows, disruptions, count>>
clientVars == <<client, current, requests>>
checkVars == <<callback, decider, unheard, found, replies>>
vars == <<raftVars, clientVars, checkVars, missed, overlapped>>

Init ==
  /\ leader \in Server
  /\ knows = [s \in Server |-> leader]
  /\ disruptions = 0
  /\ count = [s \in Server |-> 0]
  /\ client = [c \in Client |-> "out"]
  /\ current = [c \in Client |-> NoRequest]
  /\ requests = 0
  /\ callback = [s \in Server |-> [r \in Request |-> "none"]]
  /\ decider = [s \in Server |-> [r \in Request |-> NoServer]]
  /\ unheard = [s \in Server |-> [r \in Request |-> {}]]
  /\ found = [s \in Server |-> [r \in Request |-> FALSE]]
  /\ replies = [r \in Request |-> {}]
  /\ missed = {}
  /\ overlapped = {}

-----------------------------------------------------------------------------
(* Raft.                                                                    *)

Disrupt ==
  /\ disruptions < MaxDisruptions
  /\ disruptions' = disruptions + 1

Elect(s) ==
  /\ Disrupt
  /\ s # leader
  /\ leader' = s
  /\ knows' = [knows EXCEPT ![s] = s]
  /\ UNCHANGED <<count, clientVars, checkVars, missed, overlapped>>

LoseContact(s) ==
  /\ Disrupt
  /\ s # leader
  /\ knows' = [knows EXCEPT ![s] = NoServer]
  /\ UNCHANGED <<leader, count, clientVars, checkVars, missed, overlapped>>

Learn(s) ==
  /\ knows[s] # leader
  /\ knows' = [knows EXCEPT ![s] = leader]
  /\ UNCHANGED <<leader, disruptions, count, clientVars, checkVars, missed, overlapped>>

\* Mutation of ApplyAccount: the follower counts the commands it applies.
ApplyAccountCounting(s) ==
  /\ \E t \in Server : count[t] >= 1
  /\ count' = [count EXCEPT ![s] = @ + 1]
  /\ UNCHANGED <<leader, knows, disruptions, clientVars, checkVars, missed, overlapped>>

\* A server applies the account's command after the leader that created it, one
\* that is elected in between no sooner.
ApplyAccount(s) ==
  /\ \E t \in Server : count[t] = 1
  /\ count' = [count EXCEPT ![s] = 1]
  /\ UNCHANGED <<leader, knows, disruptions, clientVars, checkVars, missed, overlapped>>

-----------------------------------------------------------------------------
(* The client.                                                              *)

Online == \E c \in Client : client[c] = "in"

OnTheWayIn == {c \in Client : client[c] \in {"asking", "letIn"}}

\* Client c sets out: what it did before no longer counts.
SetOut(c) ==
  overlapped' = {p \in overlapped : c \notin p} \cup {{c, d} : d \in OnTheWayIn}

\* RequestCreateAccount: the new account is entered without a login.
CreateAccount(c) ==
  /\ client[c] = "out"
  /\ \A s \in Server : count[s] = 0
  /\ count' = [count EXCEPT ![leader] = 1]
  /\ client' = [client EXCEPT ![c] = "letIn"]
  /\ current' = [current EXCEPT ![c] = NoRequest]
  /\ SetOut(c)
  /\ UNCHANGED <<leader, knows, disruptions, requests, checkVars, missed>>

\* RequestLogin: the message reaches every server's subscription.
AskLogin(c) ==
  /\ client[c] = "out"
  /\ requests < MaxLogins
  /\ requests' = requests + 1
  /\ client' = [client EXCEPT ![c] = "asking"]
  /\ current' = [current EXCEPT ![c] = requests + 1]
  /\ callback' = [s \in Server |-> [callback[s] EXCEPT ![requests + 1] = "pending"]]
  /\ SetOut(c)
  /\ UNCHANGED <<raftVars, decider, unheard, found, replies, missed>>

\* The first reply decides; one without a result makes the client panic.
ReceiveReply(c) ==
  /\ client[c] = "asking"
  /\ \E a \in replies[current[c]] :
       client' = [client EXCEPT ![c] = CASE a = "free" -> "letIn"
                                         [] a \in {"logged", "err"} -> "out"
                                         [] a = "nil" -> "panicked"]
  /\ replies' = [replies EXCEPT ![current[c]] = {}]
  /\ UNCHANGED <<raftVars, current, requests, callback, decider, unheard, found, missed, overlapped>>

TimeOut(c) ==
  /\ client[c] = "asking"
  /\ client' = [client EXCEPT ![c] = "out"]
  /\ replies' = [replies EXCEPT ![current[c]] = {}]
  /\ UNCHANGED <<raftVars, current, requests, callback, decider, unheard, found, missed, overlapped>>

\* LoggedIn: the subscription to topic.loggedIn.
LoggedIn(c) ==
  /\ client[c] = "letIn"
  /\ client' = [client EXCEPT ![c] = "in"]
  /\ UNCHANGED <<raftVars, current, requests, checkVars, missed, overlapped>>

\* Option 5 of the main menu, and Unsubscribe.
Leave(c) ==
  /\ client[c] = "in"
  /\ client' = [client EXCEPT ![c] = "out"]
  /\ UNCHANGED <<raftVars, current, requests, checkVars, missed, overlapped>>

-----------------------------------------------------------------------------
(* The servers.                                                             *)

\* Callback s answers request r; nobody sees it when no client waits for it.
Reply(s, r, a) ==
  /\ callback' = [callback EXCEPT ![s][r] = "over"]
  /\ decider' = [decider EXCEPT ![s][r] = NoServer]
  /\ unheard' = [unheard EXCEPT ![s][r] = {}]
  /\ found' = [found EXCEPT ![s][r] = FALSE]
  /\ replies' = IF \E c \in Client : client[c] = "asking" /\ current[c] = r
                THEN [replies EXCEPT ![r] = @ \cup {a}] ELSE replies

\* A subscription delivers one message at a time, in order.
Turn(s, r) ==
  /\ callback[s][r] = "pending"
  /\ \A q \in 1 .. r - 1 : callback[s][q] = "over"

\* "user not found", by the own counter; "NO_LEADER".
Refuse(s, r) ==
  /\ Turn(s, r)
  /\ 1 > count[s] \/ knows[s] = NoServer
  /\ Reply(s, r, "err")
  /\ UNCHANGED <<raftVars, clientVars, missed, overlapped>>

\* Mutation of Check: the server asks no one but itself, and only if it leads.
CheckNobody(s, r) ==
  /\ Turn(s, r)
  /\ 1 <= count[s]
  /\ knows[s] # NoServer
  /\ callback' = [callback EXCEPT ![s][r] = "checking"]
  /\ decider' = [decider EXCEPT ![s][r] = knows[s]]
  /\ \E members \in SUBSET Server :
       /\ unheard' = [unheard EXCEPT ![s][r] = IF knows[s] = s THEN members \cap {s} ELSE {}]
       /\ missed' = IF members = {} /\ Online THEN missed \cup {r} ELSE missed
  /\ UNCHANGED <<raftVars, clientVars, found, replies, overlapped>>

\* checkIfAnyNodeLogged, in the callback of a leader or in the handler that a
\* follower's request reaches, which does not ask whether it leads.  It asks the
\* members that the deciding server has applied: any set of servers, and none for
\* a founder before the first tick of its monitor.
Check(s, r) ==
  /\ Turn(s, r)
  /\ 1 <= count[s]
  /\ knows[s] # NoServer
  /\ callback' = [callback EXCEPT ![s][r] = "checking"]
  /\ decider' = [decider EXCEPT ![s][r] = knows[s]]
  /\ \E members \in SUBSET Server :
       /\ unheard' = [unheard EXCEPT ![s][r] = members]
       /\ missed' = IF members = {} /\ Online THEN missed \cup {r} ELSE missed
  /\ UNCHANGED <<raftVars, clientVars, found, replies, overlapped>>

\* Member m asks topic.loggedIn; it takes 150 ms without an answer for a no, and
\* so does the caller 600 ms, also of a member that is down.
Hear(s, r, m) ==
  /\ callback[s][r] = "checking"
  /\ m \in unheard[s][r]
  /\ unheard' = [unheard EXCEPT ![s][r] = @ \ {m}]
  /\ \/ found' = [found EXCEPT ![s][r] = @ \/ Online] /\ UNCHANGED missed
     \/ Online /\ missed' = missed \cup {r} /\ UNCHANGED found
  /\ UNCHANGED <<raftVars, clientVars, callback, decider, replies, overlapped>>

Conclude(s, r) ==
  /\ callback[s][r] = "checking"
  /\ found[s][r] \/ unheard[s][r] = {}
  /\ Reply(s, r, IF found[s][r] THEN "logged" ELSE "free")
  /\ UNCHANGED <<raftVars, clientVars, missed, overlapped>>

\* The attempts of the follower's forwardToLeaderViaREST are used up: its reply
\* has neither an error nor a result.
ForwardFailed(s, r) ==
  /\ callback[s][r] = "checking"
  /\ decider[s][r] # s
  /\ Reply(s, r, "nil")
  /\ UNCHANGED <<raftVars, clientVars, missed, overlapped>>

-----------------------------------------------------------------------------
Next ==
  \/ \E s \in Server : Elect(s) \/ LoseContact(s) \/ Learn(s) \/ ApplyAccount(s)
  \/ \E c \in Client :
       \/ CreateAccount(c) \/ AskLogin(c) \/ ReceiveReply(c)
       \/ TimeOut(c) \/ LoggedIn(c) \/ Leave(c)
  \/ \E s \in Server, r \in Request :
       \/ Refuse(s, r) \/ Check(s, r) \/ Conclude(s, r) \/ ForwardFailed(s, r)
       \/ \E m \in Server : Hear(s, r, m)

Spec == Init /\ [][Next]_vars

-----------------------------------------------------------------------------
TypeOK ==
  /\ leader \in Server
  /\ knows \in [Server -> Server \cup {NoServer}]
  /\ disruptions \in 0 .. MaxDisruptions
  /\ count \in [Server -> {0, 1}]
  /\ client \in [Client -> {"out", "asking", "letIn", "in", "panicked"}]
  /\ current \in [Client -> Request \cup {NoRequest}]
  /\ requests \in 0 .. MaxLogins
  /\ callback \in [Server -> [Request -> {"none", "pending", "checking", "over"}]]
  /\ decider \in [Server -> [Request -> Server \cup {NoServer}]]
  /\ unheard \in [Server -> [Request -> SUBSET Server]]
  /\ found \in [Server -> [Request -> BOOLEAN]]
  /\ replies \in [Request -> SUBSET {"err", "free", "logged", "nil"}]
  /\ missed \subseteq Request
  /\ overlapped \subseteq SUBSET Client

\* Two clients are logged in with one id only if they were on their way in at
\* the same time, or in the check of one of them a member did not hear a client in
\* time or the deciding server's list of members was empty.  A login that began after
\* the other client subscribed is otherwise refused by every server that answers
\* it, through changes of leader, lists that lag, clients that leave and come
\* back, and replies to requests that had timed out.
DoubleLoginExplained ==
  \A c, d \in Client :
    c # d /\ client[c] = "in" /\ client[d] = "in"
      => {c, d} \in overlapped \/ current[c] \in missed \/ current[d] \in missed
=============================================================================
