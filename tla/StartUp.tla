------------------------------- MODULE StartUp --------------------------------
(***************************************************************************)
(* The lives of one server's process from start to end: main and setupRaft *)
(* of src/server/main.go, SetupPS and BrokerConnect of                     *)
(* src/server/API/pubsub.go, and, through JoinCluster, joinCluster against *)
(* the handlers of the cluster it asks.                                    *)
(*                                                                         *)
(* It is started with the same command line again after it ended, however  *)
(* that came about.  The goroutine of the broker runs beside main.  A       *)
(* leader's monitor that found it off removes it when it gets to it, which  *)
(* may be after it has joined again.                                        *)
(***************************************************************************)
EXTENDS JoinCluster

\* --peers names at least one peer.
ASSUME StartUpAssumption == PeersFlag # <<>>

VARIABLES
  flags,    \* what it is started with
  phase,    \* where main is
  raftLog,  \* store.RaftLog is set
  broker,   \* the connection to the broker, with its subscriptions
  data,     \* its directory holds the raft state of the cluster it founded
  brokerUp

processVars == <<phase, raftLog, broker>>
lastingVars == <<flags, data>>
startVars == <<processVars, lastingVars, brokerUp>>
vars == <<joinVars, startVars>>

Init ==
  /\ JoinInit
  /\ flags \in {"--bootstrap", "--peers", "neither"}
  /\ phase = "off"
  /\ raftLog = FALSE
  /\ broker = "none"
  /\ data = FALSE
  /\ brokerUp \in BOOLEAN

\* What no step of the start touches of the cluster.
clusterVars == <<leader, knows, restless, refused, removals, removed, voter, member>>

\* The process is gone, and its goroutines with it; a join that failed is known.
End(outcome) ==
  /\ phase' = "off"
  /\ raftLog' = FALSE
  /\ broker' = "none"
  /\ Orphaned
  /\ result' = outcome
  /\ UNCHANGED <<clusterVars, failures, lastingVars>>

Goto(next) == phase' = next /\ UNCHANGED <<broker, brokerUp>>

-----------------------------------------------------------------------------
(* The main goroutine.                                                      *)

\* The goroutine of SetupPS is started before setupRaft is called.
Start ==
  /\ phase = "off"
  /\ phase' = "setup"
  /\ broker' = "connecting"
  /\ result' = "none"
  /\ failures' = 0
  /\ restless' = (\E s \in Server : knows[s] # leader)
  /\ refused' = FALSE
  /\ removed' = {}
  /\ UNCHANGED <<leader, knows, disruptions, voter, member, removals, handlerVars>>
  /\ UNCHANGED <<peers, triedPeers, asking, raftLog, lastingVars, brokerUp>>

AfterSetup == IF flags = "--bootstrap" THEN "bootstrap" ELSE "fields"

\* NewRaft on the stores in data/<id>.
SetupRaft ==
  /\ phase = "setup"
  /\ Goto(AfterSetup)
  /\ UNCHANGED <<joinVars, raftLog, lastingVars>>

\* An address, a port or a file: Fatal.
SetupRaftFailed ==
  /\ phase = "setup"
  /\ Disrupt
  /\ End("none")
  /\ UNCHANGED brokerUp

Bootstrap ==
  /\ phase = "bootstrap"
  /\ ~data
  /\ data' = TRUE
  /\ Goto("fields")
  /\ UNCHANGED <<joinVars, raftLog, flags>>

\* BootstrapCluster refuses to where there is a state, and the process ends.
BootstrapFailed ==
  /\ phase = "bootstrap"
  /\ data
  /\ End("none")
  /\ UNCHANGED <<disruptions, brokerUp>>

AfterFields == IF flags = "--peers" THEN "joining" ELSE "listen"

\* The fields of the Store are filled, observer and monitor started.
SetFields ==
  /\ phase = "fields"
  /\ raftLog' = TRUE
  /\ Goto(AfterFields)
  /\ UNCHANGED <<joinVars, lastingVars>>

\* A step of the loop.
Join ==
  /\ phase = "joining"
  /\ joinCluster
  /\ IF result' = "joined" THEN Goto("listen") ELSE UNCHANGED <<processVars, brokerUp>>
  /\ UNCHANGED <<raftLog, lastingVars>>

JoinFailed ==
  /\ phase = "joining"
  /\ Exhausted
  /\ End("fatal")
  /\ UNCHANGED <<disruptions, brokerUp>>

\* The REST API, only now.
Listen ==
  /\ phase = "listen"
  /\ Goto("serving")
  /\ UNCHANGED <<joinVars, raftLog, lastingVars>>

\* SIGINT or SIGTERM: the REST API is closed, then raft.
Interrupt ==
  /\ phase = "serving"
  /\ Disrupt
  /\ Goto("stopping")
  /\ UNCHANGED <<clusterVars, handlerVars, joinerVars, raftLog, lastingVars>>

Shutdown ==
  /\ phase = "stopping"
  /\ End("none")
  /\ UNCHANGED <<disruptions, brokerUp>>

Crash ==
  /\ phase # "off"
  /\ Disrupt
  /\ End("none")
  /\ UNCHANGED brokerUp

\* The monitor of s, which has it in its configuration, checks it twice in vain:
\* it is off, its port of raft is not open yet, or the connections are lost.
ChecksFailed(s) ==
  /\ voter
  /\ SetOutToRemove(s)
  /\ UNCHANGED <<leader, knows, restless, refused, removed, voter, member>>
  /\ UNCHANGED <<handlerVars, joinerVars, startVars>>

-----------------------------------------------------------------------------
(* The broker and its client library.                                       *)

Broker(next) ==
  /\ broker' = next
  /\ UNCHANGED <<joinVars, phase, raftLog, lastingVars, brokerUp>>

\* SetupPS ignores the error of BrokerConnect and subscribes in either case.
Connect ==
  /\ broker = "connecting"
  /\ Broker(IF brokerUp THEN "subscribed" ELSE "closed")

\* A message of a client ends the process: its callback reads the state of
\* RaftLog, and later, in a server that runs, draws from an empty deck, takes from
\* a short queue or reads the answer that a failed forward does not have.
Deliver ==
  /\ brokerUp
  /\ broker = "subscribed"
  /\ \/ ~raftLog /\ UNCHANGED disruptions
     \/ raftLog /\ Disrupt
  /\ End("none")
  /\ UNCHANGED brokerUp

Outage ==
  /\ brokerUp
  /\ Disrupt
  /\ brokerUp' = FALSE
  /\ broker' = IF broker = "subscribed" THEN "reconnecting" ELSE broker
  /\ UNCHANGED <<clusterVars, handlerVars, joinerVars, phase, raftLog, lastingVars>>

BrokerRestarts ==
  /\ ~brokerUp
  /\ brokerUp' = TRUE
  /\ UNCHANGED <<joinVars, processVars, lastingVars>>

Reconnect ==
  /\ broker = "reconnecting"
  /\ brokerUp
  /\ Broker("subscribed")

\* MaxReconnects(5), two seconds apart: the connection is closed for good.
GiveUp ==
  /\ broker = "reconnecting"
  /\ ~brokerUp
  /\ Broker("closed")

-----------------------------------------------------------------------------
Main ==
  \/ SetupRaft \/ Bootstrap \/ BootstrapFailed \/ SetFields
  \/ Join \/ JoinFailed \/ Listen \/ Shutdown

Next ==
  \/ Start \/ Main \/ SetupRaftFailed \/ Interrupt \/ Crash
  \/ Connect \/ Deliver \/ Reconnect \/ GiveUp \/ Outage \/ BrokerRestarts
  \/ \E s \in Server : ChecksFailed(s)
  \/ Cluster /\ UNCHANGED startVars

Spec == Init /\ [][Next]_vars

\* A process that runs goes on, and its HTTP client gives up on a request after
\* 10 s.  Nobody need start it again, and no handler need answer.
FairSpec == Spec /\ WF_vars(Main)

-----------------------------------------------------------------------------
TypeOK ==
  /\ JoinTypeOK
  /\ flags \in {"--bootstrap", "--peers", "neither"}
  /\ phase \in {"off", "setup", "bootstrap", "fields", "joining", "listen", "serving", "stopping"}
  /\ raftLog \in BOOLEAN
  /\ broker \in {"none", "connecting", "subscribed", "reconnecting", "closed"}
  /\ data \in BOOLEAN
  /\ brokerUp \in BOOLEAN

\* A server that goes on after "Join process completed" votes unless a removal has
\* taken it out of the configuration since it started, and is on the list unless a
\* removal has struck it off since: leadership may change between the two changes
\* of the handler, handlers that it gave up on or that an earlier life asked may
\* still run, and so may removals that began before it was back.
JoinedIsMember ==
  result = "joined" => /\ voter \/ "voter" \in removed
                       /\ member \/ "member" \in removed

\* Port 8080 of the leader's host is another server's, as it is for a leader that
\* shares a host with the server that has the port.
Misdirected == HostOf[AddressOf[leader]] # leader

\* It gives up only if, since it started, a request was left without a response,
\* leadership changed or was not known to all, or raft did not take a command in
\* time, or if redirects lead past the leader: otherwise a cluster at rest takes
\* it in through any peer, in any order of the flag, also after a crash.
GivesUpExplained == result = "fatal" => failures > 0 \/ restless \/ refused \/ Misdirected

\* A start ends, with the REST API up or with the process over: redirects do not
\* send the server in circles, also while leaders change and servers name each
\* other, and no silent peer holds it up.
StartEnds == (phase = "setup") ~> (phase \in {"off", "serving"})
=============================================================================
