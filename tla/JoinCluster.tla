----------------------------- MODULE JoinCluster -----------------------------
(***************************************************************************)
(* A new server asks its way into the cluster: joinCluster of              *)
(* src/server/main.go against joinHandler of src/server/API/server-api.go. *)
(*                                                                         *)
(* Peers are strings: those of the flag --peers and the raft addresses     *)
(* that redirects give.  What counts of a string is its host, since the    *)
(* request goes to port 8080 of it.  The process that asks, with its lives *)
(* before and after this loop, is StartUp's, which extends this module.    *)
(* What undoes a join, leaveHandler and the monitors, is here from where    *)
(* they call RemoveServer on.                                               *)
(***************************************************************************)
EXTENDS Integers, Sequences

CONSTANTS
  Server,         \* the servers of the cluster
  NoServer,
  Peer,           \* strings that may name a peer
  NoPeer,
  HostOf,         \* HostOf[p]: who listens on port 8080 of the host of p
  AddressOf,      \* AddressOf[s]: the string that names s as the leader
  PeersFlag,      \* the strings of --peers, in order
  MaxDisruptions  \* bound on changes of leader, lost contacts, removals,
                  \* commands that raft does not take, and what StartUp adds

ASSUME JoinClusterAssumption ==
  /\ NoServer \notin Server
  /\ NoPeer \notin Peer
  /\ HostOf \in [Peer -> Server]
  /\ AddressOf \in [Server -> Peer]
  /\ PeersFlag \in Seq(Peer)
  /\ MaxDisruptions \in Nat

VARIABLES
  \* Raft, as far as the handler depends on it.
  leader,
  knows,     \* knows[s]: Leader() of s
  disruptions,
  restless,  \* since the new server started: leadership changed or was not known to all
  refused,   \* since then: raft.Apply did not take an add_member within 500 ms
  voter,     \* the new server is in the configuration
  member,    \* the new server is in s.members
  removals,  \* the servers and places of removals of the new server under way
  removed,   \* what a removal took from it since it started
  \* The handlers, one for each string that was asked in this life.
  handler,   \* handler[p]: what the handler reached by p does next
  response,  \* response[p]: the status it answered
  redirect,  \* redirect[p]: the leader that a 307 named
  late,      \* the servers and places of handlers whose asker has ended
  \* The new server.
  peers,
  triedPeers,
  asking,    \* the peer whose response it waits for
  result,
  failures   \* requests without a response

raftVars == <<leader, knows, disruptions, restless, refused, removals, removed>>
handlerVars == <<handler, response, redirect, late>>
joinerVars == <<peers, triedPeers, asking, result, failures>>
joinVars == <<raftVars, voter, member, handlerVars, joinerVars>>

NoHandler == [p \in Peer |-> "none"]
NoRedirect == [p \in Peer |-> NoPeer]

JoinInit ==
  /\ leader \in Server
  /\ knows = [s \in Server |-> leader]
  /\ disruptions = 0
  /\ restless = FALSE
  /\ refused = FALSE
  /\ voter = FALSE
  /\ member = FALSE
  /\ removals = {}
  /\ removed = {}
  /\ handler = NoHandler
  /\ response = NoHandler
  /\ redirect = NoRedirect
  /\ late = {}
  /\ peers = PeersFlag
  /\ triedPeers = {}
  /\ asking = NoPeer
  /\ result = "none"
  /\ failures = 0

-----------------------------------------------------------------------------
(* Raft.                                                                    *)

Disrupt ==
  /\ disruptions < MaxDisruptions
  /\ disruptions' = disruptions + 1

Elect(s) ==
  /\ Disrupt
  /\ s # leader
  /\ leader' = s
  /\ knows' = [knows EXCEPT ![s] = s]
  /\ restless' = TRUE
  /\ UNCHANGED <<refused, removals, removed, voter, member, handlerVars, joinerVars>>

LoseContact(s) ==
  /\ Disrupt
  /\ s # leader
  /\ knows' = [knows EXCEPT ![s] = NoServer]
  /\ restless' = TRUE
  /\ UNCHANGED <<leader, refused, removals, removed, voter, member, handlerVars, joinerVars>>

Learn(s) ==
  /\ knows[s] # leader
  /\ knows' = [knows EXCEPT ![s] = leader]
  /\ UNCHANGED <<leader, disruptions, restless, refused, removals, removed>>
  /\ UNCHANGED <<voter, member, handlerVars, joinerVars>>

-----------------------------------------------------------------------------
(* joinHandler.                                                             *)

Respond(p, status, to) ==
  /\ handler' = [handler EXCEPT ![p] = "over"]
  /\ response' = [response EXCEPT ![p] = status]
  /\ redirect' = [redirect EXCEPT ![p] = to]

\* Not the leader: a 307 with the address of the leader, or an empty one.
Redirect(p) ==
  LET h == HostOf[p] IN
  /\ handler[p] = "received"
  /\ knows[h] # h
  /\ Respond(p, "redirect", IF knows[h] = NoServer THEN NoPeer ELSE AddressOf[knows[h]])
  /\ UNCHANGED <<raftVars, voter, member, late, joinerVars>>

AddVoter(p) ==
  /\ handler[p] = "received"
  /\ knows[HostOf[p]] = HostOf[p]
  /\ leader = HostOf[p]
  /\ voter' = TRUE
  /\ handler' = [handler EXCEPT ![p] = "configured"]
  /\ UNCHANGED <<raftVars, member, response, redirect, late, joinerVars>>

\* Leadership was lost; the next leader may yet commit what was appended.  There
\* is no other reason: AddVoter waits without a limit, and the new server has a
\* raft address of its own.
AddVoterFailed(p) ==
  /\ handler[p] = "received"
  /\ knows[HostOf[p]] = HostOf[p]
  /\ leader # HostOf[p]
  /\ voter' \in {voter, TRUE}
  /\ Respond(p, "failed", NoPeer)
  /\ UNCHANGED <<raftVars, member, late, joinerVars>>

AddMember(p) ==
  /\ handler[p] = "configured"
  /\ leader = HostOf[p]
  /\ member' = TRUE
  /\ Respond(p, "OK", NoPeer)
  /\ UNCHANGED <<raftVars, voter, late, joinerVars>>

\* Mutation of AddMemberFailed: the failure is logged only, as leaveHandler does.
AddMemberFailedLogged(p) ==
  /\ handler[p] = "configured"
  /\ Disrupt
  /\ refused' = TRUE
  /\ Respond(p, "OK", NoPeer)
  /\ UNCHANGED <<leader, knows, restless, removals, removed>>
  /\ UNCHANGED <<voter, member, late, joinerVars>>

\* Leadership was lost, or a leader that stays did not take the command in time.
AddMemberFailed(p) ==
  /\ handler[p] = "configured"
  /\ \/ leader # HostOf[p] /\ member' \in {member, TRUE} /\ UNCHANGED <<refused, disruptions>>
     \/ Disrupt /\ refused' = TRUE /\ UNCHANGED member
  /\ Respond(p, "failed", NoPeer)
  /\ UNCHANGED <<leader, knows, restless, removals, removed>>
  /\ UNCHANGED <<voter, late, joinerVars>>

-----------------------------------------------------------------------------
(* joinCluster.                                                             *)

Looping == asking = NoPeer /\ result = "none" /\ peers # <<>>

Skip ==
  /\ Looping
  /\ Head(peers) \in triedPeers
  /\ peers' = Tail(peers)
  /\ UNCHANGED <<raftVars, voter, member, handlerVars, triedPeers, asking, result, failures>>

\* Mutation of Ask: the peer is not noted as tried.
AskForgetting ==
  /\ Looping
  /\ Head(peers) \notin triedPeers
  /\ peers' = Tail(peers)
  /\ asking' = Head(peers)
  /\ handler' = [handler EXCEPT ![Head(peers)] = "received"]
  /\ UNCHANGED <<raftVars, voter, member, response, redirect, late, triedPeers, result, failures>>

\* The POST of /join.
Ask ==
  /\ Looping
  /\ Head(peers) \notin triedPeers
  /\ peers' = Tail(peers)
  /\ triedPeers' = triedPeers \cup {Head(peers)}
  /\ asking' = Head(peers)
  /\ handler' = [handler EXCEPT ![Head(peers)] = "received"]
  /\ UNCHANGED <<raftVars, voter, member, response, redirect, late, result, failures>>

\* The request did not arrive, or 10 s are over while the handler goes on.
NoResponse ==
  /\ asking # NoPeer
  /\ failures' = failures + 1
  /\ asking' = NoPeer
  /\ \/ handler[asking] = "received" /\ handler' = [handler EXCEPT ![asking] = "none"]
     \/ UNCHANGED handler
  /\ UNCHANGED <<raftVars, voter, member, response, redirect, late, peers, triedPeers, result>>

Joined ==
  /\ asking # NoPeer
  /\ response[asking] = "OK"
  /\ result' = "joined"
  /\ asking' = NoPeer
  /\ UNCHANGED <<raftVars, voter, member, handlerVars, peers, triedPeers, failures>>

\* Mutation of TryNext: a redirect is treated like any other failure.
TryNextOnly ==
  /\ asking # NoPeer
  /\ response[asking] \in {"failed", "redirect"}
  /\ asking' = NoPeer
  /\ UNCHANGED <<raftVars, voter, member, handlerVars, peers, triedPeers, result, failures>>

\* After a redirect to a leader that was not asked yet, that comes last; after
\* any other answer the next peer.
TryNext ==
  /\ asking # NoPeer
  /\ response[asking] \in {"failed", "redirect"}
  /\ asking' = NoPeer
  /\ peers' = IF redirect[asking] \notin triedPeers \cup {NoPeer}
              THEN Append(peers, redirect[asking]) ELSE peers
  /\ UNCHANGED <<raftVars, voter, member, handlerVars, triedPeers, result, failures>>

\* Nobody is left to ask, and nobody said OK: log.Fatal.
Exhausted == asking = NoPeer /\ result = "none" /\ peers = <<>>

-----------------------------------------------------------------------------
(* A handler goes on when the one that asked has ended, and answers nobody. *)

Leave(h) == late' = late \ {h} /\ UNCHANGED <<raftVars, handler, response, redirect, joinerVars>>

AddVoterLate(h) ==
  /\ h[2] = "received"
  /\ knows[h[1]] = h[1] /\ leader = h[1]
  /\ voter' = TRUE
  /\ late' = (late \ {h}) \cup {<<h[1], "configured">>}
  /\ UNCHANGED <<raftVars, member, handler, response, redirect, joinerVars>>

AddMemberLate(h) ==
  /\ h[2] = "configured"
  /\ leader = h[1]
  /\ member' = TRUE
  /\ Leave(h)
  /\ UNCHANGED voter

EndLate(h) ==
  /\ \/ h[2] = "received" /\ knows[h[1]] # h[1] /\ UNCHANGED <<voter, member>>
     \/ h[2] = "received" /\ leader # h[1] /\ voter' \in {voter, TRUE} /\ UNCHANGED member
     \/ h[2] = "configured" /\ leader # h[1] /\ member' \in {member, TRUE} /\ UNCHANGED voter
     \/ h[2] = "configured" /\ UNCHANGED <<voter, member>> \* the 500 ms of raft.Apply
  /\ Leave(h)

\* The process that asked is gone: its handlers are late, its loop is over.
Orphaned ==
  /\ late' = late \cup {<<HostOf[p], handler[p]>> :
                          p \in {q \in Peer : handler[q] \in {"received", "configured"}}}
  /\ handler' = NoHandler
  /\ response' = NoHandler
  /\ redirect' = NoRedirect
  /\ peers' = PeersFlag
  /\ triedPeers' = {}
  /\ asking' = NoPeer

-----------------------------------------------------------------------------
(* Removals go by the id: a health check that failed, or a request, may be     *)
(* long past when the configuration changes, and the list changes later still. *)

\* Server s takes itself for the leader and sets out to remove the new server; of
\* its monitor and its handlers one at a time is looked at.
SetOutToRemove(s) ==
  /\ Disrupt
  /\ knows[s] = s
  /\ \A stage \in {"removing", "unlisting"} : <<s, stage>> \notin removals
  /\ removals' = removals \cup {<<s, "removing">>}

\* POST /leave, which whoever knows the id may send at any time.
AskLeave(s) ==
  /\ SetOutToRemove(s)
  /\ UNCHANGED <<leader, knows, restless, refused, removed, voter, member>>
  /\ UNCHANGED <<handlerVars, joinerVars>>

Take(place) == removed' = removed \cup {place}

\* RemoveServer.
RemoveServer(r) ==
  /\ r[2] = "removing"
  /\ \/ /\ leader = r[1]
        /\ voter' = FALSE
        /\ Take("voter")
        /\ removals' = (removals \ {r}) \cup {<<r[1], "unlisting">>}
     \/ /\ leader # r[1]
        /\ \/ voter' = FALSE /\ Take("voter")
           \/ UNCHANGED <<voter, removed>>
        /\ removals' = removals \ {r}
  /\ UNCHANGED <<leader, knows, disruptions, restless, refused, member>>
  /\ UNCHANGED <<handlerVars, joinerVars>>

\* The command remove_member, whose failure is only logged.
RemoveMember(r) ==
  /\ r[2] = "unlisting"
  /\ \/ member' = FALSE /\ Take("member")
     \/ UNCHANGED <<member, removed>>
  /\ removals' = removals \ {r}
  /\ UNCHANGED <<leader, knows, disruptions, restless, refused, voter>>
  /\ UNCHANGED <<handlerVars, joinerVars>>

-----------------------------------------------------------------------------
joinHandler(p) ==
  Redirect(p) \/ AddVoter(p) \/ AddVoterFailed(p) \/ AddMember(p) \/ AddMemberFailed(p)

joinCluster == Skip \/ Ask \/ NoResponse \/ Joined \/ TryNext

\* The cluster it asks: raft, and the handlers.
Cluster ==
  \/ \E s \in Server : Elect(s) \/ LoseContact(s) \/ Learn(s)
  \/ \E p \in Peer : joinHandler(p)
  \/ \E h \in late : AddVoterLate(h) \/ AddMemberLate(h) \/ EndLate(h)
  \/ \E s \in Server : AskLeave(s)
  \/ \E r \in removals : RemoveServer(r) \/ RemoveMember(r)

JoinTypeOK ==
  /\ leader \in Server
  /\ knows \in [Server -> Server \cup {NoServer}]
  /\ disruptions \in 0 .. MaxDisruptions
  /\ restless \in BOOLEAN
  /\ refused \in BOOLEAN
  /\ voter \in BOOLEAN
  /\ member \in BOOLEAN
  /\ removals \subseteq (Server \X {"removing", "unlisting"})
  /\ removed \subseteq {"voter", "member"}
  /\ handler \in [Peer -> {"none", "received", "configured", "over"}]
  /\ response \in [Peer -> {"none", "OK", "failed", "redirect"}]
  /\ redirect \in [Peer -> Peer \cup {NoPeer}]
  /\ late \subseteq (Server \X {"received", "configured"})
  /\ peers \in Seq(Peer)
  /\ triedPeers \subseteq Peer
  /\ asking \in Peer \cup {NoPeer}
  /\ result \in {"none", "joined", "fatal"}
  /\ failures \in Nat
=============================================================================
