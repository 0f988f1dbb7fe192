----------------------------- MODULE Membership ------------------------------
(***************************************************************************)
(* Who is a member: the configuration of raft, which decides who votes,    *)
(* and s.members of the FSM, which decides who is asked and told (FanOut). *)
(* /join and /leave of src/server/API/server-api.go and monitorRaftPeers   *)
(* of src/server/main.go change one and then the other.                    *)
(*                                                                         *)
(* conf and members are what the log has decided; GameCluster shows how    *)
(* the servers follow it.                                                  *)
(***************************************************************************)
EXTENDS Integers, FiniteSets

CONSTANTS
  Server,
  Boot,           \* started with --bootstrap
  Joined,         \* servers of the initial cluster, listed in both places
  Addr,           \* raft addresses
  HomeOf,         \* where each server starts
  NoServer, NoAddr,
  MaxRequests,    \* bound on /join and /leave
  MaxDisruptions  \* bound on losses of leadership, stops, starts and commands
                  \* that raft does not take in time

ASSUME MembershipAssumption ==
  /\ IsFiniteSet(Server)
  /\ Boot \in Server
  /\ Joined \subseteq Server
  /\ NoServer \notin Server
  /\ NoAddr \notin Addr
  /\ HomeOf \in [Server -> Addr]
  /\ \A s, t \in Server : HomeOf[s] = HomeOf[t] => s = t
  /\ MaxRequests \in Nat
  /\ MaxDisruptions \in Nat
  /\ Server \cap (0 .. MaxRequests) = {} \* Between excepts a server or a request

VARIABLES
  \* The cluster.
  home,     \* home[s]: where the process of s listens, NoAddr when it is down
  leader,
  conf,     \* conf[s]: address of s in the raft configuration
  members,  \* members[s]: address of s in s.members
  disruptions,
  \* The handlers of /join and /leave, one for each request.
  request,
  \* The monitors.
  monitor,  \* monitor[s]: what the monitor of s does next
  seen,     \* seen[s]: the configuration it read, less the servers it is done with
  listed,   \* listed[s]: s was in the members it read
  suspect,  \* suspect[s]: the server whose first check failed
  \* What the properties relate.
  torn      \* servers whose two entries were not written as one

clusterVars == <<home, leader, conf, members, disruptions>>
monitorVars == <<monitor, seen, listed, suspect>>
vars == <<clusterVars, request, monitorVars, torn>>

Request == 1 .. MaxRequests
Idle == [kind |-> "none", by |-> NoServer, who |-> NoServer, addr |-> NoAddr, stage |-> "idle"]
Empty == [s \in Server |-> NoAddr]

Init ==
  /\ home = HomeOf
  /\ leader = Boot
  /\ conf = [s \in Server |-> IF s \in Joined \cup {Boot} THEN HomeOf[s] ELSE NoAddr]
  /\ members = [s \in Server |-> IF s \in Joined THEN HomeOf[s] ELSE NoAddr]
  /\ disruptions = 0
  /\ request = [r \in Request |-> Idle]
  /\ monitor = [s \in Server |-> "sleeping"]
  /\ seen = [s \in Server |-> Empty]
  /\ listed = [s \in Server |-> FALSE]
  /\ suspect = [s \in Server |-> NoServer]
  /\ torn = {Boot} \ Joined

-----------------------------------------------------------------------------
(* The environment: processes that stop and start, and raft.                *)

Answers(a) == \E s \in Server : home[s] = a

\* A majority of configuration c is where c says.
HasQuorum(c) ==
  LET voters == {s \in Server : c[s] # NoAddr}
      reached == {s \in voters : home[s] = c[s]}
  IN  2 * Cardinality(reached) > Cardinality(voters)

Disrupt ==
  /\ disruptions < MaxDisruptions
  /\ disruptions' = disruptions + 1

\* The requests that s handled and its monitor end with the process.
Stop(s) ==
  /\ Disrupt
  /\ home[s] # NoAddr
  /\ home' = [home EXCEPT ![s] = NoAddr]
  /\ leader' = IF leader = s THEN NoServer ELSE leader
  /\ request' = [r \in Request |-> IF request[r].by = s /\ request[r].stage # "idle"
                                   THEN [request[r] EXCEPT !.stage = "over"] ELSE request[r]]
  /\ torn' = torn \cup {request[r].who : r \in {q \in Request : request[q].by = s /\ request[q].stage = "listing"}}
                  \cup (IF monitor[s] = "unlisting" THEN {suspect[s]} ELSE {})
  /\ monitor' = [monitor EXCEPT ![s] = "sleeping"]
  /\ UNCHANGED <<conf, members, seen, listed, suspect>>

\* A container that starts again may get another address.
Start(s, a) ==
  /\ Disrupt
  /\ home[s] = NoAddr
  /\ ~Answers(a)
  /\ home' = [home EXCEPT ![s] = a]
  /\ UNCHANGED <<leader, conf, members, request, monitorVars, torn>>

LoseLeadership ==
  /\ Disrupt
  /\ leader # NoServer
  /\ leader' = NoServer
  /\ UNCHANGED <<home, conf, members, request, monitorVars, torn>>

\* The configurations that the leader was asked for: raft counts with one as soon
\* as it is appended.
Appended ==
  {[conf EXCEPT ![request[r].who] = request[r].addr] :
     r \in {q \in Request : request[q].stage = "configuring" /\ request[q].by = leader}}
  \cup {[conf EXCEPT ![suspect[s]] = NoAddr] :
     s \in {t \in Server : t = leader /\ monitor[t] = "removing"}}

\* The lease of a leader that reaches no majority ends, a pending change with it.
StepDown ==
  /\ leader # NoServer
  /\ \E c \in {conf} \cup Appended : ~HasQuorum(c)
  /\ leader' = NoServer
  /\ UNCHANGED <<home, conf, members, disruptions, request, monitorVars, torn>>

Elect(s) ==
  /\ leader = NoServer
  /\ conf[s] # NoAddr /\ home[s] = conf[s]
  /\ HasQuorum(conf)
  /\ leader' = s
  /\ UNCHANGED <<home, conf, members, disruptions, request, monitorVars, torn>>

\* AddVoter and RemoveServer of server s: to change the configuration to c, with
\* the old and the new majority.  A leader that removes itself steps down, and
\* what one appended that loses leadership before it can tell may stay.
Reconfigured(s, c) ==
  /\ leader = s
  /\ HasQuorum(conf) /\ HasQuorum(c)
  /\ conf' = c
  /\ leader' = IF c[s] = NoAddr THEN NoServer ELSE leader
  /\ UNCHANGED disruptions

ReconfiguredUnknowingly(s, c) ==
  /\ leader = s
  /\ conf' = c
  /\ leader' = NoServer
  /\ Disrupt

\* RaftLog.Apply of add_member and remove_member.
Listed(s, m) ==
  /\ leader = s
  /\ HasQuorum(conf)
  /\ members' = m

\* Another handler or monitor is between its two changes for server x.
Between(x, except) ==
  \/ \E r \in Request : r # except /\ request[r].who = x /\ request[r].stage = "listing"
  \/ \E s \in Server : s # except /\ monitor[s] = "unlisting" /\ suspect[s] = x

-----------------------------------------------------------------------------
(* joinHandler and leaveHandler.                                            *)

\* A request is for the leader's handler: another server's only redirects.  A
\* server asks to join with the address it has.
ReceiveRequest(r) ==
  /\ request[r].stage = "idle"
  /\ leader # NoServer
  /\ \E x \in Server :
       \/ /\ home[x] # NoAddr
          /\ request' = [request EXCEPT ![r] =
               [kind |-> "join", by |-> leader, who |-> x, addr |-> home[x], stage |-> "configuring"]]
       \/ request' = [request EXCEPT ![r] =
               [kind |-> "leave", by |-> leader, who |-> x, addr |-> NoAddr, stage |-> "configuring"]]
  /\ UNCHANGED <<clusterVars, monitorVars, torn>>

\* AddVoter(id, address) or RemoveServer(id).
Configure(r) ==
  LET q == request[r]
      c == [conf EXCEPT ![q.who] = q.addr]
  IN
  /\ q.stage = "configuring"
  /\ \/ /\ Reconfigured(q.by, c)
        /\ request' = [request EXCEPT ![r].stage = "listing"]
        /\ torn' = IF Between(q.who, r) THEN torn \cup {q.who} ELSE torn
     \/ /\ ReconfiguredUnknowingly(q.by, c)
        /\ request' = [request EXCEPT ![r].stage = "over"]
        /\ torn' = torn \cup {q.who}
  /\ UNCHANGED <<home, members, monitorVars>>

\* The status is 500; s.members is not touched.
ConfigureFailed(r) ==
  /\ request[r].stage = "configuring"
  /\ leader # request[r].by
  /\ request' = [request EXCEPT ![r].stage = "over"]
  /\ UNCHANGED <<clusterVars, monitorVars, torn>>

\* Mutation of List: /leave does not tell the FSM.
ListJoinsOnly(r) ==
  LET q == request[r] IN
  /\ q.stage = "listing"
  /\ Listed(q.by, IF q.kind = "join" THEN [members EXCEPT ![q.who] = q.addr] ELSE members)
  /\ request' = [request EXCEPT ![r].stage = "over"]
  /\ UNCHANGED <<home, leader, conf, disruptions, monitorVars, torn>>

\* The command add_member or remove_member.
List(r) ==
  LET q == request[r] IN
  /\ q.stage = "listing"
  /\ Listed(q.by, [members EXCEPT ![q.who] = q.addr])
  /\ request' = [request EXCEPT ![r].stage = "over"]
  /\ UNCHANGED <<home, leader, conf, disruptions, monitorVars, torn>>

\* Leadership was lost in between, or the leader stays and raft does not take the
\* command within 500 ms: /join answers 500, /leave logs and answers OK.  What is
\* appended and applied although leadership is lost is List and LoseLeadership.
ListFailed(r) ==
  /\ request[r].stage = "listing"
  /\ \/ leader # request[r].by /\ UNCHANGED disruptions
     \/ Disrupt
  /\ request' = [request EXCEPT ![r].stage = "over"]
  /\ torn' = torn \cup {request[r].who}
  /\ UNCHANGED <<home, leader, conf, members, monitorVars>>

-----------------------------------------------------------------------------
(* monitorRaftPeers.                                                        *)

\* Mutation of Tick: the leader looks for itself in the configuration.
TickConfiguration(s) ==
  /\ monitor[s] = "sleeping"
  /\ leader = s
  /\ monitor' = [monitor EXCEPT ![s] = "checking"]
  /\ seen' = [seen EXCEPT ![s] = [conf EXCEPT ![s] = NoAddr]]
  /\ listed' = [listed EXCEPT ![s] = conf[s] # NoAddr]
  /\ UNCHANGED <<clusterVars, request, suspect, torn>>

\* Every 15 s: read the configuration and the members.  The server does not
\* check itself.
Tick(s) ==
  /\ monitor[s] = "sleeping"
  /\ leader = s
  /\ monitor' = [monitor EXCEPT ![s] = "checking"]
  /\ seen' = [seen EXCEPT ![s] = [conf EXCEPT ![s] = NoAddr]]
  /\ listed' = [listed EXCEPT ![s] = members[s] # NoAddr]
  /\ UNCHANGED <<clusterVars, request, suspect, torn>>

\* Mutation of DoneWith: the rest of the configuration is dropped.
DoneWithAll(s, x) ==
  /\ monitor' = [monitor EXCEPT ![s] = "checking"]
  /\ seen' = [seen EXCEPT ![s] = [y \in {} |-> NoAddr]]
  /\ suspect' = [suspect EXCEPT ![s] = NoServer]

\* The monitor of s is done with server x and goes on to the next.
DoneWith(s, x) ==
  /\ monitor' = [monitor EXCEPT ![s] = "checking"]
  /\ seen' = [seen EXCEPT ![s][x] = NoAddr]
  /\ suspect' = [suspect EXCEPT ![s] = NoServer]

\* healthCheckPeer on the address read at the start.
FirstCheck(s, x) ==
  /\ monitor[s] = "checking"
  /\ seen[s][x] # NoAddr
  /\ IF Answers(seen[s][x])
     THEN DoneWith(s, x)
     ELSE /\ monitor' = [monitor EXCEPT ![s] = "suspecting"]
          /\ suspect' = [suspect EXCEPT ![s] = x]
          /\ UNCHANGED seen
  /\ UNCHANGED <<clusterVars, request, listed, torn>>

\* Mutation of SecondCheck: a second failure counts as a network hiccup.
SecondCheckForgiving(s) ==
  /\ monitor[s] = "suspecting"
  /\ DoneWith(s, suspect[s])
  /\ UNCHANGED <<clusterVars, request, listed, torn>>

\* Five seconds later.
SecondCheck(s) ==
  /\ monitor[s] = "suspecting"
  /\ IF Answers(seen[s][suspect[s]])
     THEN DoneWith(s, suspect[s])
     ELSE monitor' = [monitor EXCEPT ![s] = "removing"] /\ UNCHANGED <<seen, suspect>>
  /\ UNCHANGED <<clusterVars, request, listed, torn>>

\* RemoveServer goes by the id, whatever its address is now.
Remove(s) ==
  LET x == suspect[s]
      c == [conf EXCEPT ![x] = NoAddr]
  IN
  /\ monitor[s] = "removing"
  /\ \/ /\ Reconfigured(s, c)
        /\ monitor' = [monitor EXCEPT ![s] = "unlisting"]
        /\ torn' = IF Between(x, s) THEN torn \cup {x} ELSE torn
        /\ UNCHANGED <<seen, suspect>>
     \/ /\ ReconfiguredUnknowingly(s, c)
        /\ DoneWith(s, x)
        /\ torn' = torn \cup {x}
  /\ UNCHANGED <<home, members, request, listed>>

RemoveFailed(s) ==
  /\ monitor[s] = "removing"
  /\ leader # s
  /\ DoneWith(s, suspect[s])
  /\ UNCHANGED <<clusterVars, request, listed, torn>>

\* The command remove_member.
Unlist(s) ==
  /\ monitor[s] = "unlisting"
  /\ Listed(s, [members EXCEPT ![suspect[s]] = NoAddr])
  /\ DoneWith(s, suspect[s])
  /\ UNCHANGED <<home, leader, conf, disruptions, request, listed, torn>>

UnlistFailed(s) ==
  /\ monitor[s] = "unlisting"
  /\ \/ leader # s /\ UNCHANGED disruptions
     \/ Disrupt
  /\ torn' = torn \cup {suspect[s]}
  /\ DoneWith(s, suspect[s])
  /\ UNCHANGED <<home, leader, conf, members, request, listed>>

\* After the peers: a leader that was not in the list adds itself, and nobody
\* looks at the outcome.
Finish(s) ==
  /\ monitor[s] = "checking"
  /\ seen[s] = Empty
  /\ monitor' = [monitor EXCEPT ![s] = "sleeping"]
  /\ \/ /\ ~listed[s]
        /\ Listed(s, [members EXCEPT ![s] = home[s]])
        /\ torn' = torn \cup {s}
        /\ UNCHANGED disruptions
     \/ /\ listed[s] \/ leader # s \/ ~HasQuorum(conf)
        /\ UNCHANGED <<members, torn, disruptions>>
     \/ Disrupt /\ ~listed[s] /\ UNCHANGED <<members, torn>> \* not taken in time
  /\ UNCHANGED <<home, leader, conf, request, seen, listed, suspect>>

-----------------------------------------------------------------------------
Handle(r) == Configure(r) \/ ConfigureFailed(r) \/ List(r) \/ ListFailed(r)

Monitor(s) ==
  \/ Tick(s) \/ SecondCheck(s) \/ Remove(s) \/ RemoveFailed(s)
  \/ Unlist(s) \/ UnlistFailed(s) \/ Finish(s)
  \/ \E x \in Server : FirstCheck(s, x)

Next ==
  \/ \E s \in Server :
       Stop(s) \/ Elect(s) \/ Monitor(s) \/ \E a \in Addr : Start(s, a)
  \/ LoseLeadership \/ StepDown
  \/ \E r \in Request : ReceiveRequest(r) \/ Handle(r)

Spec == Init /\ [][Next]_vars

\* Handlers and monitors run, the ticker ticks, leases end.  Elections need not
\* succeed.
FairSpec ==
  /\ Spec
  /\ WF_vars(StepDown)
  /\ \A r \in Request : WF_vars(Handle(r))
  /\ \A s \in Server : WF_vars(Monitor(s))

-----------------------------------------------------------------------------
TypeOK ==
  /\ home \in [Server -> Addr \cup {NoAddr}]
  /\ leader \in Server \cup {NoServer}
  /\ conf \in [Server -> Addr \cup {NoAddr}]
  /\ members \in [Server -> Addr \cup {NoAddr}]
  /\ disruptions \in 0 .. MaxDisruptions
  /\ request \in [Request -> [kind : {"none", "join", "leave"}, by : Server \cup {NoServer},
                              who : Server \cup {NoServer}, addr : Addr \cup {NoAddr},
                              stage : {"idle", "configuring", "listing", "over"}]]
  /\ monitor \in [Server -> {"sleeping", "checking", "suspecting", "removing", "unlisting"}]
  /\ seen \in [Server -> [Server -> Addr \cup {NoAddr}]]
  /\ listed \in [Server -> BOOLEAN]
  /\ suspect \in [Server -> Server \cup {NoServer}]
  /\ torn \subseteq Server

\* The two lists differ on a server only while one operation is between its two
\* changes, or after the two changes of some operation on that server were not
\* made as one: leadership or the process was lost in between, raft did not take
\* the second in time, another operation on the same server came in between, or
\* the leader listed itself.
MembersExplained ==
  \A x \in Server \ torn : conf[x] = members[x] \/ Between(x, 0)

\* "Garante que o próprio líder está na lista de membros da FSM" (src/server/
\* main.go:192): a leader that stays gets into the list and stays there, also
\* one that was elected after its own /join had failed half-way.
LeaderListed ==
  \A s \in Server : <>[](leader = s) => <>[](members[s] # NoAddr)

\* A peer whose configured address does not answer does not stay a voter under a
\* leader that stays, whatever joins and leaves the leader handles meanwhile.
DeadPeerRemoved ==
  \A s, x \in Server :
    []<>~(leader = s /\ HasQuorum(conf) /\ x # s /\ conf[x] # NoAddr /\ ~Answers(conf[x]))
=============================================================================
