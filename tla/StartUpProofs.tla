---------------------------- MODULE StartUpProofs ----------------------------
(* What every start of a server comes to, for any cluster and any flag.      *)
EXTENDS StartUp, TLAPS

\* What a handler has reached of the cluster outlives it, but for removals.
Voting == voter \/ "voter" \in removed
Listed == member \/ "member" \in removed

WhatWasReached ==
  /\ \A p \in Peer : /\ handler[p] = "configured" => Voting
                     /\ response[p] = "OK" => Voting /\ Listed
  /\ result = "joined" => Voting /\ Listed

\* A life starts with nobody asked.
FreshWhenOff ==
  phase = "off" => /\ handler = NoHandler
                   /\ response = NoHandler
                   /\ triedPeers = {}
                   /\ asking = NoPeer
                   /\ result # "joined"

\* An answer is the last step of a handler that was asked.
AnswersLast ==
  \A p \in Peer : /\ response[p] # "none" => handler[p] = "over"
                  /\ handler[p] # "none" => p \in triedPeers

\* The list runs out only after somebody was asked.
SomebodyTried ==
  /\ asking # NoPeer => asking \in triedPeers
  /\ triedPeers = {} => peers # <<>>

Ahead(q) == \E i \in 1 .. Len(peers) : peers[i] = q

\* While nothing went wrong, every server knows the leader, so whoever was asked
\* and answered has named it, and it is tried or still ahead.
AtRest ==
  /\ phase # "off"
  /\ failures = 0
  /\ ~restless
  /\ ~refused

LeaderKnown == phase # "off" /\ ~restless => \A s \in Server : knows[s] = leader

LeaderFound ==
  AtRest => \A p \in Peer :
    /\ handler[p] \in {"received", "configured"} => p = asking
    /\ handler[p] = "configured" => HostOf[p] = leader
    /\ response[p] # "failed"
    /\ response[p] = "redirect" => HostOf[p] # leader /\ redirect[p] = AddressOf[leader]
    /\ p \in triedPeers /\ p # asking /\ result = "none" =>
         /\ response[p] = "redirect"
         /\ AddressOf[leader] \in triedPeers \/ Ahead(AddressOf[leader])

StartUpInv ==
  /\ TypeOK
  /\ WhatWasReached
  /\ FreshWhenOff
  /\ AnswersLast
  /\ SomebodyTried
  /\ LeaderKnown
  /\ LeaderFound
  /\ GivesUpExplained

-----------------------------------------------------------------------------
(* TypeOK.                                                                   *)

LEMMA TypeInit == Init => TypeOK
<1> SUFFICES ASSUME Init PROVE TypeOK
  OBVIOUS
<1>1. leader \in Server /\ knows \in [Server -> Server \cup {NoServer}]
  BY DEF Init, JoinInit
<1>2. /\ handler \in [Peer -> {"none", "received", "configured", "over"}]
      /\ response \in [Peer -> {"none", "OK", "failed", "redirect"}]
  BY DEF Init, JoinInit, NoHandler
<1>3. redirect \in [Peer -> Peer \cup {NoPeer}]
  BY DEF Init, JoinInit, NoRedirect
<1>4. peers \in Seq(Peer) /\ disruptions \in 0 .. MaxDisruptions /\ failures \in Nat
  BY JoinClusterAssumption DEF Init, JoinInit
<1>5. JoinTypeOK
  <2>1. /\ restless \in BOOLEAN /\ refused \in BOOLEAN /\ voter \in BOOLEAN
        /\ member \in BOOLEAN /\ removals = {} /\ removed = {}
        /\ late = {} /\ triedPeers = {} /\ asking = NoPeer /\ result = "none"
    BY DEF Init, JoinInit
  <2> QED BY <1>1, <1>2, <1>3, <1>4, <2>1 DEF JoinTypeOK
<1> QED BY <1>5 DEF Init, TypeOK

\* The process ends, for whatever reason.
LEMMA TypeEnd ==
  ASSUME TypeOK, NEW outcome \in {"none", "fatal"},
         End(outcome), disruptions' \in 0 .. MaxDisruptions, brokerUp' = brokerUp
  PROVE TypeOK'
<1>1. late' \subseteq (Server \X {"received", "configured"})
  <2>1. \A p \in Peer : HostOf[p] \in Server
    BY JoinClusterAssumption
  <2> QED BY <2>1 DEF End, Orphaned, TypeOK, JoinTypeOK
<1>2. JoinTypeOK'
  BY <1>1, JoinClusterAssumption
  DEF End, Orphaned, clusterVars, NoHandler, NoRedirect, TypeOK, JoinTypeOK
<1> QED
  BY <1>2 DEF End, lastingVars, TypeOK

LEMMA TypeJoin == ASSUME TypeOK, Join PROVE TypeOK'
<1> USE JoinClusterAssumption DEF TypeOK, JoinTypeOK, raftVars, handlerVars, lastingVars
<1>1. joinCluster /\ UNCHANGED <<flags, raftLog, broker, data, brokerUp>>
  BY DEF Join, Goto, processVars
<1>2. phase' \in {"listen", phase}
  BY DEF Join, Goto, processVars
<1>3. CASE Skip
  <2>1. peers' \in Seq(Peer)
    BY <1>3 DEF Skip, Looping
  <2> QED BY <1>1, <1>2, <1>3, <2>1 DEF Skip
<1>4. CASE Ask
  <2>1. peers' \in Seq(Peer) /\ Head(peers) \in Peer
    BY <1>4 DEF Ask, Looping
  <2> QED BY <1>1, <1>2, <1>4, <2>1 DEF Ask
<1>5. CASE NoResponse
  BY <1>1, <1>2, <1>5 DEF NoResponse
<1>6. CASE Joined
  BY <1>1, <1>2, <1>6 DEF Joined
<1>7. CASE TryNext
  <2>1. peers' \in Seq(Peer)
    BY <1>7 DEF TryNext
  <2> QED BY <1>1, <1>2, <1>7, <2>1 DEF TryNext
<1> QED
  BY <1>1, <1>3, <1>4, <1>5, <1>6, <1>7 DEF joinCluster

LEMMA TypeRemoval ==
  ASSUME TypeOK,
         \/ \E s \in Server : ChecksFailed(s) \/ AskLeave(s)
         \/ \E r \in removals : RemoveServer(r) \/ RemoveMember(r)
  PROVE  JoinTypeOK'
<1> USE DEF TypeOK, JoinTypeOK
<1>1. ASSUME NEW s \in Server, ChecksFailed(s) \/ AskLeave(s) PROVE JoinTypeOK'
  <2>1. /\ disruptions' \in 0 .. MaxDisruptions
        /\ removals' \subseteq (Server \X {"removing", "unlisting"})
    BY <1>1, JoinClusterAssumption DEF ChecksFailed, AskLeave, SetOutToRemove, Disrupt
  <2>2. UNCHANGED <<leader, knows, restless, refused, removed, voter, member,
                    handlerVars, joinerVars>>
    BY <1>1 DEF ChecksFailed, AskLeave
  <2> QED BY <2>1, <2>2 DEF handlerVars, joinerVars
<1>2. ASSUME NEW r \in removals, RemoveServer(r) \/ RemoveMember(r) PROVE JoinTypeOK'
  <2>1. /\ voter' \in BOOLEAN /\ member' \in BOOLEAN
        /\ removed' \subseteq {"voter", "member"}
    BY <1>2 DEF RemoveServer, RemoveMember, Take
  <2>2. removals' \subseteq (Server \X {"removing", "unlisting"})
    <3>1. r[1] \in Server
      OBVIOUS
    <3> QED BY <1>2, <3>1 DEF RemoveServer, RemoveMember
  <2>3. UNCHANGED <<leader, knows, disruptions, restless, refused, handlerVars, joinerVars>>
    BY <1>2 DEF RemoveServer, RemoveMember
  <2> QED BY <2>1, <2>2, <2>3 DEF handlerVars, joinerVars
<1> QED BY <1>1, <1>2

LEMMA TypeCluster == ASSUME TypeOK, Cluster, UNCHANGED startVars PROVE TypeOK'
<1> SUFFICES JoinTypeOK'
  BY DEF TypeOK, startVars, processVars, lastingVars
<1> USE JoinClusterAssumption
    DEF TypeOK, JoinTypeOK, Disrupt, raftVars, handlerVars, joinerVars
<1>1. ASSUME NEW s \in Server, Elect(s) \/ LoseContact(s) \/ Learn(s) PROVE JoinTypeOK'
  <2>1. leader' \in Server
    BY <1>1 DEF Elect, LoseContact, Learn
  <2>2. knows' \in [Server -> Server \cup {NoServer}]
    BY <1>1 DEF Elect, LoseContact, Learn
  <2>3. disruptions' \in 0 .. MaxDisruptions
    <3>1. Disrupt \/ disruptions' = disruptions
      BY <1>1 DEF Elect, LoseContact, Learn
    <3> QED BY <3>1
  <2>5. restless' \in BOOLEAN
    BY <1>1 DEF Elect, LoseContact, Learn
  <2>4. UNCHANGED <<refused, removals, removed, voter, member, handlerVars, joinerVars>>
    BY <1>1 DEF Elect, LoseContact, Learn
  <2> QED BY <2>1, <2>2, <2>3, <2>4, <2>5
<1>2. ASSUME NEW p \in Peer, Redirect(p) PROVE JoinTypeOK'
  BY <1>2 DEF Redirect, Respond
<1>3. ASSUME NEW p \in Peer, AddVoter(p) \/ AddVoterFailed(p) PROVE JoinTypeOK'
  <2>1. voter' \in BOOLEAN
    BY <1>3 DEF AddVoter, AddVoterFailed
  <2>2. /\ handler' \in [Peer -> {"none", "received", "configured", "over"}]
        /\ response' \in [Peer -> {"none", "OK", "failed", "redirect"}]
        /\ redirect' \in [Peer -> Peer \cup {NoPeer}]
    <3>1. CASE AddVoter(p)
      BY <3>1 DEF AddVoter, Respond
    <3>2. CASE AddVoterFailed(p)
      BY <3>2 DEF AddVoterFailed, Respond
    <3> QED BY <1>3, <3>1, <3>2
  <2>3. UNCHANGED <<raftVars, member, late, joinerVars>>
    BY <1>3 DEF AddVoter, AddVoterFailed
  <2> QED BY <2>1, <2>2, <2>3
<1>4. ASSUME NEW p \in Peer, AddMember(p) \/ AddMemberFailed(p) PROVE JoinTypeOK'
  <2>1. member' \in BOOLEAN
    BY <1>4 DEF AddMember, AddMemberFailed
  <2>2. /\ handler' \in [Peer -> {"none", "received", "configured", "over"}]
        /\ response' \in [Peer -> {"none", "OK", "failed", "redirect"}]
        /\ redirect' \in [Peer -> Peer \cup {NoPeer}]
    <3>1. \E status \in {"OK", "failed"} : Respond(p, status, NoPeer)
      BY <1>4 DEF AddMember, AddMemberFailed
    <3> QED BY <3>1 DEF Respond
  <2>3. /\ UNCHANGED <<leader, knows, restless, removals, removed, voter, late, joinerVars>>
        /\ refused' \in BOOLEAN
        /\ disruptions' \in 0 .. MaxDisruptions
    <3>1. CASE AddMember(p)
      BY <3>1 DEF AddMember
    <3>2. CASE AddMemberFailed(p)
      <4>1. /\ UNCHANGED <<leader, knows, restless, removals, removed, voter, late, joinerVars>>
            /\ (disruptions' = disruptions) \/ Disrupt
            /\ (refused' = refused) \/ (refused' = TRUE)
        BY <3>2 DEF AddMemberFailed
      <4>2. disruptions' \in 0 .. MaxDisruptions
        BY <4>1
      <4>3. refused' \in BOOLEAN
        BY <4>1
      <4> QED BY <4>1, <4>2, <4>3
    <3> QED BY <1>4, <3>1, <3>2
  <2> QED BY <2>1, <2>2, <2>3
<1>5. ASSUME NEW h \in late, AddVoterLate(h) \/ AddMemberLate(h) \/ EndLate(h) PROVE JoinTypeOK'
  <2>1. voter' \in BOOLEAN
    BY <1>5 DEF AddVoterLate, AddMemberLate, EndLate, Leave
  <2>2. member' \in BOOLEAN
    BY <1>5 DEF AddVoterLate, AddMemberLate, EndLate, Leave
  <2>3. late' \subseteq (Server \X {"received", "configured"})
    <3>1. h[1] \in Server
      OBVIOUS
    <3>2. CASE AddVoterLate(h)
      BY <3>1, <3>2 DEF AddVoterLate
    <3>3. CASE AddMemberLate(h) \/ EndLate(h)
      BY <3>3 DEF AddMemberLate, EndLate, Leave
    <3> QED BY <1>5, <3>2, <3>3
  <2>4. UNCHANGED <<raftVars, handler, response, redirect, joinerVars>>
    BY <1>5 DEF AddVoterLate, AddMemberLate, EndLate, Leave
  <2> QED BY <2>1, <2>2, <2>3, <2>4
<1>6. CASE \/ \E s \in Server : AskLeave(s)
           \/ \E r \in removals : RemoveServer(r) \/ RemoveMember(r)
  BY <1>6, TypeRemoval
<1> QED
  BY <1>1, <1>2, <1>3, <1>4, <1>5, <1>6 DEF Cluster, joinHandler

LEMMA TypeUnchanged == ASSUME TypeOK, UNCHANGED joinVars PROVE JoinTypeOK'
  BY DEF TypeOK, JoinTypeOK, joinVars, raftVars, handlerVars, joinerVars

\* A disruption of the process itself.
LEMMA TypeDisrupted ==
  ASSUME TypeOK, Disrupt, UNCHANGED <<clusterVars, handlerVars, joinerVars>>
  PROVE JoinTypeOK'
  BY JoinClusterAssumption
  DEF TypeOK, JoinTypeOK, Disrupt, clusterVars, handlerVars, joinerVars

LEMMA TypeStep == TypeOK /\ [Next]_vars => TypeOK'
<1> SUFFICES ASSUME TypeOK, [Next]_vars PROVE TypeOK'
  OBVIOUS
<1> USE JoinClusterAssumption
<1>1. CASE Start
  <2>1. JoinTypeOK'
    BY <1>1 DEF Start, handlerVars, TypeOK, JoinTypeOK
  <2> QED BY <1>1, <2>1 DEF Start, lastingVars, TypeOK
<1>2. CASE SetupRaft \/ Bootstrap \/ SetFields \/ Listen
  <2>1. JoinTypeOK'
    BY <1>2, TypeUnchanged DEF SetupRaft, Bootstrap, SetFields, Listen
  <2>2. CASE SetupRaft
    BY <2>1, <2>2 DEF SetupRaft, AfterSetup, Goto, lastingVars, TypeOK
  <2>3. CASE Bootstrap \/ SetFields \/ Listen
    BY <2>1, <2>3 DEF Bootstrap, SetFields, AfterFields, Listen, Goto, lastingVars, TypeOK
  <2> QED BY <1>2, <2>2, <2>3
<1>3. CASE BootstrapFailed \/ JoinFailed \/ Shutdown
  BY <1>3, TypeEnd DEF BootstrapFailed, JoinFailed, Shutdown, TypeOK, JoinTypeOK
<1>4. CASE SetupRaftFailed \/ Crash \/ Deliver
  <2>1. End("none") /\ brokerUp' = brokerUp
    BY <1>4 DEF SetupRaftFailed, Crash, Deliver
  <2>2. disruptions' = disruptions \/ Disrupt
    BY <1>4 DEF SetupRaftFailed, Crash, Deliver
  <2>3. disruptions' \in 0 .. MaxDisruptions
    BY <2>2 DEF Disrupt, TypeOK, JoinTypeOK
  <2> QED BY <2>1, <2>3, TypeEnd
<1>5. CASE Join
  BY <1>5, TypeJoin
<1>6. CASE Interrupt
  BY <1>6, TypeDisrupted DEF Interrupt, Goto, lastingVars, TypeOK
<1>7. CASE Connect \/ Reconnect \/ GiveUp \/ BrokerRestarts
  <2>1. JoinTypeOK'
    BY <1>7, TypeUnchanged DEF Connect, Reconnect, GiveUp, BrokerRestarts, Broker
  <2>2. broker' \in {"none", "connecting", "subscribed", "reconnecting", "closed"}
    BY <1>7 DEF Connect, Reconnect, GiveUp, BrokerRestarts, Broker, processVars, TypeOK
  <2>3. brokerUp' \in BOOLEAN
    BY <1>7 DEF Connect, Reconnect, GiveUp, BrokerRestarts, Broker, TypeOK
  <2>4. UNCHANGED <<phase, raftLog, lastingVars>>
    BY <1>7 DEF Connect, Reconnect, GiveUp, BrokerRestarts, Broker, processVars
  <2> QED BY <2>1, <2>2, <2>3, <2>4 DEF lastingVars, TypeOK
<1>8. CASE Outage
  <2>1. JoinTypeOK'
    BY <1>8, TypeDisrupted DEF Outage
  <2> QED BY <1>8, <2>1 DEF Outage, lastingVars, TypeOK
<1>9. CASE \E s \in Server : ChecksFailed(s)
  <2>1. JoinTypeOK'
    BY <1>9, TypeRemoval
  <2> QED BY <1>9, <2>1 DEF ChecksFailed, startVars, processVars, lastingVars, TypeOK
<1>10. CASE Cluster /\ UNCHANGED startVars
  BY <1>10, TypeCluster
<1>11. CASE UNCHANGED vars
  <2>1. JoinTypeOK'
    BY <1>11, TypeUnchanged DEF vars
  <2> QED BY <1>11, <2>1 DEF vars, startVars, processVars, lastingVars, TypeOK
<1> QED
  BY <1>1, <1>2, <1>3, <1>4, <1>5, <1>6, <1>7, <1>8, <1>9, <1>10, <1>11 DEF Next, Main

THEOREM TypeCorrect == Spec => []TypeOK
<1>1. Init => TypeOK
  BY TypeInit
<1>2. TypeOK /\ [Next]_vars => TypeOK'
  BY TypeStep
<1> QED BY <1>1, <1>2, PTL DEF Spec

-----------------------------------------------------------------------------
(* The invariant, beyond the types.                                          *)

LEMMA InvariantInit == Init => StartUpInv
<1> SUFFICES ASSUME Init PROVE StartUpInv
  OBVIOUS
<1>1. TypeOK
  BY TypeInit
<1>2. handler = NoHandler /\ response = NoHandler /\ phase = "off" /\ result = "none"
      /\ triedPeers = {} /\ asking = NoPeer /\ peers = PeersFlag
  BY DEF Init, JoinInit
<1>3. WhatWasReached /\ AnswersLast /\ FreshWhenOff
  BY <1>2 DEF WhatWasReached, Voting, Listed, AnswersLast, FreshWhenOff, NoHandler
<1>4. SomebodyTried
  BY <1>2, StartUpAssumption DEF SomebodyTried
<1> QED
  BY <1>1, <1>2, <1>3, <1>4
  DEF StartUpInv, LeaderKnown, LeaderFound, AtRest, GivesUpExplained, Misdirected

Rest ==
  /\ WhatWasReached
  /\ FreshWhenOff
  /\ AnswersLast
  /\ SomebodyTried
  /\ LeaderKnown
  /\ LeaderFound

\* The process ends, and leaves nothing of this life.
LEMMA RestEnd == ASSUME NEW outcome \in {"none", "fatal"}, End(outcome) PROVE Rest'
<1>1. /\ handler' = NoHandler /\ response' = NoHandler /\ phase' = "off"
      /\ triedPeers' = {} /\ asking' = NoPeer /\ peers' = PeersFlag /\ result' # "joined"
  BY DEF End, Orphaned
<1>2. NoHandler' = NoHandler
  BY DEF NoHandler
<1>3. WhatWasReached' /\ AnswersLast' /\ FreshWhenOff'
  BY <1>1, <1>2
  DEF WhatWasReached, Voting, Listed, AnswersLast, FreshWhenOff, NoHandler
<1>4. SomebodyTried'
  BY <1>1, StartUpAssumption DEF SomebodyTried
<1> QED
  BY <1>1, <1>3, <1>4 DEF Rest, LeaderKnown, LeaderFound, AtRest

\* Main or the broker goes on, and the loop and the cluster stay as they are.
LEMMA RestQuiet ==
  ASSUME StartUpInv, UNCHANGED <<clusterVars, handlerVars, joinerVars>>,
         phase' = "off" <=> phase = "off"
  PROVE Rest' /\ GivesUpExplained'
<1> USE DEF StartUpInv, clusterVars, handlerVars, joinerVars
<1>1. WhatWasReached' /\ AnswersLast' /\ FreshWhenOff'
  BY DEF WhatWasReached, Voting, Listed, AnswersLast, FreshWhenOff, NoHandler
<1>2. SomebodyTried' /\ LeaderKnown' /\ GivesUpExplained'
  BY DEF SomebodyTried, LeaderKnown, GivesUpExplained, Misdirected
<1>3. LeaderFound'
  BY DEF LeaderFound, AtRest, Ahead
<1> QED BY <1>1, <1>2, <1>3 DEF Rest

LEMMA RestStart == ASSUME StartUpInv, Start PROVE Rest' /\ GivesUpExplained'
<1> USE DEF Start, handlerVars
<1>1. /\ handler = NoHandler /\ response = NoHandler /\ triedPeers = {} /\ asking = NoPeer
      /\ peers # <<>>
  BY DEF StartUpInv, FreshWhenOff, SomebodyTried
<1>2. WhatWasReached' /\ AnswersLast' /\ FreshWhenOff'
  BY <1>1 DEF WhatWasReached, Voting, Listed, AnswersLast, FreshWhenOff, NoHandler
<1>3. LeaderKnown'
  BY DEF LeaderKnown
<1>4. LeaderFound'
  BY <1>1 DEF LeaderFound, NoHandler
<1>5. SomebodyTried' /\ GivesUpExplained'
  BY <1>1 DEF SomebodyTried, GivesUpExplained, Misdirected
<1> QED BY <1>2, <1>3, <1>4, <1>5 DEF Rest

\* A removal sets out, takes the server from the configuration or strikes it off.
LEMMA RestRemoval ==
  ASSUME StartUpInv,
         \/ \E s \in Server : ChecksFailed(s)
         \/ UNCHANGED startVars /\ \E s \in Server : AskLeave(s)
         \/ UNCHANGED startVars /\ \E r \in removals : RemoveServer(r) \/ RemoveMember(r)
  PROVE  Rest' /\ GivesUpExplained'
<1>1. /\ UNCHANGED <<leader, knows, restless, refused, phase, handler, response, redirect>>
      /\ UNCHANGED <<peers, triedPeers, asking, result, failures>>
  <2> USE DEF startVars, processVars, handlerVars, joinerVars
  <2>1. CASE \E s \in Server : ChecksFailed(s)
    BY <2>1 DEF ChecksFailed
  <2>2. CASE UNCHANGED startVars /\ \E s \in Server : AskLeave(s)
    BY <2>2 DEF AskLeave
  <2>3. CASE UNCHANGED startVars /\ \E r \in removals : RemoveServer(r) \/ RemoveMember(r)
    BY <2>3 DEF RemoveServer, RemoveMember
  <2> QED BY <2>1, <2>2, <2>3
<1>2. (Voting => Voting') /\ (Listed => Listed')
  <2> USE DEF Voting, Listed
  <2>1. CASE \E s \in Server : ChecksFailed(s) \/ AskLeave(s)
    BY <2>1 DEF ChecksFailed, AskLeave
  <2>2. CASE \E r \in removals : RemoveServer(r)
    BY <2>2 DEF RemoveServer, Take
  <2>3. CASE \E r \in removals : RemoveMember(r)
    BY <2>3 DEF RemoveMember, Take
  <2> QED BY <2>1, <2>2, <2>3
<1>3. WhatWasReached' /\ AnswersLast' /\ FreshWhenOff'
  BY <1>1, <1>2 DEF StartUpInv, WhatWasReached, AnswersLast, FreshWhenOff, NoHandler
<1>4. SomebodyTried' /\ LeaderKnown' /\ GivesUpExplained'
  BY <1>1 DEF StartUpInv, SomebodyTried, LeaderKnown, GivesUpExplained, Misdirected
<1>5. LeaderFound'
  BY <1>1 DEF StartUpInv, LeaderFound, AtRest, Ahead
<1> QED BY <1>3, <1>4, <1>5 DEF Rest

LEMMA AheadTail ==
  ASSUME peers \in Seq(Peer), peers # <<>>, peers' = Tail(peers)
  PROVE  /\ Head(peers) \in Peer
         /\ peers' \in Seq(Peer)
         /\ \A q \in Peer : Ahead(q) => q = Head(peers) \/ Ahead(q)'
<1>1. Head(peers) \in Peer /\ peers' \in Seq(Peer) /\ Len(peers') = Len(peers) - 1
  OBVIOUS
<1>2. ASSUME NEW q \in Peer, Ahead(q), q # Head(peers) PROVE Ahead(q)'
  <2>1. PICK i \in 1 .. Len(peers) : peers[i] = q
    BY <1>2 DEF Ahead
  <2>2. i # 1
    BY <1>2, <2>1
  <2>3. i - 1 \in 1 .. Len(peers') /\ peers'[i - 1] = q
    BY <1>1, <2>1, <2>2
  <2> QED BY <2>3 DEF Ahead
<1> QED BY <1>1, <1>2

LEMMA AheadAppend ==
  ASSUME peers \in Seq(Peer), NEW r \in Peer, peers' = Append(peers, r)
  PROVE  Ahead(r)' /\ \A q \in Peer : Ahead(q) => Ahead(q)'
<1>1. /\ Len(peers') = Len(peers) + 1 /\ peers'[Len(peers')] = r
      /\ \A i \in 1 .. Len(peers) : peers'[i] = peers[i]
  OBVIOUS
<1>2. Len(peers') \in 1 .. Len(peers') /\ 1 .. Len(peers) \subseteq 1 .. Len(peers')
  BY <1>1
<1> QED BY <1>1, <1>2 DEF Ahead

\* The loop asks, hears and goes on; a leader that was named is not lost.
LEMMA RestJoin == ASSUME StartUpInv, Join PROVE Rest' /\ GivesUpExplained'
<1> USE JoinClusterAssumption
    DEF StartUpInv, TypeOK, JoinTypeOK, raftVars, handlerVars, startVars, joinVars
<1>1. /\ joinCluster /\ UNCHANGED <<raftVars, voter, member, redirect, late, raftLog>>
      /\ phase = "joining" /\ phase' \in {"joining", "listen"}
  BY DEF Join, Goto, processVars, joinCluster, Skip, Ask, NoResponse, Joined, TryNext
<1>2. FreshWhenOff' /\ LeaderKnown'
  BY <1>1 DEF FreshWhenOff, LeaderKnown
<1>3. CASE Skip
  <2>1. /\ peers' \in Seq(Peer) /\ triedPeers # {}
        /\ \A q \in Peer : Ahead(q) => q \in triedPeers \/ Ahead(q)'
    BY <1>3, AheadTail DEF Skip, Looping
  <2>2. UNCHANGED <<handlerVars, voter, member, triedPeers, asking, result, failures>>
    BY <1>3 DEF Skip
  <2>3. WhatWasReached' /\ AnswersLast' /\ SomebodyTried' /\ GivesUpExplained'
    BY <1>1, <2>1, <2>2
    DEF WhatWasReached, Voting, Listed, AnswersLast, SomebodyTried, GivesUpExplained, Misdirected
  <2>4. LeaderFound'
    BY <1>1, <2>1, <2>2 DEF LeaderFound, AtRest
  <2> QED BY <1>2, <2>3, <2>4 DEF Rest
<1>4. CASE Ask
  <2> DEFINE a == Head(peers)
  <2>1. /\ a \in Peer /\ peers' \in Seq(Peer) /\ a \notin triedPeers
        /\ \A q \in Peer : Ahead(q) => q = a \/ Ahead(q)'
    BY <1>4, AheadTail DEF Ask, Looping
  <2>2. /\ triedPeers' = triedPeers \cup {a} /\ asking' = a /\ asking = NoPeer
        /\ handler' = [handler EXCEPT ![a] = "received"]
        /\ UNCHANGED <<response, voter, member, result, failures>>
    BY <1>4 DEF Ask, Looping
  <2> HIDE DEF a
  <2>3. WhatWasReached' /\ AnswersLast' /\ SomebodyTried' /\ GivesUpExplained'
    BY <1>1, <2>1, <2>2
    DEF WhatWasReached, Voting, Listed, AnswersLast, SomebodyTried, GivesUpExplained, Misdirected
  <2>4. response[a] = "none"
    BY <2>1 DEF AnswersLast
  <2>5. LeaderFound'
    BY <1>1, <2>1, <2>2, <2>4 DEF LeaderFound, AtRest
  <2> QED BY <1>2, <2>3, <2>5 DEF Rest
<1>5. CASE NoResponse
  <2>1. /\ asking \in Peer /\ asking' = NoPeer /\ failures' > 0
        /\ UNCHANGED <<response, voter, member, peers, triedPeers, result>>
        /\ handler' \in {handler, [handler EXCEPT ![asking] = "none"]}
        /\ handler' # handler => handler[asking] = "received"
    BY <1>5 DEF NoResponse
  <2>2. WhatWasReached' /\ AnswersLast' /\ SomebodyTried' /\ GivesUpExplained'
    BY <1>1, <2>1
    DEF WhatWasReached, Voting, Listed, AnswersLast, SomebodyTried, GivesUpExplained, Misdirected
  <2>3. LeaderFound'
    BY <2>1 DEF LeaderFound, AtRest
  <2> QED BY <1>2, <2>2, <2>3 DEF Rest
<1>6. CASE Joined
  <2>1. /\ asking \in Peer /\ response[asking] = "OK" /\ result' = "joined"
        /\ asking' = NoPeer
        /\ UNCHANGED <<handlerVars, voter, member, peers, triedPeers, failures>>
    BY <1>6 DEF Joined
  <2>2. WhatWasReached' /\ AnswersLast' /\ SomebodyTried' /\ GivesUpExplained'
    BY <1>1, <2>1
    DEF WhatWasReached, Voting, Listed, AnswersLast, SomebodyTried, GivesUpExplained, Misdirected
  <2>3. LeaderFound'
    BY <1>1, <2>1 DEF LeaderFound, AtRest, AnswersLast
  <2> QED BY <1>2, <2>2, <2>3 DEF Rest
<1>7. CASE TryNext
  <2>1. /\ asking \in Peer /\ response[asking] \in {"failed", "redirect"}
        /\ asking' = NoPeer /\ asking \in triedPeers
        /\ UNCHANGED <<handlerVars, voter, member, triedPeers, result, failures>>
    BY <1>7 DEF TryNext, SomebodyTried
  <2>2. /\ peers' \in Seq(Peer)
        /\ \A q \in Peer : Ahead(q) => Ahead(q)'
        /\ \A r \in Peer : r = redirect[asking] => r \in triedPeers \/ Ahead(r)'
    <3>1. ASSUME NEW r \in Peer, r = redirect[asking], r \notin triedPeers
          PROVE  /\ peers' \in Seq(Peer)
                 /\ \A q \in Peer : Ahead(q) => Ahead(q)'
                 /\ Ahead(r)'
      <4>1. peers' = Append(peers, r)
        BY <1>7, <3>1 DEF TryNext
      <4> QED BY <4>1, AheadAppend
    <3>2. CASE redirect[asking] \in triedPeers \cup {NoPeer}
      <4>1. peers' = peers
        BY <1>7, <3>2 DEF TryNext
      <4>2. \A q \in Peer : Ahead(q) => Ahead(q)'
        BY <4>1 DEF Ahead
      <4> QED BY <3>2, <4>1, <4>2
    <3>3. redirect[asking] \in Peer \cup {NoPeer}
      BY <2>1
    <3> QED BY <3>1, <3>2, <3>3
  <2>3. WhatWasReached' /\ AnswersLast' /\ SomebodyTried' /\ GivesUpExplained'
    BY <1>1, <2>1
    DEF WhatWasReached, Voting, Listed, AnswersLast, SomebodyTried, GivesUpExplained, Misdirected
  <2>4. LeaderFound'
    BY <1>1, <2>1, <2>2 DEF LeaderFound, AtRest, AnswersLast
  <2> QED BY <1>2, <2>3, <2>4 DEF Rest
<1> QED
  BY <1>1, <1>3, <1>4, <1>5, <1>6, <1>7 DEF joinCluster

\* Leadership moves, or a handler goes on; at rest only the leader configures,
\* and everybody else names it.
LEMMA RestCluster ==
  ASSUME StartUpInv, Cluster, UNCHANGED startVars PROVE Rest' /\ GivesUpExplained'
<1> USE JoinClusterAssumption
    DEF StartUpInv, TypeOK, JoinTypeOK, raftVars, handlerVars, joinerVars
<1>1. phase' = phase
  BY DEF startVars, processVars
<1>3. ASSUME NEW s \in Server, Elect(s) \/ LoseContact(s) \/ Learn(s)
      PROVE  Rest' /\ GivesUpExplained'
  <2>1. UNCHANGED <<voter, member, removed, refused, handlerVars, joinerVars>>
    BY <1>3 DEF Elect, LoseContact, Learn
  <2>2. \/ restless'
        \/ /\ UNCHANGED <<leader, restless, refused>>
           /\ knows' = [knows EXCEPT ![s] = leader]
    BY <1>3 DEF Elect, LoseContact, Learn
  <2>3. WhatWasReached' /\ FreshWhenOff' /\ AnswersLast' /\ SomebodyTried'
    BY <1>1, <2>1
    DEF WhatWasReached, Voting, Listed, FreshWhenOff, AnswersLast, SomebodyTried, NoHandler
  <2>4. LeaderKnown' /\ GivesUpExplained'
    BY <1>1, <2>1, <2>2 DEF LeaderKnown, GivesUpExplained, Misdirected
  <2>5. LeaderFound'
    <3>1. CASE restless'
      BY <3>1 DEF LeaderFound, AtRest
    <3>2. CASE UNCHANGED <<leader, restless, refused>>
      BY <1>1, <2>1, <3>2 DEF LeaderFound, AtRest, Ahead
    <3> QED BY <2>2, <3>1, <3>2
  <2> QED BY <2>3, <2>4, <2>5 DEF Rest
<1>4. ASSUME NEW p \in Peer, joinHandler(p) PROVE Rest' /\ GivesUpExplained'
  <2>1. /\ UNCHANGED <<leader, knows, restless, removed, late, joinerVars>>
        /\ refused => refused'
        /\ handler[p] \in {"received", "configured"}
        /\ voter => voter'
        /\ member => member'
    BY <1>4
    DEF joinHandler, Redirect, AddVoter, AddVoterFailed, AddMember, AddMemberFailed, Respond
  <2>2. phase # "off" /\ phase' # "off"
    BY <1>1, <2>1 DEF FreshWhenOff, NoHandler
  <2>3. CASE AddVoter(p)
    <3>1. /\ handler' = [handler EXCEPT ![p] = "configured"] /\ voter' /\ HostOf[p] = leader
          /\ UNCHANGED <<response, redirect>> /\ response[p] = "none"
      BY <2>3 DEF AddVoter, AnswersLast
    <3>2. WhatWasReached' /\ FreshWhenOff' /\ AnswersLast' /\ SomebodyTried'
      BY <2>1, <2>2, <3>1
      DEF WhatWasReached, Voting, Listed, FreshWhenOff, AnswersLast, SomebodyTried
    <3>3. LeaderFound'
      BY <1>1, <2>1, <3>1 DEF LeaderFound, AtRest, Ahead
    <3> QED
      BY <1>1, <2>1, <3>2, <3>3 DEF Rest, LeaderKnown, GivesUpExplained, Misdirected
  <2>4. CASE ~AddVoter(p)
    <3>1. PICK status \in {"OK", "failed", "redirect"}, to \in Peer \cup {NoPeer} :
            /\ Respond(p, status, to)
            /\ status = "OK" => member' /\ Voting
            /\ AtRest /\ ~refused' => status # "failed"
            /\ AtRest /\ status = "redirect" => HostOf[p] # leader /\ to = AddressOf[leader]
      <4>1. CASE Redirect(p)
        <5>1. HostOf[p] \in Server /\ leader \in Server
          OBVIOUS
        <5>2. AtRest => knows[HostOf[p]] = leader
          BY <5>1 DEF AtRest, LeaderKnown
        <5>3. CASE knows[HostOf[p]] = NoServer
          BY <4>1, <5>1, <5>2, <5>3 DEF Redirect
        <5>4. CASE knows[HostOf[p]] # NoServer
          <6>1. AddressOf[knows[HostOf[p]]] \in Peer
            BY <5>1, <5>4
          <6> QED BY <4>1, <5>1, <5>2, <5>4, <6>1 DEF Redirect
        <5> QED BY <5>3, <5>4
      <4>2. CASE AddVoterFailed(p)
        <5>1. ~AtRest
          BY <4>2 DEF AddVoterFailed, AtRest, LeaderKnown
        <5> QED BY <4>2, <5>1 DEF AddVoterFailed
      <4>3. CASE AddMember(p)
        BY <4>3 DEF AddMember, WhatWasReached
      <4>4. CASE AddMemberFailed(p)
        <5>1. ~AtRest \/ refused'
          BY <4>4 DEF AddMemberFailed, LeaderFound
        <5> QED BY <4>4, <5>1 DEF AddMemberFailed
      <4> QED BY <1>4, <2>4, <4>1, <4>2, <4>3, <4>4 DEF joinHandler
    <3>2. /\ handler' = [handler EXCEPT ![p] = "over"]
          /\ response' = [response EXCEPT ![p] = status]
          /\ redirect' = [redirect EXCEPT ![p] = to]
      BY <3>1 DEF Respond
    <3>3. p \in triedPeers
      BY <2>1, <2>2 DEF AnswersLast
    <3>4. WhatWasReached' /\ FreshWhenOff' /\ AnswersLast' /\ SomebodyTried'
      BY <2>1, <2>2, <3>1, <3>2, <3>3
      DEF WhatWasReached, Voting, Listed, FreshWhenOff, AnswersLast, SomebodyTried
    <3>5. LeaderFound'
      BY <1>1, <2>1, <3>1, <3>2 DEF LeaderFound, AtRest, Ahead
    <3> QED
      BY <1>1, <2>1, <3>4, <3>5 DEF Rest, LeaderKnown, GivesUpExplained, Misdirected
  <2> QED BY <2>3, <2>4
<1>5. ASSUME NEW h \in late, AddVoterLate(h) \/ AddMemberLate(h) \/ EndLate(h)
      PROVE  Rest' /\ GivesUpExplained'
  <2>1. /\ UNCHANGED <<raftVars, handler, response, redirect, joinerVars>>
        /\ voter => voter'
        /\ member => member'
    BY <1>5 DEF AddVoterLate, AddMemberLate, EndLate, Leave
  <2>2. WhatWasReached' /\ FreshWhenOff' /\ AnswersLast' /\ SomebodyTried'
    BY <1>1, <2>1
    DEF WhatWasReached, Voting, Listed, FreshWhenOff, AnswersLast, SomebodyTried, NoHandler
  <2>3. LeaderFound'
    BY <1>1, <2>1 DEF LeaderFound, AtRest, Ahead
  <2> QED
    BY <1>1, <2>1, <2>2, <2>3 DEF Rest, LeaderKnown, GivesUpExplained, Misdirected
<1>6. CASE \/ \E s \in Server : AskLeave(s)
           \/ \E r \in removals : RemoveServer(r) \/ RemoveMember(r)
  BY <1>6, RestRemoval
<1> QED BY <1>3, <1>4, <1>5, <1>6 DEF Cluster

\* At rest somebody was asked and has named the leader, and the leader, when it
\* was asked, has agreed: the list does not run out.
LEMMA ExhaustedExplained ==
  ASSUME StartUpInv, phase = "joining", Exhausted
  PROVE  failures > 0 \/ restless \/ refused \/ Misdirected
<1> USE JoinClusterAssumption DEF StartUpInv, TypeOK, JoinTypeOK
<1> SUFFICES ASSUME AtRest, ~Misdirected PROVE FALSE
  BY DEF AtRest
<1>1. asking = NoPeer /\ result = "none" /\ peers = <<>>
  BY DEF Exhausted
<1>2. \A q \in Peer : ~Ahead(q)
  BY <1>1 DEF Ahead
<1>3. PICK p \in triedPeers : p \in Peer
  BY <1>1 DEF SomebodyTried
<1>4. p # asking /\ AddressOf[leader] \in Peer /\ AddressOf[leader] # asking
  BY <1>1, <1>3
<1>5. AddressOf[leader] \in triedPeers
  BY <1>1, <1>2, <1>3, <1>4 DEF LeaderFound
<1>6. HostOf[AddressOf[leader]] # leader
  BY <1>1, <1>4, <1>5 DEF LeaderFound
<1> QED BY <1>6 DEF Misdirected

LEMMA RestStep == StartUpInv /\ [Next]_vars => StartUpInv'
<1> SUFFICES ASSUME StartUpInv, [Next]_vars PROVE StartUpInv'
  OBVIOUS
<1>1. TypeOK'
  BY TypeStep DEF StartUpInv
<1> SUFFICES Rest' /\ GivesUpExplained'
  BY <1>1 DEF StartUpInv, Rest
<1>2. CASE Start
  BY <1>2, RestStart
<1>3. CASE SetupRaft \/ Bootstrap \/ SetFields \/ Listen \/ Interrupt
  <2>1. UNCHANGED <<clusterVars, handlerVars, joinerVars>>
    BY <1>3 DEF SetupRaft, Bootstrap, SetFields, Listen, Interrupt, joinVars, raftVars,
                clusterVars
  <2>2. phase # "off" /\ phase' # "off"
    BY <1>3 DEF SetupRaft, AfterSetup, Bootstrap, SetFields, AfterFields, Listen, Interrupt,
                Goto, lastingVars
  <2> QED BY <2>1, <2>2, RestQuiet
<1>4. CASE SetupRaftFailed \/ BootstrapFailed \/ Shutdown \/ Crash \/ Deliver
  <2>1. End("none")
    BY <1>4 DEF SetupRaftFailed, BootstrapFailed, Shutdown, Crash, Deliver
  <2>2. GivesUpExplained'
    BY <2>1 DEF End, GivesUpExplained, Misdirected
  <2> QED BY <2>1, <2>2, RestEnd
<1>5. CASE Join
  BY <1>5, RestJoin
<1>6. CASE JoinFailed
  <2>1. /\ End("fatal") /\ UNCHANGED <<failures, restless, refused, leader>>
        /\ failures > 0 \/ restless \/ refused \/ Misdirected
    BY <1>6, ExhaustedExplained DEF JoinFailed, End, clusterVars
  <2>2. GivesUpExplained'
    BY <2>1 DEF GivesUpExplained, Misdirected
  <2> QED BY <2>1, <2>2, RestEnd
<1>7. CASE Connect \/ Reconnect \/ GiveUp \/ BrokerRestarts \/ Outage
  <2>1. UNCHANGED <<clusterVars, handlerVars, joinerVars, phase>>
    BY <1>7 DEF Connect, Reconnect, GiveUp, BrokerRestarts, Outage, Broker, joinVars,
                raftVars, clusterVars, processVars
  <2> QED BY <2>1, RestQuiet
<1>8. CASE \E s \in Server : ChecksFailed(s)
  BY <1>8, RestRemoval
<1>9. CASE Cluster /\ UNCHANGED startVars
  BY <1>9, RestCluster
<1>10. CASE UNCHANGED vars
  <2>1. UNCHANGED <<clusterVars, handlerVars, joinerVars, phase>>
    BY <1>10 DEF vars, joinVars, startVars, processVars, raftVars, clusterVars
  <2> QED BY <2>1, RestQuiet
<1> QED
  BY <1>2, <1>3, <1>4, <1>5, <1>6, <1>7, <1>8, <1>9, <1>10 DEF Next, Main

LEMMA InvariantCorrect == Spec => []StartUpInv
<1>1. Init => StartUpInv
  BY InvariantInit
<1>2. StartUpInv /\ [Next]_vars => StartUpInv'
  BY RestStep
<1> QED BY <1>1, <1>2, PTL DEF Spec

-----------------------------------------------------------------------------
(* The theorems.                                                             *)

\* Whoever went on after "Join process completed" is a voter and a member, but
\* for removals that landed since its start, for any peers, cluster and past.
THEOREM JoinedIsMemberCorrect == Spec => []JoinedIsMember
<1>1. StartUpInv => JoinedIsMember
  BY DEF StartUpInv, WhatWasReached, Voting, Listed, JoinedIsMember
<1> QED BY <1>1, InvariantCorrect, PTL

\* A cluster at rest, whose leader has port 8080 of its host and whose raft takes
\* commands in time, takes the server in, through any peers of the flag.
THEOREM GivesUpExplainedCorrect == Spec => []GivesUpExplained
<1>1. StartUpInv => GivesUpExplained
  BY DEF StartUpInv
<1> QED BY <1>1, InvariantCorrect, PTL
=============================================================================
