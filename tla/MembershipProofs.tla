-------------------------- MODULE MembershipProofs ---------------------------
(***************************************************************************)
(* The two lists of the servers, for any cluster, any addresses and any    *)
(* number of requests and disruptions: what MembersExplained rests on.     *)
(***************************************************************************)
EXTENDS Membership, TLAPS

Address == Addr \cup {NoAddr}

RequestState ==
  [kind : {"none", "join", "leave"}, by : Server \cup {NoServer},
   who : Server \cup {NoServer}, addr : Address,
   stage : {"idle", "configuring", "listing", "over"}]

-----------------------------------------------------------------------------
(* Type correctness.                                                        *)

\* A handler that runs has a server and a subject, a monitor a suspect.
Subjects ==
  /\ \A r \in Request :
       request[r].stage \in {"configuring", "listing"}
         => request[r].by \in Server /\ request[r].who \in Server
  /\ \A s \in Server :
       monitor[s] \in {"suspecting", "removing", "unlisting"} => suspect[s] \in Server

TypeInv == TypeOK /\ Subjects

LEMMA DoneWithTypes ==
  ASSUME TypeInv, NEW s \in Server, NEW x \in Server, DoneWith(s, x)
  PROVE  /\ monitor' \in [Server -> {"sleeping", "checking", "suspecting", "removing", "unlisting"}]
         /\ seen' \in [Server -> [Server -> Address]]
         /\ suspect' \in [Server -> Server \cup {NoServer}]
         /\ \A t \in Server :
              monitor'[t] \in {"suspecting", "removing", "unlisting"} => suspect'[t] \in Server
<1> USE DEF TypeInv, TypeOK, DoneWith, Address
<1>1. monitor' \in [Server -> {"sleeping", "checking", "suspecting", "removing", "unlisting"}]
  OBVIOUS
<1>2. seen' \in [Server -> [Server -> Address]]
  OBVIOUS
<1>3. suspect' \in [Server -> Server \cup {NoServer}]
  OBVIOUS
<1>4. \A t \in Server :
        monitor'[t] \in {"suspecting", "removing", "unlisting"} => suspect'[t] \in Server
  BY DEF Subjects
<1> QED BY <1>1, <1>2, <1>3, <1>4

\* A handler that ends, or goes from the configuration to the list.
LEMMA StageTypes ==
  ASSUME TypeInv, NEW r \in Request, NEW g \in {"listing", "over"},
         request[r].stage \in {"configuring", "listing"},
         request' = [request EXCEPT ![r].stage = g]
  PROVE  /\ request' \in [Request -> RequestState]
         /\ \A q \in Request :
              request'[q].stage \in {"configuring", "listing"}
                => request'[q].by \in Server /\ request'[q].who \in Server
<1>1. request \in [Request -> RequestState]
  BY DEF TypeInv, TypeOK, RequestState, Address
<1>2. [request[r] EXCEPT !.stage = g] \in RequestState
  <2>1. request[r] \in RequestState
    BY <1>1
  <2> QED BY <2>1 DEF RequestState
<1>3. request' \in [Request -> RequestState]
  BY <1>1, <1>2
<1>4. \A q \in Request :
        request'[q].stage \in {"configuring", "listing"}
          => request'[q].by \in Server /\ request'[q].who \in Server
  BY <1>1 DEF TypeInv, Subjects, RequestState
<1> QED BY <1>3, <1>4

LEMMA ReconfiguredTypes ==
  ASSUME TypeInv, NEW s \in Server, NEW x \in Server, NEW a \in Address, NEW c,
         c = [conf EXCEPT ![x] = a],
         Reconfigured(s, c) \/ ReconfiguredUnknowingly(s, c)
  PROVE  /\ conf' \in [Server -> Address]
         /\ leader' \in Server \cup {NoServer}
         /\ disruptions' \in 0 .. MaxDisruptions
<1>1. conf' \in [Server -> Address]
  BY DEF TypeInv, TypeOK, Reconfigured, ReconfiguredUnknowingly, Address
<1>2. leader' \in Server \cup {NoServer}
  BY DEF TypeInv, TypeOK, Reconfigured, ReconfiguredUnknowingly
<1>3. disruptions' \in 0 .. MaxDisruptions
  BY MembershipAssumption DEF TypeInv, TypeOK, Reconfigured, ReconfiguredUnknowingly, Disrupt
<1> QED BY <1>1, <1>2, <1>3

LEMMA TypeInit == Init => TypeInv
<1> SUFFICES ASSUME Init PROVE TypeInv
  OBVIOUS
<1> USE MembershipAssumption DEF Init, Address
<1>1. request \in [Request -> RequestState]
  BY DEF Idle, RequestState
<1>2. seen \in [Server -> [Server -> Address]]
  BY DEF Empty
<1>3. conf \in [Server -> Address] /\ members \in [Server -> Address]
  OBVIOUS
<1>4. TypeOK
  BY <1>1, <1>2, <1>3 DEF TypeOK, RequestState
<1>5. Subjects
  BY DEF Subjects, Idle
<1> QED BY <1>4, <1>5 DEF TypeInv

\* What the processes and raft do on their own.
LEMMA EnvironmentTypes ==
  ASSUME TypeInv,
         \/ \E s \in Server : Stop(s) \/ Elect(s) \/ \E a \in Addr : Start(s, a)
         \/ LoseLeadership
         \/ StepDown
  PROVE  TypeInv'
<1> USE MembershipAssumption DEF TypeInv
<1>1. ASSUME NEW s \in Server, Stop(s) PROVE TypeInv'
  <2> USE <1>1 DEF Stop
  <2>1. home' \in [Server -> Addr \cup {NoAddr}]
    BY DEF TypeOK
  <2>2. leader' \in Server \cup {NoServer}
    BY DEF TypeOK
  <2>3. disruptions' \in 0 .. MaxDisruptions
    BY DEF TypeOK, Disrupt
  <2>4. request' \in [Request -> RequestState]
    <3>1. \A q \in Request : request[q] \in RequestState
      BY DEF TypeOK, RequestState, Address
    <3>2. \A q \in Request : [request[q] EXCEPT !.stage = "over"] \in RequestState
      BY <3>1 DEF RequestState
    <3> QED BY <3>1, <3>2
  <2>5. monitor' \in [Server -> {"sleeping", "checking", "suspecting", "removing", "unlisting"}]
    BY DEF TypeOK
  <2>6. torn' \subseteq Server
    <3>1. {request[r].who : r \in {q \in Request : request[q].by = s /\ request[q].stage = "listing"}}
            \subseteq Server
      BY DEF Subjects
    <3>2. (IF monitor[s] = "unlisting" THEN {suspect[s]} ELSE {}) \subseteq Server
      BY DEF Subjects
    <3> QED BY <3>1, <3>2 DEF TypeOK
  <2>7. TypeOK'
    BY <2>1, <2>2, <2>3, <2>4, <2>5, <2>6 DEF TypeOK, RequestState, Address
  <2>8. Subjects'
    BY DEF Subjects, TypeOK
  <2> QED BY <2>7, <2>8
<1>2. ASSUME NEW s \in Server, Elect(s) PROVE TypeInv'
  BY <1>2 DEF Elect, TypeOK, Subjects, monitorVars
<1>3. ASSUME NEW s \in Server, NEW a \in Addr, Start(s, a) PROVE TypeInv'
  BY <1>3 DEF Start, Disrupt, TypeOK, Subjects, monitorVars
<1>4. CASE LoseLeadership
  BY <1>4 DEF LoseLeadership, Disrupt, TypeOK, Subjects, monitorVars
<1>5. CASE StepDown
  BY <1>5 DEF StepDown, TypeOK, Subjects, monitorVars
<1> QED BY <1>1, <1>2, <1>3, <1>4, <1>5

LEMMA HandlerTypes ==
  ASSUME TypeInv, NEW r \in Request, ReceiveRequest(r) \/ Handle(r)
  PROVE  TypeInv'
<1> USE MembershipAssumption DEF TypeInv
<1>1. CASE ReceiveRequest(r)
  <2> USE <1>1 DEF ReceiveRequest
  <2>1. PICK x \in Server :
          \/ /\ home[x] # NoAddr
             /\ request' = [request EXCEPT ![r] =
                  [kind |-> "join", by |-> leader, who |-> x, addr |-> home[x], stage |-> "configuring"]]
          \/ request' = [request EXCEPT ![r] =
                  [kind |-> "leave", by |-> leader, who |-> x, addr |-> NoAddr, stage |-> "configuring"]]
    OBVIOUS
  <2>2. PICK v \in RequestState :
          /\ request' = [request EXCEPT ![r] = v]
          /\ v.by = leader /\ v.who = x
    BY <2>1 DEF TypeOK, RequestState, Address
  <2>3. request' \in [Request -> RequestState]
    BY <2>2 DEF TypeOK, RequestState, Address
  <2>4. Subjects'
    BY <2>2 DEF TypeOK, Subjects, monitorVars
  <2>5. TypeOK'
    BY <2>3 DEF TypeOK, RequestState, Address, clusterVars, monitorVars
  <2> QED BY <2>4, <2>5
<1>2. CASE Configure(r)
  <2> USE <1>2 DEF Configure
  <2>1. request[r].by \in Server /\ request[r].who \in Server /\ request[r].addr \in Address
    BY DEF Subjects, TypeOK, Address
  <2>2. /\ conf' \in [Server -> Address]
        /\ leader' \in Server \cup {NoServer}
        /\ disruptions' \in 0 .. MaxDisruptions
    BY <2>1, ReconfiguredTypes
  <2>3. /\ request' \in [Request -> RequestState]
        /\ \A q \in Request :
             request'[q].stage \in {"configuring", "listing"}
               => request'[q].by \in Server /\ request'[q].who \in Server
    BY StageTypes
  <2>4. torn' \subseteq Server
    BY <2>1 DEF TypeOK
  <2>5. TypeOK'
    BY <2>2, <2>3, <2>4 DEF TypeOK, RequestState, Address, monitorVars
  <2>6. Subjects'
    BY <2>3 DEF Subjects, monitorVars
  <2> QED BY <2>5, <2>6
<1>3. CASE ConfigureFailed(r)
  <2> USE <1>3 DEF ConfigureFailed
  <2>1. /\ request' \in [Request -> RequestState]
        /\ \A q \in Request :
             request'[q].stage \in {"configuring", "listing"}
               => request'[q].by \in Server /\ request'[q].who \in Server
    BY StageTypes
  <2>2. TypeOK'
    BY <2>1 DEF TypeOK, RequestState, Address, clusterVars, monitorVars
  <2>3. Subjects'
    BY <2>1 DEF Subjects, monitorVars
  <2> QED BY <2>2, <2>3
<1>4. CASE List(r)
  <2> USE <1>4 DEF List, Listed
  <2>1. /\ request' \in [Request -> RequestState]
        /\ \A q \in Request :
             request'[q].stage \in {"configuring", "listing"}
               => request'[q].by \in Server /\ request'[q].who \in Server
    BY StageTypes
  <2>2. members' \in [Server -> Address]
    BY DEF TypeOK, Address
  <2>3. TypeOK'
    BY <2>1, <2>2 DEF TypeOK, RequestState, Address, monitorVars
  <2>4. Subjects'
    BY <2>1 DEF Subjects, monitorVars
  <2> QED BY <2>3, <2>4
<1>5. CASE ListFailed(r)
  <2> USE <1>5 DEF ListFailed
  <2>1. /\ request' \in [Request -> RequestState]
        /\ \A q \in Request :
             request'[q].stage \in {"configuring", "listing"}
               => request'[q].by \in Server /\ request'[q].who \in Server
    BY StageTypes
  <2>2. torn' \subseteq Server
    BY DEF TypeOK, Subjects
  <2>5. disruptions' \in 0 .. MaxDisruptions
    BY MembershipAssumption DEF TypeOK, Disrupt
  <2>3. TypeOK'
    BY <2>1, <2>2, <2>5 DEF TypeOK, RequestState, Address, monitorVars
  <2>4. Subjects'
    BY <2>1 DEF Subjects, monitorVars
  <2> QED BY <2>3, <2>4
<1> QED BY <1>1, <1>2, <1>3, <1>4, <1>5 DEF Handle

LEMMA MonitorTypes ==
  ASSUME TypeInv, NEW s \in Server, Monitor(s)
  PROVE  TypeInv'
<1> USE MembershipAssumption DEF TypeInv
<1>1. CASE Tick(s)
  <2> USE <1>1 DEF Tick
  <2>1. seen' \in [Server -> [Server -> Address]]
    BY DEF TypeOK, Address
  <2>2. TypeOK'
    BY <2>1 DEF TypeOK, Address, clusterVars
  <2>3. Subjects'
    BY DEF TypeOK, Subjects
  <2> QED BY <2>2, <2>3
<1>2. ASSUME NEW x \in Server, FirstCheck(s, x) PROVE TypeInv'
  <2> USE <1>2 DEF FirstCheck
  <2>1. CASE DoneWith(s, x)
    <3>1. TypeOK'
      BY <2>1, DoneWithTypes DEF TypeOK, Address, clusterVars
    <3>2. Subjects'
      BY <2>1, DoneWithTypes DEF Subjects
    <3> QED BY <3>1, <3>2
  <2>2. CASE ~DoneWith(s, x)
    <3>1. /\ monitor' = [monitor EXCEPT ![s] = "suspecting"]
          /\ suspect' = [suspect EXCEPT ![s] = x]
          /\ UNCHANGED seen
      BY <2>2
    <3>2. /\ monitor' \in [Server -> {"sleeping", "checking", "suspecting", "removing", "unlisting"}]
          /\ suspect' \in [Server -> Server \cup {NoServer}]
      BY <3>1 DEF TypeOK
    <3>3. TypeOK'
      BY <3>1, <3>2 DEF TypeOK, clusterVars
    <3>4. Subjects'
      BY <3>1 DEF TypeOK, Subjects
    <3> QED BY <3>3, <3>4
  <2> QED BY <2>1, <2>2
<1>3. CASE SecondCheck(s)
  <2> USE <1>3 DEF SecondCheck
  <2>1. suspect[s] \in Server
    BY DEF Subjects
  <2>2. CASE DoneWith(s, suspect[s])
    <3>1. TypeOK'
      BY <2>1, <2>2, DoneWithTypes DEF TypeOK, Address, clusterVars
    <3>2. Subjects'
      BY <2>1, <2>2, DoneWithTypes DEF Subjects
    <3> QED BY <3>1, <3>2
  <2>3. CASE ~DoneWith(s, suspect[s])
    <3>1. TypeOK'
      BY <2>3 DEF TypeOK, clusterVars
    <3>2. Subjects'
      BY <2>1, <2>3 DEF TypeOK, Subjects
    <3> QED BY <3>1, <3>2
  <2> QED BY <2>2, <2>3
<1>4. CASE Remove(s)
  <2> USE <1>4 DEF Remove
  <2>1. suspect[s] \in Server /\ NoAddr \in Address
    BY DEF Subjects, Address
  <2>2. /\ conf' \in [Server -> Address]
        /\ leader' \in Server \cup {NoServer}
        /\ disruptions' \in 0 .. MaxDisruptions
    BY <2>1, ReconfiguredTypes
  <2>3. torn' \subseteq Server
    BY <2>1 DEF TypeOK
  <2>4. CASE DoneWith(s, suspect[s])
    <3>1. TypeOK'
      BY <2>1, <2>2, <2>3, <2>4, DoneWithTypes DEF TypeOK, Address
    <3>2. Subjects'
      BY <2>1, <2>4, DoneWithTypes DEF Subjects
    <3> QED BY <3>1, <3>2
  <2>5. CASE ~DoneWith(s, suspect[s])
    <3>1. TypeOK'
      BY <2>2, <2>3, <2>5 DEF TypeOK, Address
    <3>2. Subjects'
      BY <2>1, <2>5 DEF TypeOK, Subjects
    <3> QED BY <3>1, <3>2
  <2> QED BY <2>4, <2>5
<1>5. CASE RemoveFailed(s) \/ Unlist(s) \/ UnlistFailed(s)
  <2> USE <1>5 DEF RemoveFailed, Unlist, UnlistFailed, Listed
  <2>1. suspect[s] \in Server /\ DoneWith(s, suspect[s])
    BY DEF Subjects
  <2>2. members' \in [Server -> Address] /\ torn' \subseteq Server
    BY <2>1 DEF TypeOK, Address, clusterVars
  <2>5. disruptions' \in 0 .. MaxDisruptions
    BY MembershipAssumption DEF TypeOK, Disrupt, clusterVars
  <2>6. UNCHANGED <<home, leader, conf, request, listed>>
    BY DEF clusterVars
  <2>3. TypeOK'
    BY <2>1, <2>2, <2>5, <2>6, DoneWithTypes DEF TypeOK, Address
  <2>4. Subjects'
    BY <2>1, DoneWithTypes DEF Subjects
  <2> QED BY <2>3, <2>4
<1>6. CASE Finish(s)
  <2> USE <1>6 DEF Finish, Listed
  <2>1. members' \in [Server -> Address] /\ torn' \subseteq Server
    BY DEF TypeOK, Address
  <2>4. disruptions' \in 0 .. MaxDisruptions
    BY MembershipAssumption DEF TypeOK, Disrupt
  <2>2. TypeOK'
    BY <2>1, <2>4 DEF TypeOK, Address
  <2>3. Subjects'
    BY DEF TypeOK, Subjects
  <2> QED BY <2>2, <2>3
<1> QED BY <1>1, <1>2, <1>3, <1>4, <1>5, <1>6 DEF Monitor

LEMMA TypeStep == TypeInv /\ [Next]_vars => TypeInv'
<1> SUFFICES ASSUME TypeInv, [Next]_vars PROVE TypeInv'
  OBVIOUS
<1>1. CASE UNCHANGED vars
  BY <1>1 DEF TypeInv, TypeOK, Subjects, vars, clusterVars, monitorVars
<1>2. CASE Next
  BY <1>2, EnvironmentTypes, HandlerTypes, MonitorTypes DEF Next
<1> QED BY <1>1, <1>2

\* Every reachable state of the cluster, the handlers and the monitors is well
\* typed.
THEOREM TypeCorrect == Spec => []TypeOK
<1>1. TypeInv => TypeOK
  BY DEF TypeInv
<1> QED
  BY <1>1, TypeInit, TypeStep, PTL DEF Spec
-----------------------------------------------------------------------------
(* The difference between the two lists.                                    *)

Listing(r, x) == request[r].stage = "listing" /\ request[r].who = x

Unlisting(s, x) == monitor[s] = "unlisting" /\ suspect[s] = x

\* Who is between its two changes for x has the address in the configuration that
\* it is about to list; without that a second change could make the lists differ.
Explained(x) ==
  /\ \A r \in Request : Listing(r, x) => conf[x] = request[r].addr
  /\ \A s \in Server : Unlisting(s, x) => conf[x] = NoAddr
  /\ \/ conf[x] = members[x]
     \/ \E r \in Request : Listing(r, x)
     \/ \E s \in Server : Unlisting(s, x)

MembersInv == TypeInv /\ \A x \in Server \ torn : Explained(x)

\* A step that changes neither list at x, nor who is between two changes of it.
Silent(x) ==
  /\ conf'[x] = conf[x] /\ members'[x] = members[x]
  /\ \A r \in Request :
       /\ Listing(r, x)' <=> Listing(r, x)
       /\ Listing(r, x) => request'[r].addr = request[r].addr
  /\ \A s \in Server : Unlisting(s, x)' <=> Unlisting(s, x)

LEMMA SilentKeeps ==
  ASSUME NEW x \in Server, Explained(x), Silent(x)
  PROVE  Explained(x)'
BY DEF Explained, Silent

LEMMA BetweenBoth ==
  ASSUME NEW x \in Server, NEW e
  PROVE  /\ ~Between(x, e) =>
              /\ \A r \in Request \ {e} : ~Listing(r, x)
              /\ \A s \in Server \ {e} : ~Unlisting(s, x)
         /\ e \notin Request /\ e \notin Server =>
              (Between(x, e) <=> \/ \E r \in Request : Listing(r, x)
                                 \/ \E s \in Server : Unlisting(s, x))
BY DEF Between, Listing, Unlisting

LEMMA NamesApart == Request \cap Server = {} /\ 0 \notin Request /\ 0 \notin Server
BY MembershipAssumption DEF Request

LEMMA MembersInit == Init => MembersInv
<1> SUFFICES ASSUME Init, NEW x \in Server \ torn PROVE Explained(x)
  BY TypeInit DEF MembersInv
<1>1. conf[x] = members[x]
  BY DEF Init
<1> QED
  BY <1>1 DEF Init, Explained, Listing, Unlisting, Idle

LEMMA EnvironmentExplained ==
  ASSUME MembersInv, NEW x \in Server \ torn', x \notin torn,
         \/ \E s \in Server : Stop(s) \/ Elect(s) \/ \E a \in Addr : Start(s, a)
         \/ LoseLeadership
         \/ StepDown
  PROVE  Silent(x)
<1>1. ASSUME NEW s \in Server, Stop(s) PROVE Silent(x)
  <2> USE <1>1 DEF Stop
  <2>1. \A r \in Request : request[r].by = s => ~Listing(r, x)
    BY DEF Listing
  <2>2. ASSUME NEW r \in Request
        PROVE  /\ Listing(r, x)' <=> Listing(r, x)
               /\ Listing(r, x) => request'[r].addr = request[r].addr
    <3>1. request \in [Request -> RequestState]
      BY DEF MembersInv, TypeInv, TypeOK, RequestState, Address
    <3>2. CASE request[r].by = s /\ request[r].stage # "idle"
      <4>1. request'[r] = [request[r] EXCEPT !.stage = "over"] /\ request[r] \in RequestState
        BY <3>1, <3>2
      <4> QED BY <2>1, <3>2, <4>1 DEF Listing, RequestState
    <3>3. CASE ~(request[r].by = s /\ request[r].stage # "idle")
      BY <3>3 DEF Listing
    <3> QED BY <3>2, <3>3
  <2>3. ~Unlisting(s, x)
    BY DEF Unlisting
  <2>4. \A t \in Server : Unlisting(t, x)' <=> Unlisting(t, x)
    BY <2>3 DEF Unlisting, MembersInv, TypeInv, TypeOK
  <2> QED BY <2>2, <2>4 DEF Silent
<1>2. ASSUME NEW s \in Server, Elect(s) PROVE Silent(x)
  BY <1>2 DEF Elect, Silent, Listing, Unlisting, monitorVars
<1>3. ASSUME NEW s \in Server, NEW a \in Addr, Start(s, a) PROVE Silent(x)
  BY <1>3 DEF Start, Silent, Listing, Unlisting, monitorVars
<1>4. CASE LoseLeadership
  BY <1>4 DEF LoseLeadership, Silent, Listing, Unlisting, monitorVars
<1>5. CASE StepDown
  BY <1>5 DEF StepDown, Silent, Listing, Unlisting, monitorVars
<1> QED BY <1>1, <1>2, <1>3, <1>4, <1>5

\* A handler that ends without having changed a list of x.
LEMMA HandlerSilent ==
  ASSUME TypeInv, NEW x \in Server, NEW r \in Request, NEW v \in RequestState,
         request' = [request EXCEPT ![r] = v],
         ~Listing(r, x),
         ~(v.stage = "listing" /\ v.who = x),
         conf'[x] = conf[x], members'[x] = members[x],
         UNCHANGED <<monitor, suspect>>
  PROVE  Silent(x)
<1>1. request \in [Request -> RequestState]
  BY DEF TypeInv, TypeOK, RequestState, Address
<1> QED BY <1>1 DEF Silent, Listing, Unlisting

LEMMA HandlerExplained ==
  ASSUME MembersInv, NEW x \in Server \ torn', x \notin torn,
         NEW r \in Request, ReceiveRequest(r) \/ Handle(r)
  PROVE  Explained(x)'
<1> USE DEF MembersInv
<1> DEFINE Over == [request[r] EXCEPT !.stage = "over"]
           Next2 == [request[r] EXCEPT !.stage = "listing"]
<1>1. request \in [Request -> RequestState]
  BY DEF TypeInv, TypeOK, RequestState, Address
<1>2. /\ Over \in RequestState /\ Over.stage = "over"
      /\ Next2 \in RequestState /\ Next2.stage = "listing"
      /\ Next2.who = request[r].who /\ Next2.addr = request[r].addr
  BY <1>1 DEF RequestState
<1> HIDE DEF Over, Next2
<1>3. CASE ReceiveRequest(r)
  <2>1. PICK y \in Server :
          \/ /\ home[y] # NoAddr
             /\ request' = [request EXCEPT ![r] =
                  [kind |-> "join", by |-> leader, who |-> y, addr |-> home[y], stage |-> "configuring"]]
          \/ request' = [request EXCEPT ![r] =
                  [kind |-> "leave", by |-> leader, who |-> y, addr |-> NoAddr, stage |-> "configuring"]]
    BY <1>3 DEF ReceiveRequest
  <2>2. PICK v \in RequestState :
          request' = [request EXCEPT ![r] = v] /\ v.stage = "configuring"
    BY <2>1, <1>3 DEF ReceiveRequest, TypeInv, TypeOK, RequestState, Address
  <2>3. Silent(x)
    BY <2>2, <1>3, HandlerSilent DEF ReceiveRequest, Listing, clusterVars, monitorVars
  <2> QED BY <2>3, SilentKeeps
<1>4. CASE ConfigureFailed(r)
  <2>1. request' = [request EXCEPT ![r] = Over]
    BY <1>4 DEF ConfigureFailed, Over
  <2>2. Silent(x)
    BY <2>1, <1>2, <1>4, HandlerSilent DEF ConfigureFailed, Listing, clusterVars, monitorVars
  <2> QED BY <2>2, SilentKeeps
<1>5. CASE ListFailed(r)
  <2>1. request' = [request EXCEPT ![r] = Over] /\ request[r].who # x
    BY <1>5 DEF ListFailed, Over
  <2>2. Silent(x)
    BY <2>1, <1>2, <1>5, HandlerSilent DEF ListFailed, Listing, clusterVars, monitorVars
  <2> QED BY <2>2, SilentKeeps
<1>6. CASE List(r)
  <2>1. request' = [request EXCEPT ![r] = Over]
    BY <1>6 DEF List, Over
  <2>2. CASE request[r].who # x
    <3>1. conf'[x] = conf[x] /\ members'[x] = members[x]
      BY <1>6, <2>2 DEF List, Listed, TypeInv, TypeOK
    <3>2. Silent(x)
      BY <2>1, <2>2, <3>1, <1>2, <1>6, HandlerSilent DEF List, Listing, monitorVars
    <3> QED BY <3>2, SilentKeeps
  <2>3. CASE request[r].who = x
    <3>1. conf'[x] = conf[x] /\ members'[x] = request[r].addr /\ conf[x] = request[r].addr
      BY <1>6, <2>3 DEF List, Listed, Listing, Explained, TypeInv, TypeOK
    <3>2. \A q \in Request : Listing(q, x)' => Listing(q, x) /\ request'[q].addr = request[q].addr
      BY <2>1, <1>1, <1>2 DEF Listing
    <3>3. \A s \in Server : Unlisting(s, x)' <=> Unlisting(s, x)
      BY <1>6 DEF List, Unlisting, monitorVars
    <3> QED BY <3>1, <3>2, <3>3 DEF Explained
  <2> QED BY <2>2, <2>3
<1>7. CASE Configure(r)
  <2>1. PICK g \in {Over, Next2} : request' = [request EXCEPT ![r] = g]
    BY <1>7 DEF Configure, Over, Next2
  <2>2. g \in RequestState
    BY <2>1, <1>2
  <2>3. conf' = [conf EXCEPT ![request[r].who] = request[r].addr]
    BY <1>7 DEF Configure, Reconfigured, ReconfiguredUnknowingly
  <2>4. CASE request[r].who # x
    <3>1. conf'[x] = conf[x] /\ members'[x] = members[x]
      BY <1>7, <2>3, <2>4 DEF Configure, TypeInv, TypeOK
    <3>2. ~(g.stage = "listing" /\ g.who = x)
      BY <2>1, <2>4, <1>2
    <3>3. Silent(x)
      BY <2>1, <2>2, <2>4, <3>1, <3>2, <1>7, HandlerSilent DEF Configure, Listing, monitorVars
    <3> QED BY <3>3, SilentKeeps
  <2>5. CASE request[r].who = x
    <3>1. ~Between(x, r) /\ request' = [request EXCEPT ![r] = Next2]
      BY <1>7, <2>5 DEF Configure, Next2
    <3>2. /\ \A q \in Request \ {r} : ~Listing(q, x)
          /\ \A s \in Server : ~Unlisting(s, x)
      BY <3>1, BetweenBoth, NamesApart
    <3>3. conf'[x] = request[r].addr
      BY <2>3, <2>5 DEF TypeInv, TypeOK
    <3>4. /\ \A q \in Request \ {r} : ~Listing(q, x)'
          /\ \A s \in Server : ~Unlisting(s, x)'
      BY <3>1, <3>2, <1>1, <1>7 DEF Listing, Unlisting, Configure, monitorVars
    <3>5. Listing(r, x)' /\ request'[r].addr = request[r].addr
      BY <3>1, <1>1, <1>2, <2>5 DEF Listing
    <3> QED BY <3>3, <3>4, <3>5 DEF Explained
  <2> QED BY <2>4, <2>5
<1> QED BY <1>3, <1>4, <1>5, <1>6, <1>7 DEF Handle

\* A monitor that is not, and will not be, between its changes of x.
LEMMA MonitorSilent ==
  ASSUME TypeInv, NEW x \in Server, NEW s \in Server,
         NEW m, NEW y,
         monitor' = [monitor EXCEPT ![s] = m],
         suspect' = [suspect EXCEPT ![s] = y],
         ~Unlisting(s, x), ~(m = "unlisting" /\ y = x),
         conf'[x] = conf[x], members'[x] = members[x],
         UNCHANGED request
  PROVE  Silent(x)
<1>1. \A t \in Server : Unlisting(t, x)' <=> Unlisting(t, x)
  BY DEF Unlisting, TypeInv, TypeOK
<1> QED BY <1>1 DEF Silent, Listing

LEMMA MonitorExplained ==
  ASSUME MembersInv, NEW x \in Server \ torn', x \notin torn,
         NEW s \in Server, Monitor(s)
  PROVE  Explained(x)'
<1> USE DEF MembersInv
<1>0. suspect = [suspect EXCEPT ![s] = suspect[s]]
  BY DEF TypeInv, TypeOK
<1>1. CASE Tick(s)
  <2>1. Silent(x)
    BY <1>0, <1>1, MonitorSilent DEF Tick, Unlisting, clusterVars
  <2> QED BY <2>1, SilentKeeps
<1>2. ASSUME NEW y \in Server, FirstCheck(s, y) PROVE Explained(x)'
  <2>1. Silent(x)
    BY <1>2, MonitorSilent DEF FirstCheck, DoneWith, Unlisting, clusterVars
  <2> QED BY <2>1, SilentKeeps
<1>3. CASE SecondCheck(s)
  <2>1. Silent(x)
    BY <1>0, <1>3, MonitorSilent DEF SecondCheck, DoneWith, Unlisting, clusterVars
  <2> QED BY <2>1, SilentKeeps
<1>4. CASE RemoveFailed(s)
  <2>1. Silent(x)
    BY <1>4, MonitorSilent DEF RemoveFailed, DoneWith, Unlisting, clusterVars
  <2> QED BY <2>1, SilentKeeps
<1>5. CASE UnlistFailed(s)
  <2>1. suspect[s] # x
    BY <1>5 DEF UnlistFailed
  <2>2. Silent(x)
    BY <2>1, <1>5, MonitorSilent DEF UnlistFailed, DoneWith, Unlisting, clusterVars
  <2> QED BY <2>2, SilentKeeps
<1>6. CASE Finish(s)
  <2>1. conf'[x] = conf[x] /\ members'[x] = members[x]
    BY <1>6 DEF Finish, Listed, TypeInv, TypeOK
  <2>2. Silent(x)
    BY <2>1, <1>0, <1>6, MonitorSilent DEF Finish, Unlisting
  <2> QED BY <2>2, SilentKeeps
<1>7. CASE Unlist(s)
  <2>1. CASE suspect[s] # x
    <3>1. conf'[x] = conf[x] /\ members'[x] = members[x]
      BY <1>7, <2>1 DEF Unlist, Listed, TypeInv, TypeOK
    <3>2. Silent(x)
      BY <2>1, <3>1, <1>7, MonitorSilent DEF Unlist, DoneWith, Unlisting
    <3> QED BY <3>2, SilentKeeps
  <2>2. CASE suspect[s] = x
    <3>1. conf'[x] = NoAddr /\ members'[x] = NoAddr
      BY <1>7, <2>2 DEF Unlist, Listed, Unlisting, Explained, TypeInv, TypeOK
    <3>2. conf'[x] = conf[x] /\ \A r \in Request : Listing(r, x)' => Listing(r, x) /\ request'[r] = request[r]
      BY <1>7 DEF Unlist, Listing
    <3> QED BY <3>1, <3>2 DEF Explained
  <2> QED BY <2>1, <2>2
<1>8. CASE Remove(s)
  <2>1. conf' = [conf EXCEPT ![suspect[s]] = NoAddr]
    BY <1>8 DEF Remove, Reconfigured, ReconfiguredUnknowingly
  <2>2. CASE suspect[s] # x
    <3>1. conf'[x] = conf[x] /\ members'[x] = members[x]
      BY <1>8, <2>1, <2>2 DEF Remove, TypeInv, TypeOK
    <3>2. Silent(x)
      BY <2>2, <3>1, <1>0, <1>8, MonitorSilent DEF Remove, DoneWith, Unlisting
    <3> QED BY <3>2, SilentKeeps
  <2>3. CASE suspect[s] = x
    <3>1. /\ ~Between(x, s)
          /\ monitor' = [monitor EXCEPT ![s] = "unlisting"]
          /\ UNCHANGED <<suspect, request>>
      BY <1>8, <2>3 DEF Remove
    <3>2. \A r \in Request : ~Listing(r, x)
      BY <3>1, BetweenBoth, NamesApart
    <3>3. conf'[x] = NoAddr
      BY <2>1, <2>3 DEF TypeInv, TypeOK
    <3>4. \A r \in Request : ~Listing(r, x)'
      BY <3>1, <3>2 DEF Listing
    <3>5. Unlisting(s, x)'
      BY <2>3, <3>1 DEF Unlisting, TypeInv, TypeOK
    <3> QED BY <3>3, <3>4, <3>5 DEF Explained
  <2> QED BY <2>2, <2>3
<1> QED BY <1>1, <1>2, <1>3, <1>4, <1>5, <1>6, <1>7, <1>8 DEF Monitor

LEMMA TornGrows == [Next]_vars => torn \subseteq torn'
BY DEF Next, vars, Stop, Elect, Start, LoseLeadership, StepDown, ReceiveRequest,
  Handle, Configure, ConfigureFailed, List, ListFailed, Monitor, Tick, FirstCheck,
  SecondCheck, Remove, RemoveFailed, Unlist, UnlistFailed, Finish

LEMMA MembersStep == MembersInv /\ [Next]_vars => MembersInv'
<1> SUFFICES ASSUME MembersInv, [Next]_vars, NEW x \in Server \ torn'
             PROVE  Explained(x)'
  BY TypeStep DEF MembersInv
<1>1. x \notin torn
  BY TornGrows
<1>2. CASE UNCHANGED vars
  <2>1. Silent(x)
    BY <1>2 DEF vars, clusterVars, monitorVars, Silent, Listing, Unlisting
  <2> QED BY <1>1, <2>1, SilentKeeps DEF MembersInv
<1>3. ASSUME \/ \E s \in Server : Stop(s) \/ Elect(s) \/ \E a \in Addr : Start(s, a)
             \/ LoseLeadership
             \/ StepDown
      PROVE  Explained(x)'
  <2>1. Silent(x)
    BY <1>1, <1>3, EnvironmentExplained
  <2> QED BY <1>1, <2>1, SilentKeeps DEF MembersInv
<1>4. ASSUME NEW r \in Request, ReceiveRequest(r) \/ Handle(r) PROVE Explained(x)'
  BY <1>1, <1>4, HandlerExplained
<1>5. ASSUME NEW s \in Server, Monitor(s) PROVE Explained(x)'
  BY <1>1, <1>5, MonitorExplained
<1> QED BY <1>2, <1>3, <1>4, <1>5 DEF Next

\* The raft configuration and s.members differ on a server only in the middle of
\* an operation on it, or after an operation on it was torn, for any number of
\* servers, /join and /leave requests and monitors.
THEOREM MembersExplainedCorrect == Spec => []MembersExplained
<1>1. MembersInv => MembersExplained
  <2> SUFFICES ASSUME MembersInv, NEW x \in Server \ torn
               PROVE  conf[x] = members[x] \/ Between(x, 0)
    BY DEF MembersExplained
  <2> QED BY BetweenBoth, NamesApart DEF MembersInv, Explained
<1> QED
  BY <1>1, MembersInit, MembersStep, PTL DEF Spec
=============================================================================
