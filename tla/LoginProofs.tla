----------------------------- MODULE LoginProofs -----------------------------
(***************************************************************************)
(* Logins with one id, for any number of clients, servers, requests and    *)
(* disruptions: what DoubleLoginExplained rests on.                        *)
(***************************************************************************)
EXTENDS Login, TLAPS

\* What the numbering of the requests gives: those not yet published are
\* untouched, and who asks waits for one that is published.
Numbered ==
  /\ \A c \in Client : client[c] = "asking" => current[c] \in 1 .. requests
  /\ \A r \in Request : r > requests =>
       /\ replies[r] = {}
       /\ \A s \in Server : callback[s][r] = "none"

TypeInv == TypeOK /\ Numbered

\* Before there is an account nobody is let in and nothing is checked.
AccountFirst ==
  (\A s \in Server : count[s] = 0) =>
    /\ \A c \in Client : client[c] \notin {"letIn", "in"}
    /\ \A s \in Server, r \in Request : callback[s][r] # "checking"
    /\ \A r \in Request : "free" \notin replies[r]

Overlapping ==
  \A c, d \in OnTheWayIn : c # d => {c, d} \in overlapped

\* While c is in, a request whose check has not missed it is not answered with
\* "free": each check of it has found c or has yet to hear a member.
NotFree(r) ==
  /\ "free" \notin replies[r]
  /\ \A s \in Server :
       callback[s][r] = "checking" => found[s][r] \/ unheard[s][r] # {}

Refused ==
  \A c, d \in Client :
    c # d /\ client[c] = "in" /\ client[d] = "asking"
      => {c, d} \in overlapped \/ current[d] \in missed \/ NotFree(current[d])

Excused(c, d) ==
  {c, d} \in overlapped \/ current[c] \in missed \/ current[d] \in missed

LetInExcused ==
  \A c, d \in Client :
    c # d /\ client[c] = "in" /\ client[d] \in {"letIn", "in"} => Excused(c, d)

LoginInv == TypeInv /\ AccountFirst /\ Overlapping /\ Refused /\ LetInExcused

-----------------------------------------------------------------------------
(* Type correctness.                                                        *)

ClientState == {"out", "asking", "letIn", "in", "panicked"}
CallbackState == {"none", "pending", "checking", "over"}
Answer == {"err", "free", "logged", "nil"}

\* Who asks waits for a request that was published.
LEMMA AskingRequest ==
  ASSUME TypeInv, NEW c \in Client, client[c] = "asking"
  PROVE  current[c] \in Request /\ current[c] <= requests
BY LoginAssumption DEF TypeInv, TypeOK, Numbered, Request

LEMMA TypeInit == Init => TypeInv
<1> SUFFICES ASSUME Init PROVE TypeInv
  OBVIOUS
<1>1. TypeOK
  BY LoginAssumption DEF Init, TypeOK
<1>2. Numbered
  BY DEF Init, Numbered
<1> QED BY <1>1, <1>2 DEF TypeInv

LEMMA ReplyTypes ==
  ASSUME TypeInv, NEW s \in Server, NEW r \in Request, NEW a \in Answer,
         callback[s][r] # "none", Reply(s, r, a)
  PROVE  /\ callback' \in [Server -> [Request -> CallbackState]]
         /\ decider' \in [Server -> [Request -> Server \cup {NoServer}]]
         /\ unheard' \in [Server -> [Request -> SUBSET Server]]
         /\ found' \in [Server -> [Request -> BOOLEAN]]
         /\ replies' \in [Request -> SUBSET Answer]
         /\ \A q \in Request : q > requests =>
              /\ replies'[q] = {}
              /\ \A t \in Server : callback'[t][q] = "none"
<1> USE DEF TypeInv, TypeOK, CallbackState, Answer
<1>1. callback' \in [Server -> [Request -> CallbackState]]
  BY DEF Reply
<1>2. decider' \in [Server -> [Request -> Server \cup {NoServer}]]
  BY DEF Reply
<1>3. unheard' \in [Server -> [Request -> SUBSET Server]]
  BY DEF Reply
<1>4. found' \in [Server -> [Request -> BOOLEAN]]
  BY DEF Reply
<1>5. replies' \in [Request -> SUBSET Answer]
  BY DEF Reply
<1>6. ~(r > requests)
  BY DEF Numbered
<1>7. ASSUME NEW q \in Request, q > requests
      PROVE  /\ replies'[q] = {}
             /\ \A t \in Server : callback'[t][q] = "none"
  <2>1. q # r /\ replies[q] = {} /\ \A t \in Server : callback[t][q] = "none"
    BY <1>6, <1>7 DEF Numbered
  <2> QED BY <2>1 DEF Reply
<1> QED BY <1>1, <1>2, <1>3, <1>4, <1>5, <1>7

LEMMA RaftTypes ==
  ASSUME TypeInv, NEW s \in Server,
         Elect(s) \/ LoseContact(s) \/ Learn(s) \/ ApplyAccount(s)
  PROVE  TypeInv'
<1> USE LoginAssumption DEF TypeInv, clientVars, checkVars
<1>1. /\ leader' \in Server
      /\ knows' \in [Server -> Server \cup {NoServer}]
      /\ disruptions' \in 0 .. MaxDisruptions
      /\ count' \in [Server -> {0, 1}]
  <2>1. CASE Elect(s)
    BY <2>1 DEF TypeOK, Elect, Disrupt
  <2>2. CASE LoseContact(s)
    BY <2>2 DEF TypeOK, LoseContact, Disrupt
  <2>3. CASE Learn(s)
    BY <2>3 DEF TypeOK, Learn
  <2>4. CASE ApplyAccount(s)
    BY <2>4 DEF TypeOK, ApplyAccount
  <2> QED BY <2>1, <2>2, <2>3, <2>4
<1>3. UNCHANGED <<client, current, requests, callback, decider, unheard, found, replies, missed, overlapped>>
  BY DEF Elect, LoseContact, Learn, ApplyAccount
<1>4. TypeOK'
  BY <1>1, <1>3 DEF TypeOK
<1>5. Numbered'
  BY <1>3 DEF Numbered
<1> QED BY <1>4, <1>5

LEMMA SetOutTypes ==
  ASSUME TypeInv, NEW c \in Client, SetOut(c)
  PROVE  overlapped' \subseteq SUBSET Client
<1>1. \A d \in OnTheWayIn : {c, d} \in SUBSET Client
  BY DEF OnTheWayIn
<1>2. {{c, d} : d \in OnTheWayIn} \subseteq SUBSET Client
  BY <1>1
<1> QED BY <1>2 DEF TypeInv, TypeOK, SetOut

LEMMA ClientTypes ==
  ASSUME TypeInv, NEW c \in Client,
         \/ CreateAccount(c) \/ AskLogin(c) \/ ReceiveReply(c)
         \/ TimeOut(c) \/ LoggedIn(c) \/ Leave(c)
  PROVE  TypeInv'
<1> USE LoginAssumption DEF TypeInv, Request, NoRequest
<1>1. CASE CreateAccount(c)
  <2> USE <1>1 DEF CreateAccount, checkVars
  <2>1. count' \in [Server -> {0, 1}] /\ client' \in [Client -> ClientState]
    BY DEF TypeOK, ClientState
  <2>2. current' \in [Client -> Request \cup {NoRequest}]
    BY DEF TypeOK
  <2>3. TypeOK'
    BY <2>1, <2>2, SetOutTypes DEF TypeOK, ClientState
  <2>4. Numbered'
    BY DEF Numbered, TypeOK
  <2> QED BY <2>3, <2>4
<1>2. CASE AskLogin(c)
  <2> USE <1>2 DEF AskLogin, raftVars
  <2>1. client' \in [Client -> ClientState] /\ requests' \in 0 .. MaxLogins
    BY DEF TypeOK, ClientState
  <2>2. requests + 1 \in Request /\ current' \in [Client -> Request \cup {NoRequest}]
    BY DEF TypeOK
  <2>3. callback' \in [Server -> [Request -> CallbackState]]
    BY DEF TypeOK, CallbackState
  <2>4. TypeOK'
    BY <2>1, <2>2, <2>3, SetOutTypes DEF TypeOK, ClientState, CallbackState
  <2>5. \A d \in Client : client'[d] = "asking" => current'[d] \in 1 .. requests'
    BY DEF TypeOK, Numbered
  <2>6. \A r \in Request : r > requests' =>
          replies'[r] = {} /\ \A s \in Server : callback'[s][r] = "none"
    BY DEF TypeOK, Numbered
  <2> QED BY <2>4, <2>5, <2>6 DEF Numbered
<1>3. CASE ReceiveReply(c)
  <2> USE <1>3 DEF ReceiveReply, raftVars
  <2>1. replies[current[c]] \subseteq Answer
    <3>1. current[c] \in Request
      BY DEF Numbered, TypeOK
    <3> QED BY <3>1 DEF TypeOK, Answer
  <2>2. PICK a \in Answer :
          client' = [client EXCEPT ![c] = CASE a = "free" -> "letIn"
                                            [] a \in {"logged", "err"} -> "out"
                                            [] a = "nil" -> "panicked"]
    BY <2>1
  <2>3. client' \in [Client -> ClientState] /\ client'[c] \in {"letIn", "out", "panicked"}
    BY <2>2 DEF TypeOK, ClientState, Answer
  <2>4. replies' \in [Request -> SUBSET Answer]
    BY DEF TypeOK, Answer
  <2>5. TypeOK'
    BY <2>3, <2>4 DEF TypeOK, ClientState, Answer
  <2>6. Numbered'
    BY <2>2, <2>3 DEF Numbered, TypeOK
  <2> QED BY <2>5, <2>6
<1>4. CASE TimeOut(c)
  <2> USE <1>4 DEF TimeOut, raftVars
  <2>1. client' \in [Client -> ClientState] /\ replies' \in [Request -> SUBSET Answer]
    BY DEF TypeOK, ClientState, Answer
  <2>2. TypeOK'
    BY <2>1 DEF TypeOK, ClientState, Answer
  <2>3. Numbered'
    BY DEF Numbered, TypeOK
  <2> QED BY <2>2, <2>3
<1>5. CASE LoggedIn(c) \/ Leave(c)
  <2> USE <1>5 DEF LoggedIn, Leave, raftVars, checkVars
  <2>1. TypeOK'
    BY DEF TypeOK
  <2>2. Numbered'
    BY DEF Numbered, TypeOK
  <2> QED BY <2>1, <2>2
<1> QED BY <1>1, <1>2, <1>3, <1>4, <1>5

LEMMA ServerTypes ==
  ASSUME TypeInv, NEW s \in Server, NEW r \in Request,
         \/ Refuse(s, r) \/ Check(s, r) \/ Conclude(s, r) \/ ForwardFailed(s, r)
         \/ \E m \in Server : Hear(s, r, m)
  PROVE  TypeInv'
<1> USE LoginAssumption DEF TypeInv, raftVars, clientVars
<1>1. ASSUME NEW a \in Answer, Reply(s, r, a), callback[s][r] # "none",
             UNCHANGED <<raftVars, clientVars, missed, overlapped>>
      PROVE  TypeInv'
  <2>1. TypeOK'
    BY <1>1, ReplyTypes DEF TypeOK, CallbackState, Answer
  <2>2. Numbered'
    BY <1>1, ReplyTypes DEF Numbered
  <2> QED BY <2>1, <2>2
<1>2. CASE Refuse(s, r)
  BY <1>1, <1>2 DEF Refuse, Turn, Answer
<1>3. CASE Conclude(s, r)
  BY <1>1, <1>3 DEF Conclude, Answer
<1>4. CASE ForwardFailed(s, r)
  BY <1>1, <1>4 DEF ForwardFailed, Answer
<1>5. CASE Check(s, r)
  <2> USE <1>5 DEF Check, Turn
  <2>1. callback' \in [Server -> [Request -> CallbackState]]
    BY DEF TypeOK, CallbackState
  <2>2. decider' \in [Server -> [Request -> Server \cup {NoServer}]]
    BY DEF TypeOK
  <2>3. unheard' \in [Server -> [Request -> SUBSET Server]]
    BY DEF TypeOK
  <2>4. TypeOK'
    BY <2>1, <2>2, <2>3 DEF TypeOK, CallbackState
  <2>5. Numbered'
    BY DEF TypeOK, Numbered
  <2> QED BY <2>4, <2>5
<1>6. ASSUME NEW m \in Server, Hear(s, r, m) PROVE TypeInv'
  <2> USE <1>6 DEF Hear
  <2>1. unheard' \in [Server -> [Request -> SUBSET Server]]
    BY DEF TypeOK
  <2>2. found' \in [Server -> [Request -> BOOLEAN]]
    <3> DEFINE heard == found[s][r] \/ Online
    <3>1. heard \in BOOLEAN
      BY Zenon
    <3>2. UNCHANGED found \/ found' = [found EXCEPT ![s][r] = heard]
      BY <1>6
    <3>3. \A b \in BOOLEAN : [found EXCEPT ![s][r] = b] \in [Server -> [Request -> BOOLEAN]]
      BY DEF TypeOK
    <3> HIDE <1>6 DEF heard, Hear
    <3>4. found \in [Server -> [Request -> BOOLEAN]]
      BY DEF TypeOK
    <3> QED BY <3>1, <3>2, <3>3, <3>4, Zenon
  <2>3. missed' \subseteq Request
    BY DEF TypeOK
  <2>4. TypeOK'
    BY <2>1, <2>2, <2>3 DEF TypeOK
  <2>5. Numbered'
    BY DEF Numbered
  <2> QED BY <2>4, <2>5
<1> QED BY <1>2, <1>3, <1>4, <1>5, <1>6

LEMMA TypeStep == TypeInv /\ [Next]_vars => TypeInv'
<1> SUFFICES ASSUME TypeInv, [Next]_vars PROVE TypeInv'
  OBVIOUS
<1>1. CASE UNCHANGED vars
  BY <1>1 DEF TypeInv, TypeOK, Numbered, vars, raftVars, clientVars, checkVars
<1>2. CASE Next
  BY <1>2, RaftTypes, ClientTypes, ServerTypes DEF Next
<1> QED BY <1>1, <1>2

\* Every reachable state of the clients and the callbacks is well typed.
THEOREM TypeCorrect == Spec => []TypeOK
<1>1. TypeInv => TypeOK
  BY DEF TypeInv
<1> QED
  BY <1>1, TypeInit, TypeStep, PTL DEF Spec

-----------------------------------------------------------------------------
(* Logins that overlap.                                                     *)

LEMMA LoginInit == Init => LoginInv
<1> SUFFICES ASSUME Init PROVE LoginInv
  OBVIOUS
<1>1. \A c \in Client : client[c] = "out"
  BY DEF Init
<1>2. AccountFirst
  BY <1>1 DEF Init, AccountFirst
<1>3. Overlapping /\ Refused /\ LetInExcused
  BY <1>1 DEF Overlapping, OnTheWayIn, Refused, LetInExcused
<1> QED BY <1>2, <1>3, TypeInit DEF LoginInv

\* Raft and the counters do not touch the clients, and a counter never returns
\* to zero.
LEMMA RaftKeeps ==
  ASSUME LoginInv, NEW s \in Server,
         Elect(s) \/ LoseContact(s) \/ Learn(s) \/ ApplyAccount(s)
  PROVE  AccountFirst' /\ Overlapping' /\ Refused' /\ LetInExcused'
<1> USE DEF LoginInv
<1>1. UNCHANGED <<client, current, callback, unheard, found, replies, missed, overlapped>>
  BY DEF Elect, LoseContact, Learn, ApplyAccount, clientVars, checkVars
<1>2. (\A t \in Server : count'[t] = 0) => \A t \in Server : count[t] = 0
  <2>1. CASE UNCHANGED count
    BY <2>1
  <2>2. CASE ApplyAccount(s)
    BY <2>2 DEF ApplyAccount, TypeInv, TypeOK
  <2> QED BY <2>1, <2>2 DEF Elect, LoseContact, Learn
<1>3. AccountFirst'
  BY <1>1, <1>2 DEF AccountFirst
<1>4. Overlapping' /\ LetInExcused'
  BY <1>1 DEF Overlapping, OnTheWayIn, LetInExcused, Excused
<1>5. Refused'
  BY <1>1 DEF Refused, NotFree
<1> QED BY <1>3, <1>4, <1>5

\* A client that sets out overlaps with all who are on their way, and the pairs
\* of others are kept.
LEMMA SetOutKeeps ==
  ASSUME NEW c \in Client, SetOut(c)
  PROVE  /\ \A d \in OnTheWayIn : {c, d} \in overlapped' /\ {d, c} \in overlapped'
         /\ \A a, b \in Client :
              a # c /\ b # c /\ {a, b} \in overlapped => {a, b} \in overlapped'
<1>1. \A d \in OnTheWayIn : {d, c} = {c, d}
  OBVIOUS
<1> QED BY <1>1 DEF SetOut

LEMMA SetOutOverlapping ==
  ASSUME LoginInv, NEW c \in Client, SetOut(c), client[c] = "out",
         \A d \in Client \ {c} : client'[d] = client[d]
  PROVE  Overlapping'
<1> SUFFICES ASSUME NEW a \in Client, NEW b \in Client, a # b,
                    client'[a] \in {"asking", "letIn"}, client'[b] \in {"asking", "letIn"}
             PROVE  {a, b} \in overlapped'
  BY DEF Overlapping, OnTheWayIn
<1>1. CASE a = c
  BY <1>1, SetOutKeeps DEF OnTheWayIn
<1>2. CASE b = c
  BY <1>2, SetOutKeeps DEF OnTheWayIn
<1>3. CASE a # c /\ b # c
  BY <1>3, SetOutKeeps DEF OnTheWayIn, LoginInv, Overlapping
<1> QED BY <1>1, <1>2, <1>3

LEMMA CreateAccountKeeps ==
  ASSUME LoginInv, NEW c \in Client, CreateAccount(c)
  PROVE  AccountFirst' /\ Overlapping' /\ Refused' /\ LetInExcused'
<1> USE DEF LoginInv
<1>1. /\ client'[c] = "letIn"
      /\ \A d \in Client \ {c} : client'[d] = client[d] /\ current'[d] = current[d]
  BY DEF CreateAccount, TypeInv, TypeOK
<1>2. \A d \in Client : client[d] \notin {"letIn", "in"}
  BY DEF CreateAccount, AccountFirst
<1>3. AccountFirst'
  <2>1. leader \in Server /\ count'[leader] = 1
    BY DEF CreateAccount, TypeInv, TypeOK
  <2> QED BY <2>1 DEF AccountFirst
<1>4. Overlapping'
  BY <1>1, SetOutOverlapping DEF CreateAccount
<1>5. Refused' /\ LetInExcused'
  BY <1>1, <1>2 DEF Refused, LetInExcused
<1> QED BY <1>3, <1>4, <1>5

LEMMA AskLoginKeeps ==
  ASSUME LoginInv, NEW c \in Client, AskLogin(c)
  PROVE  AccountFirst' /\ Overlapping' /\ Refused' /\ LetInExcused'
<1> USE DEF LoginInv
<1> DEFINE new == requests + 1
<1>1. /\ client[c] = "out" /\ client'[c] = "asking" /\ current'[c] = new
      /\ \A d \in Client \ {c} : client'[d] = client[d] /\ current'[d] = current[d]
      /\ SetOut(c)
      /\ UNCHANGED <<count, unheard, found, replies, missed>>
  BY DEF AskLogin, TypeInv, TypeOK, raftVars
<1>2. /\ new \in Request /\ new > requests
      /\ \A d \in Client : client[d] = "asking" => current[d] # new
  BY LoginAssumption DEF AskLogin, TypeInv, TypeOK, Numbered, Request
<1>3. \A s \in Server :
        /\ callback'[s][new] = "pending"
        /\ \A r \in Request \ {new} : callback'[s][r] = callback[s][r]
  BY <1>2 DEF AskLogin, TypeInv, TypeOK
<1>4. AccountFirst'
  <2>1. \A s \in Server, r \in Request :
          callback'[s][r] = "checking" => callback[s][r] = "checking"
    BY <1>3
  <2> QED BY <1>1, <2>1 DEF AccountFirst
<1>5. Overlapping'
  BY <1>1, SetOutOverlapping
<1>6. Refused'
  <2> SUFFICES ASSUME NEW a \in Client, NEW b \in Client, a # b,
                      client'[a] = "in", client'[b] = "asking",
                      {a, b} \notin overlapped', current'[b] \notin missed'
               PROVE  NotFree(current[b])'
    BY DEF Refused
  <2>1. a # c /\ client[a] = "in"
    BY <1>1
  <2>2. CASE b = c
    <3>1. replies[new] = {}
      BY <1>2 DEF TypeInv, Numbered
    <3> QED BY <1>1, <1>3, <2>2, <3>1 DEF NotFree
  <2>3. CASE b # c
    <3>1. client[b] = "asking" /\ current'[b] = current[b] /\ NotFree(current[b])
      <4>1. client[b] = "asking" /\ current'[b] = current[b]
        BY <1>1, <2>3
      <4>2. {a, b} \notin overlapped
        BY <1>1, <2>1, <2>3, SetOutKeeps
      <4>3. current[b] \notin missed
        BY <1>1, <4>1
      <4> QED BY <2>1, <4>1, <4>2, <4>3 DEF Refused
    <3>2. current[b] \in Request \ {new}
      BY <1>2, <3>1, AskingRequest
    <3> QED BY <1>1, <1>3, <3>1, <3>2 DEF NotFree
  <2> QED BY <2>2, <2>3
<1>7. LetInExcused'
  <2> SUFFICES ASSUME NEW a \in Client, NEW b \in Client, a # b,
                      client'[a] = "in", client'[b] \in {"letIn", "in"}
               PROVE  Excused(a, b)'
    BY DEF LetInExcused
  <2>1. a # c /\ b # c /\ Excused(a, b)
    BY <1>1 DEF LetInExcused
  <2> QED BY <1>1, <2>1, SetOutKeeps DEF Excused
<1> QED BY <1>4, <1>5, <1>6, <1>7

\* ReceiveReply and TimeOut: c stops asking, and its inbox goes.
LEMMA InboxKeeps ==
  ASSUME LoginInv, NEW c \in Client, ReceiveReply(c) \/ TimeOut(c)
  PROVE  AccountFirst' /\ Overlapping' /\ Refused' /\ LetInExcused'
<1> USE DEF LoginInv
<1>1. client[c] = "asking" /\ current[c] \in Request
  BY AskingRequest DEF ReceiveReply, TimeOut
<1>2. /\ \A d \in Client \ {c} : client'[d] = client[d]
      /\ \A r \in Request : replies'[r] \subseteq replies[r]
      /\ UNCHANGED <<count, current, callback, unheard, found, missed, overlapped>>
  BY <1>1 DEF ReceiveReply, TimeOut, TypeInv, TypeOK, raftVars
<1>3. /\ client'[c] \in {"out", "letIn", "panicked"}
      /\ client'[c] = "letIn" => "free" \in replies[current[c]]
  <2>1. CASE TimeOut(c)
    BY <2>1 DEF TimeOut, TypeInv, TypeOK
  <2>2. CASE ReceiveReply(c)
    <3>1. PICK a \in replies[current[c]] :
            client' = [client EXCEPT ![c] = CASE a = "free" -> "letIn"
                                              [] a \in {"logged", "err"} -> "out"
                                              [] a = "nil" -> "panicked"]
      BY <2>2 DEF ReceiveReply
    <3>2. a \in {"err", "free", "logged", "nil"}
      BY <1>1 DEF TypeInv, TypeOK
    <3> QED BY <3>1, <3>2 DEF TypeInv, TypeOK
  <2> QED BY <2>1, <2>2
<1>4. AccountFirst'
  BY <1>1, <1>2, <1>3 DEF AccountFirst
<1>5. Overlapping'
  BY <1>1, <1>2, <1>3 DEF Overlapping, OnTheWayIn
<1>6. Refused'
  <2> SUFFICES ASSUME NEW a \in Client, NEW b \in Client, a # b,
                      client'[a] = "in", client'[b] = "asking",
                      {a, b} \notin overlapped', current'[b] \notin missed'
               PROVE  NotFree(current[b])'
    BY DEF Refused
  <2>1. client[a] = "in" /\ client[b] = "asking"
    BY <1>2, <1>3
  <2>2. {a, b} \notin overlapped /\ current[b] \notin missed
    BY <1>2
  <2>3. NotFree(current[b]) /\ current[b] \in Request
    BY <2>1, <2>2, AskingRequest DEF Refused
  <2> QED BY <1>2, <2>3 DEF NotFree
<1>7. LetInExcused'
  <2> SUFFICES ASSUME NEW a \in Client, NEW b \in Client, a # b,
                      client'[a] = "in", client'[b] \in {"letIn", "in"}
               PROVE  Excused(a, b)
    BY <1>2 DEF LetInExcused, Excused
  <2>1. a # c /\ client[a] = "in"
    BY <1>2, <1>3
  <2>2. CASE b = c
    BY <1>1, <1>3, <2>1, <2>2 DEF Refused, NotFree, Excused
  <2>3. CASE b # c
    BY <1>2, <2>1, <2>3 DEF LetInExcused
  <2> QED BY <2>2, <2>3
<1> QED BY <1>4, <1>5, <1>6, <1>7

LEMMA LoggedInKeeps ==
  ASSUME LoginInv, NEW c \in Client, LoggedIn(c)
  PROVE  AccountFirst' /\ Overlapping' /\ Refused' /\ LetInExcused'
<1> USE DEF LoginInv
<1>1. /\ client[c] = "letIn" /\ client'[c] = "in"
      /\ \A d \in Client \ {c} : client'[d] = client[d]
      /\ UNCHANGED <<count, current, callback, unheard, found, replies, missed, overlapped>>
  BY DEF LoggedIn, TypeInv, TypeOK, raftVars, checkVars
<1>2. AccountFirst' /\ Overlapping'
  BY <1>1 DEF AccountFirst, Overlapping, OnTheWayIn
<1>3. Refused'
  <2> SUFFICES ASSUME NEW a \in Client, NEW b \in Client, a # b,
                      client'[a] = "in", client'[b] = "asking"
               PROVE  {a, b} \in overlapped \/ current[b] \in missed \/ NotFree(current[b])
    BY <1>1 DEF Refused, NotFree
  <2>1. client[b] = "asking"
    BY <1>1
  <2>2. CASE a = c
    BY <1>1, <2>1, <2>2 DEF Overlapping, OnTheWayIn
  <2>3. CASE a # c
    BY <1>1, <2>1, <2>3 DEF Refused
  <2> QED BY <2>2, <2>3
<1>4. LetInExcused'
  <2> SUFFICES ASSUME NEW a \in Client, NEW b \in Client, a # b,
                      client'[a] = "in", client'[b] \in {"letIn", "in"}
               PROVE  Excused(a, b)
    BY <1>1 DEF LetInExcused, Excused
  <2>1. CASE a = c
    <3>1. CASE client[b] = "letIn"
      BY <1>1, <2>1, <3>1 DEF Overlapping, OnTheWayIn, Excused
    <3>2. CASE client[b] = "in"
      <4>1. Excused(b, a)
        BY <1>1, <2>1, <3>2 DEF LetInExcused
      <4>2. {a, b} = {b, a}
        OBVIOUS
      <4> QED BY <4>1, <4>2 DEF Excused
    <3> QED BY <1>1, <2>1, <3>1, <3>2
  <2>2. CASE a # c
    BY <1>1, <2>2 DEF LetInExcused
  <2> QED BY <2>1, <2>2
<1> QED BY <1>2, <1>3, <1>4

LEMMA LeaveKeeps ==
  ASSUME LoginInv, NEW c \in Client, Leave(c)
  PROVE  AccountFirst' /\ Overlapping' /\ Refused' /\ LetInExcused'
<1> USE DEF LoginInv
<1>1. /\ client'[c] = "out"
      /\ \A d \in Client \ {c} : client'[d] = client[d]
      /\ UNCHANGED <<count, current, callback, unheard, found, replies, missed, overlapped>>
  BY DEF Leave, TypeInv, TypeOK, raftVars, checkVars
<1>2. AccountFirst' /\ Overlapping'
  BY <1>1 DEF AccountFirst, Overlapping, OnTheWayIn
<1>3. Refused'
  BY <1>1 DEF Refused, NotFree
<1>4. LetInExcused'
  BY <1>1 DEF LetInExcused, Excused
<1> QED BY <1>2, <1>3, <1>4

\* The servers leave the clients where they are, so what matters is which
\* replies they publish and what the checks have found.
LEMMA ServerKeeps ==
  ASSUME LoginInv, missed \subseteq missed',
         UNCHANGED <<count, client, current, overlapped>>,
         (\A s \in Server : count[s] = 0) =>
           /\ \A s \in Server, r \in Request : callback'[s][r] # "checking"
           /\ \A r \in Request : "free" \notin replies'[r],
         \A d \in Client : client[d] = "asking" /\ current[d] \notin missed'
           /\ (\E c \in Client : client[c] = "in")
           /\ NotFree(current[d]) => NotFree(current[d])'
  PROVE  AccountFirst' /\ Overlapping' /\ Refused' /\ LetInExcused'
<1> USE DEF LoginInv
<1>1. AccountFirst' /\ Overlapping'
  BY DEF AccountFirst, Overlapping, OnTheWayIn
<1>2. Refused'
  BY DEF Refused
<1>3. LetInExcused'
  BY DEF LetInExcused, Excused
<1> QED BY <1>1, <1>2, <1>3

LEMMA ReplyKeeps ==
  ASSUME LoginInv, NEW s \in Server, NEW r \in Request,
         NEW a \in {"err", "free", "logged", "nil"},
         Reply(s, r, a), UNCHANGED <<raftVars, clientVars, missed, overlapped>>,
         a = "free" => ~found[s][r] /\ callback[s][r] = "checking" /\ unheard[s][r] = {}
  PROVE  AccountFirst' /\ Overlapping' /\ Refused' /\ LetInExcused'
<1> USE DEF LoginInv
<1>1. /\ callback' = [callback EXCEPT ![s][r] = "over"]
      /\ \A q \in Request : replies'[q] \subseteq replies[q] \cup {a}
      /\ \A q \in Request \ {r} : replies'[q] = replies[q]
  BY DEF Reply, TypeInv, TypeOK
<1>2. /\ callback'[s][r] = "over"
      /\ \A t \in Server, q \in Request : t # s \/ q # r =>
           /\ callback'[t][q] = callback[t][q]
           /\ unheard'[t][q] = unheard[t][q]
           /\ found'[t][q] = found[t][q]
  BY DEF Reply, TypeInv, TypeOK
<1>3. ASSUME \A t \in Server : count[t] = 0
      PROVE  /\ \A t \in Server, q \in Request : callback'[t][q] # "checking"
             /\ \A q \in Request : "free" \notin replies'[q]
  BY <1>1, <1>2, <1>3 DEF AccountFirst
<1>4. ASSUME NEW q \in Request, NotFree(q) PROVE NotFree(q)'
  <2>1. q = r => a # "free"
    BY <1>4 DEF NotFree
  <2>2. "free" \notin replies'[q]
    BY <1>1, <1>4, <2>1 DEF NotFree
  <2>3. \A t \in Server :
          callback'[t][q] = "checking" => found'[t][q] \/ unheard'[t][q] # {}
    BY <1>2, <1>4 DEF NotFree
  <2> QED BY <2>2, <2>3 DEF NotFree
<1>5. \A d \in Client : client[d] = "asking" /\ NotFree(current[d]) => NotFree(current[d])'
  <2> SUFFICES ASSUME NEW d \in Client, client[d] = "asking", NotFree(current[d])
               PROVE  NotFree(current[d])'
    OBVIOUS
  <2>1. PICK q \in Request : q = current[d]
    BY AskingRequest
  <2>2. NotFree(q)'
    BY <1>4, <2>1
  <2> QED BY <2>1, <2>2 DEF clientVars, NotFree
<1> QED BY <1>3, <1>5, ServerKeeps DEF raftVars, clientVars

LEMMA CheckKeeps ==
  ASSUME LoginInv, NEW s \in Server, NEW r \in Request, Check(s, r)
  PROVE  AccountFirst' /\ Overlapping' /\ Refused' /\ LetInExcused'
<1> USE DEF LoginInv
<1>1. count[s] # 0
  BY DEF Check, TypeInv, TypeOK
<1>2. ASSUME NEW q \in Request, NotFree(q), q \notin missed', Online PROVE NotFree(q)'
  <2>1. unheard'[s][r] # {} \/ r \in missed'
    <3>1. PICK members \in SUBSET Server :
            /\ unheard' = [unheard EXCEPT ![s][r] = members]
            /\ missed' = IF members = {} /\ Online THEN missed \cup {r} ELSE missed
      BY DEF Check
    <3> QED BY <1>2, <3>1 DEF TypeInv, TypeOK
  <2>2. \A t \in Server : t # s \/ q # r =>
          callback'[t][q] = callback[t][q] /\ unheard'[t][q] = unheard[t][q]
    BY DEF Check, TypeInv, TypeOK
  <2> QED BY <1>2, <2>1, <2>2 DEF Check, NotFree
<1>3. ASSUME NEW d \in Client, client[d] = "asking", current[d] \notin missed',
             \E c \in Client : client[c] = "in", NotFree(current[d])
      PROVE  NotFree(current[d])'
  <2>1. PICK q \in Request : q = current[d]
    BY <1>3, AskingRequest
  <2>2. NotFree(q)'
    BY <1>2, <1>3, <2>1 DEF Online
  <2> QED BY <2>1, <2>2 DEF Check, clientVars, NotFree
<1>4. missed \subseteq missed'
  BY DEF Check
<1>5. (\A t \in Server : count[t] = 0) =>
        /\ \A t \in Server, q \in Request : callback'[t][q] # "checking"
        /\ \A q \in Request : "free" \notin replies'[q]
  BY <1>1
<1> QED BY <1>3, <1>4, <1>5, ServerKeeps DEF Check, raftVars, clientVars

LEMMA HearKeeps ==
  ASSUME LoginInv, NEW s \in Server, NEW r \in Request, NEW m \in Server, Hear(s, r, m)
  PROVE  AccountFirst' /\ Overlapping' /\ Refused' /\ LetInExcused'
<1> USE DEF LoginInv
<1>1. UNCHANGED <<callback, replies, client, current, count, overlapped>> /\ missed \subseteq missed'
  BY DEF Hear, raftVars, clientVars
<1>2. \A t \in Server, q \in Request : t # s \/ q # r =>
        unheard'[t][q] = unheard[t][q] /\ found'[t][q] = found[t][q]
  BY DEF Hear, TypeInv, TypeOK
<1>3. ASSUME \E c \in Client : client[c] = "in" PROVE r \in missed' \/ found'[s][r]
  <2>1. found' = [found EXCEPT ![s][r] = found[s][r] \/ Online] \/ r \in missed'
    BY DEF Hear
  <2>2. (found[s][r] \/ Online) = TRUE
    BY <1>3, Zenon DEF Online
  <2>3. found' = [found EXCEPT ![s][r] = TRUE] \/ r \in missed'
    BY <2>1, <2>2, Zenon
  <2> QED BY <2>3 DEF TypeInv, TypeOK
<1>4. ASSUME NEW q \in Request, NotFree(q), q \notin missed', \E c \in Client : client[c] = "in"
      PROVE  NotFree(q)'
  BY <1>1, <1>2, <1>3, <1>4 DEF NotFree
<1>5. ASSUME NEW d \in Client, client[d] = "asking", current[d] \notin missed',
             \E c \in Client : client[c] = "in", NotFree(current[d])
      PROVE  NotFree(current[d])'
  <2>1. PICK q \in Request : q = current[d]
    BY <1>5, AskingRequest
  <2>2. NotFree(q)'
    BY <1>4, <1>5, <2>1
  <2> QED BY <1>1, <2>1, <2>2 DEF NotFree
<1>6. (\A t \in Server : count[t] = 0) =>
        /\ \A t \in Server, q \in Request : callback'[t][q] # "checking"
        /\ \A q \in Request : "free" \notin replies'[q]
  BY <1>1 DEF AccountFirst
<1> QED BY <1>1, <1>5, <1>6, ServerKeeps

LEMMA LoginStep == LoginInv /\ [Next]_vars => LoginInv'
<1> SUFFICES ASSUME LoginInv, [Next]_vars
             PROVE  AccountFirst' /\ Overlapping' /\ Refused' /\ LetInExcused'
  BY TypeStep DEF LoginInv
<1>1. CASE UNCHANGED vars
  BY <1>1 DEF LoginInv, vars, raftVars, clientVars, checkVars, AccountFirst, Overlapping,
    OnTheWayIn, Refused, NotFree, LetInExcused, Excused
<1>2. ASSUME NEW s \in Server, Elect(s) \/ LoseContact(s) \/ Learn(s) \/ ApplyAccount(s)
      PROVE  AccountFirst' /\ Overlapping' /\ Refused' /\ LetInExcused'
  BY <1>2, RaftKeeps
<1>3. ASSUME NEW c \in Client,
             \/ CreateAccount(c) \/ AskLogin(c) \/ ReceiveReply(c)
             \/ TimeOut(c) \/ LoggedIn(c) \/ Leave(c)
      PROVE  AccountFirst' /\ Overlapping' /\ Refused' /\ LetInExcused'
  BY <1>3, CreateAccountKeeps, AskLoginKeeps, InboxKeeps, LoggedInKeeps, LeaveKeeps
<1>4. ASSUME NEW s \in Server, NEW r \in Request,
             Refuse(s, r) \/ Conclude(s, r) \/ ForwardFailed(s, r)
      PROVE  AccountFirst' /\ Overlapping' /\ Refused' /\ LetInExcused'
  <2>1. CASE Refuse(s, r)
    BY <2>1, ReplyKeeps DEF Refuse
  <2>2. CASE ForwardFailed(s, r)
    BY <2>2, ReplyKeeps DEF ForwardFailed
  <2>3. CASE Conclude(s, r) /\ found[s][r]
    BY <2>3, ReplyKeeps DEF Conclude
  <2>4. CASE Conclude(s, r) /\ ~found[s][r]
    <3>1. Reply(s, r, "free") /\ unheard[s][r] = {}
      BY <2>4 DEF Conclude
    <3> QED BY <2>4, <3>1, ReplyKeeps DEF Conclude
  <2> QED BY <1>4, <2>1, <2>2, <2>3, <2>4
<1>5. ASSUME NEW s \in Server, NEW r \in Request,
             Check(s, r) \/ \E m \in Server : Hear(s, r, m)
      PROVE  AccountFirst' /\ Overlapping' /\ Refused' /\ LetInExcused'
  BY <1>5, CheckKeeps, HearKeeps
<1> QED BY <1>1, <1>2, <1>3, <1>4, <1>5 DEF Next

\* Two clients are in with one id only if they were on their way in at once, or a
\* check had nobody to ask or took a client's late answer for none, for any number
\* of clients, servers, members and requests: no change of leader, lagging list,
\* timed-out request or client that leaves and comes back adds another way.
THEOREM DoubleLoginExplainedCorrect == Spec => []DoubleLoginExplained
<1>1. LoginInv => DoubleLoginExplained
  BY DEF LoginInv, LetInExcused, Excused, DoubleLoginExplained
<1> QED
  BY <1>1, LoginInit, LoginStep, PTL DEF Spec
=============================================================================
