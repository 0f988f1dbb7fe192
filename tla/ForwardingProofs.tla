-------------------------- MODULE ForwardingProofs ---------------------------
(***************************************************************************)
(* What becomes of a request, for any number of servers, attempts, calls   *)
(* and disruptions, whatever the deployment: types, the bounds on what is  *)
(* executed, and what an accepted request means.                           *)
(***************************************************************************)
EXTENDS Forwarding, FiniteSetTheorems, TLAPS

PC == {"unused", "received", "executing", "appended", "rejected",
       "forwarding", "awaiting", "answered"}

\* Where a task is tells how far its loop is, and the calls are numbered in the
\* order of the POSTs.
Progress ==
  \A t \in Task :
    /\ pc[t] = "unused" <=> t \in Call /\ t > calls
    /\ pc[t] # "unused" => at[t] \in Server
    /\ pc[t] \in {"unused", "received", "executing", "appended", "rejected"} => attempt[t] = 0
    /\ pc[t] = "forwarding" => attempt[t] >= 1
    /\ pc[t] = "awaiting" => attempt[t] \in 1 .. Attempts /\ callee[t] \in 1 .. calls

TypeInv == TypeOK /\ Progress

\* A call has one caller.
OneCaller ==
  /\ \A t \in Task : callee[t] <= calls
  /\ \A t, u \in Task : callee[t] = callee[u] /\ callee[t] # NoCall => t = u

\* The tasks whose operation was executed, and those that count for a call: the
\* call they wait for, or the loop they went through.
Executed ==
  {t \in Task : attempt[t] = 0 /\ pc[t] \in {"appended", "rejected", "answered"}}

Delegated ==
  {t \in Task : attempt[t] # 0 /\ pc[t] \in {"awaiting", "answered"}}

\* Calls whose answer became that of their caller.
Taken == {callee[t] : t \in {u \in Task : pc[u] = "answered"}}

\* Tasks that stand for an execution or for a failed attempt of their own.
Accounted ==
  {t \in Task : \/ pc[t] = "answered" /\ t \notin Taken
                \/ pc[t] \in {"appended", "rejected"}
                \/ pc[t] \in {"forwarding", "awaiting"} /\ attempt[t] >= 2}

Counted ==
  /\ proposed = Cardinality(Executed)
  /\ calls <= failures + Cardinality(Delegated)
  /\ Cardinality(Accounted) <= proposed + failures

RetriesInv == TypeInv /\ OneCaller /\ Counted

\* An answer or a reply "ok" goes back to a command that was committed.
OkCommitted ==
  /\ \A t \in Task : answer[t] = "ok" => committed > 0
  /\ "ok" \in replies => committed > 0
  /\ AcceptedExecuted

AcceptedInv == TypeInv /\ OkCommitted

-----------------------------------------------------------------------------
(* Type correctness.                                                        *)

LEMMA Names ==
  /\ Server \cap Call = {} /\ NoCall \notin Task
  /\ Call \subseteq Nat /\ \A c \in Call : c >= 1 /\ c <= MaxCalls
BY ForwardingAssumption DEF Task, Call, NoCall

LEMMA TypeInit == Init => TypeInv
<1> SUFFICES ASSUME Init PROVE TypeInv
  OBVIOUS
<1> USE ForwardingAssumption DEF Init
<1>1. TypeOK
  <2>1. at \in [Task -> Server \cup {NoServer}]
    OBVIOUS
  <2>2. pc \in [Task -> PC]
    BY DEF PC
  <2>3. attempt \in [Task -> 0 .. Attempts + 1] /\ callee \in [Task -> Call \cup {NoCall}]
    OBVIOUS
  <2> QED BY <2>1, <2>2, <2>3 DEF TypeOK, PC
<1>2. Progress
  <2> SUFFICES ASSUME NEW t \in Task
               PROVE  /\ pc[t] = "unused" <=> t \in Call /\ t > calls
                      /\ pc[t] # "unused" => at[t] \in Server
                      /\ pc[t] \in {"unused", "received"} /\ attempt[t] = 0
    BY DEF Progress
  <2>1. CASE t \in Server
    BY <2>1, Names
  <2>2. CASE t \in Call
    BY <2>2, Names
  <2> QED BY <2>1, <2>2 DEF Task
<1> QED BY <1>1, <1>2 DEF TypeInv

\* Raft and the client leave the tasks alone.
LEMMA OthersTypes ==
  ASSUME TypeInv,
         \/ \E s \in Server : Elect(s) \/ Learn(s) \/ LoseContact(s)
         \/ Client
  PROVE  TypeInv'
<1> USE ForwardingAssumption DEF TypeInv
<1>1. CASE \E s \in Server : Elect(s) \/ Learn(s) \/ LoseContact(s)
  <2> PICK s \in Server : Elect(s) \/ Learn(s) \/ LoseContact(s)
    BY <1>1
  <2>1. UNCHANGED <<httpOf, taskVars, countVars, clientVars>>
    BY DEF Elect, Learn, LoseContact
  <2>2. /\ leader' \in Server
        /\ knows' \in [Server -> Server \cup {NoServer}]
        /\ disruptions' \in 0 .. MaxDisruptions
    <3>1. CASE Elect(s)
      BY <3>1 DEF Elect, TypeOK
    <3>2. CASE Learn(s)
      BY <3>2 DEF Learn, TypeOK
    <3>3. CASE LoseContact(s)
      BY <3>3 DEF LoseContact, TypeOK
    <3> QED BY <3>1, <3>2, <3>3
  <2> QED BY <2>1, <2>2 DEF TypeOK, Progress, taskVars, countVars, clientVars
<1>2. CASE Client
  <2>1. UNCHANGED <<raftVars, taskVars, countVars, replies>>
    BY <1>2 DEF Client, ClientTimeOut, ClientReceive
  <2>2. outcome' \in {"waiting", "accepted", "refused", "panicked"}
    <3>1. CASE ClientTimeOut
      BY <3>1 DEF ClientTimeOut
    <3>2. ASSUME NEW reply \in replies, ClientReceive(reply) PROVE outcome' \in {"accepted", "refused", "panicked"}
      <4>1. reply \in {"ok", "err", "null"}
        BY DEF TypeOK
      <4> QED BY <3>2, <4>1 DEF ClientReceive, Understood
    <3> QED BY <1>2, <3>1, <3>2 DEF Client
  <2> QED BY <2>1, <2>2 DEF TypeOK, Progress, raftVars, taskVars, countVars
<1> QED BY <1>1, <1>2

LEMMA AnswerTypes ==
  ASSUME TypeInv, NEW t \in Task, NEW a \in {"none", "ok", "error"}, Answer(t, a)
  PROVE  /\ pc' \in [Task -> PC]
         /\ answer' \in [Task -> {"none", "ok", "error"}]
         /\ replies' \subseteq {"ok", "err", "null"}
<1>1. Published(t, a) \in {"ok", "err", "null"}
  BY DEF Published
<1> QED BY <1>1 DEF Answer, TypeInv, TypeOK, PC

\* A task that moves on without a call of its own.
LEMMA MoveProgress ==
  ASSUME TypeInv, NEW t \in Task, pc[t] # "unused",
         NEW p \in PC \ {"unused"}, NEW n \in 0 .. Attempts + 1,
         pc' = [pc EXCEPT ![t] = p], attempt' = [attempt EXCEPT ![t] = n],
         UNCHANGED <<at, callee, calls>>,
         p \in {"received", "executing", "appended", "rejected"} => n = 0,
         p = "forwarding" => n >= 1,
         p # "awaiting"
  PROVE  Progress'
<1> SUFFICES ASSUME NEW u \in Task
             PROVE  /\ pc'[u] = "unused" <=> u \in Call /\ u > calls
                    /\ pc'[u] # "unused" => at[u] \in Server
                    /\ pc'[u] \in {"unused", "received", "executing", "appended", "rejected"} =>
                           attempt'[u] = 0
                    /\ pc'[u] = "forwarding" => attempt'[u] >= 1
                    /\ pc'[u] = "awaiting" => attempt'[u] \in 1 .. Attempts /\ callee[u] \in 1 .. calls
  BY DEF Progress
<1>1. CASE u = t
  BY <1>1 DEF TypeInv, TypeOK, Progress
<1>2. CASE u # t
  BY <1>2 DEF TypeInv, TypeOK, Progress
<1> QED BY <1>1, <1>2

LEMMA AnsweredTypes ==
  ASSUME TypeInv, NEW t \in Task, pc[t] # "unused",
         \E a \in {"none", "ok", "error"} : Answer(t, a),
         committed' \in Nat, failures' \in Nat,
         UNCHANGED <<raftVars, at, attempt, callee, calls, proposed, outcome>>
  PROVE  TypeInv'
<1>0. TypeOK /\ Progress
  BY DEF TypeInv
<1>1. PICK a \in {"none", "ok", "error"} : Answer(t, a)
  OBVIOUS
<1>2. PICK n \in 0 .. Attempts + 1 : n = attempt[t]
  BY <1>0 DEF TypeOK
<1>3. pc' = [pc EXCEPT ![t] = "answered"] /\ attempt' = [attempt EXCEPT ![t] = n]
  BY <1>0, <1>1, <1>2 DEF Answer, TypeOK
<1>4. "answered" \in PC \ {"unused"}
  BY DEF PC
<1>5. Progress'
  BY <1>3, <1>4, MoveProgress
<1>6. TypeOK'
  BY <1>0, <1>1, AnswerTypes DEF TypeOK, raftVars, PC
<1> QED BY <1>5, <1>6 DEF TypeInv

LEMMA ExecutionTypes ==
  ASSUME TypeInv, NEW t \in Task,
         CheckLeader(t) \/ Propose(t) \/ Applied(t) \/ ApplyFailed(t)
  PROVE  TypeInv'
<1> USE ForwardingAssumption
<1>0. TypeOK /\ Progress
  BY DEF TypeInv
<1>1. CASE CheckLeader(t)
  <2>1. PICK p \in {"executing", "forwarding"}, n \in {0, 1} :
          /\ pc' = [pc EXCEPT ![t] = p] /\ attempt' = [attempt EXCEPT ![t] = n]
          /\ p = "executing" <=> n = 0
    <3>1. attempt = [attempt EXCEPT ![t] = 0]
      BY <1>0, <1>1 DEF CheckLeader, TypeOK, Progress
    <3> QED BY <1>1, <3>1 DEF CheckLeader
  <2>2. /\ pc[t] # "unused" /\ n \in 0 .. Attempts + 1 /\ p \in PC \ {"unused"}
        /\ UNCHANGED <<at, callee, calls>>
    BY <1>1 DEF CheckLeader, PC
  <2>3. /\ p \in {"received", "executing", "appended", "rejected"} => n = 0
        /\ p = "forwarding" => n >= 1
        /\ p # "awaiting"
    BY <2>1
  <2>4. Progress'
    BY <2>1, <2>2, <2>3, MoveProgress
  <2>5. TypeOK'
    BY <1>0, <1>1, <2>1 DEF CheckLeader, TypeOK, raftVars, countVars, clientVars
  <2> QED BY <2>4, <2>5 DEF TypeInv
<1>2. CASE Propose(t)
  <2>1. PICK p \in {"appended", "rejected"} : pc' = [pc EXCEPT ![t] = p]
    BY <1>2 DEF Propose
  <2>2. attempt' = [attempt EXCEPT ![t] = 0]
    BY <1>0, <1>2 DEF Propose, TypeOK, Progress
  <2>3. /\ pc[t] # "unused" /\ 0 \in 0 .. Attempts + 1 /\ p \in PC \ {"unused"}
        /\ UNCHANGED <<at, callee, calls>>
    BY <1>2 DEF Propose, PC
  <2>4. Progress'
    BY <2>1, <2>2, <2>3, MoveProgress
  <2>5. TypeOK'
    BY <1>0, <1>2, <2>1 DEF Propose, TypeOK, raftVars, clientVars
  <2> QED BY <2>4, <2>5 DEF TypeInv
<1>3. CASE Applied(t) \/ ApplyFailed(t)
  <2>1. /\ \E a \in {"ok", "error"} : Answer(t, a)
        /\ committed' \in Nat
        /\ UNCHANGED <<raftVars, at, attempt, callee, calls, proposed, failures, outcome>>
        /\ pc[t] # "unused"
    BY <1>0, <1>3 DEF Applied, ApplyFailed, TypeOK
  <2>2. failures' \in Nat
    BY <1>0, <2>1 DEF TypeOK
  <2> QED BY <2>1, <2>2, AnsweredTypes
<1> QED BY <1>1, <1>2, <1>3

LEMMA AttemptTypes ==
  ASSUME TypeInv, NEW t \in Task, NoLeader(t) \/ Unreachable(t) \/ TimeOut(t)
  PROVE  TypeInv'
<1> USE ForwardingAssumption
<1>0. TypeOK /\ Progress
  BY DEF TypeInv
<1>1. /\ NextAttempt(t)
      /\ pc[t] # "unused"
      /\ attempt[t] + 1 \in 1 .. Attempts + 1
      /\ UNCHANGED <<raftVars, at, callee, answer, calls, proposed, committed, clientVars>>
  BY <1>0 DEF NoLeader, Unreachable, TimeOut, TypeOK, Progress
<1>2. /\ pc' = [pc EXCEPT ![t] = "forwarding"]
      /\ attempt' = [attempt EXCEPT ![t] = attempt[t] + 1]
      /\ failures' = failures + 1
  BY <1>1 DEF NextAttempt
<1>3. PICK n \in 0 .. Attempts + 1 : n = attempt[t] + 1 /\ n >= 1
  BY <1>1
<1>4. "forwarding" \in PC \ {"unused"}
  BY DEF PC
<1>5. Progress'
  BY <1>1, <1>2, <1>3, <1>4, MoveProgress
<1>6. TypeOK'
  BY <1>0, <1>1, <1>2 DEF TypeOK, raftVars, clientVars
<1> QED BY <1>5, <1>6 DEF TypeInv

LEMMA ReturnTypes ==
  ASSUME TypeInv, NEW t \in Task, Receive(t) \/ ReadError(t) \/ GiveUp(t)
  PROVE  TypeInv'
<1> USE ForwardingAssumption
<1>0. TypeOK /\ Progress
  BY DEF TypeInv
<1>1. pc[t] = "awaiting" => callee[t] \in Task
  BY <1>0 DEF Progress, TypeOK, Task, Call
<1>2. /\ \E a \in {"none", "ok", "error"} : Answer(t, a)
      /\ pc[t] # "unused"
      /\ failures' \in Nat
      /\ UNCHANGED <<raftVars, at, attempt, callee, calls, proposed, committed, outcome>>
  BY <1>0, <1>1 DEF Receive, ReadError, GiveUp, TypeOK, countVars
<1> QED BY <1>0, <1>2, AnsweredTypes DEF TypeOK

LEMMA SendTypes ==
  ASSUME TypeInv, NEW t \in Task, Send(t)
  PROVE  TypeInv' /\ calls + 1 \in Call /\ pc[calls + 1] = "unused" /\ t # calls + 1
<1> USE ForwardingAssumption
<1> DEFINE c == calls + 1
<1>0. TypeOK /\ Progress
  BY DEF TypeInv
<1>1. c \in Call /\ c \in Task /\ c > calls /\ c \in Nat
  BY <1>0 DEF Send, TypeOK, Call, Task
<1>2. pc[c] = "unused" /\ t # c
  BY <1>0, <1>1 DEF Send, Progress
<1>3. httpOf[knows[at[t]]] \in Server
  <2>1. httpOf \in [Server -> Server] /\ at[t] \in Server
    BY <1>0 DEF Send, TypeOK, Progress
  <2> QED BY <1>0, <2>1 DEF Send, TypeOK
<1>4. /\ calls' = c
      /\ callee' = [callee EXCEPT ![t] = c]
      /\ at' = [at EXCEPT ![c] = httpOf[knows[at[t]]]]
      /\ pc' = [pc EXCEPT ![t] = "awaiting", ![c] = "received"]
      /\ UNCHANGED <<raftVars, attempt, answer, countVars, clientVars>>
  BY DEF Send
<1>5. attempt[t] \in 1 .. Attempts
  BY <1>0 DEF Send, TypeOK, Progress
<1> HIDE DEF c
<1>6. TypeOK'
  <2>1. at' \in [Task -> Server \cup {NoServer}] /\ callee' \in [Task -> Call \cup {NoCall}]
    BY <1>0, <1>1, <1>3, <1>4 DEF TypeOK
  <2>2. pc' \in [Task -> PC]
    BY <1>0, <1>4 DEF TypeOK, PC
  <2>3. calls' \in 0 .. MaxCalls
    BY <1>1, <1>4 DEF Call
  <2> QED BY <1>0, <1>4, <2>1, <2>2, <2>3 DEF TypeOK, PC, raftVars, countVars, clientVars
<1>7. Progress'
  <2> SUFFICES ASSUME NEW u \in Task
               PROVE  /\ pc'[u] = "unused" <=> u \in Call /\ u > calls'
                      /\ pc'[u] # "unused" => at'[u] \in Server
                      /\ pc'[u] \in {"unused", "received", "executing", "appended", "rejected"} =>
                           attempt'[u] = 0
                      /\ pc'[u] = "forwarding" => attempt'[u] >= 1
                      /\ pc'[u] = "awaiting" =>
                           attempt'[u] \in 1 .. Attempts /\ callee'[u] \in 1 .. calls'
    BY DEF Progress
  <2>1. CASE u = c
    <3>1. pc'[u] = "received" /\ at'[u] \in Server
      BY <1>0, <1>2, <1>3, <1>4, <2>1 DEF TypeOK
    <3>2. ~(u > calls')
      BY <1>1, <1>4, <2>1
    <3>3. attempt'[u] = attempt[u]
      BY <1>4
    <3>4. attempt[c] = 0
      BY <1>0, <1>1, <1>2 DEF Progress
    <3> QED BY <3>1, <3>2, <3>3, <3>4, <2>1
  <2>2. CASE u = t
    <3>1. pc'[u] = "awaiting" /\ at'[u] = at[u] /\ callee'[u] = c /\ attempt'[u] = attempt[u]
      BY <1>0, <1>1, <1>2, <1>4, <2>2 DEF TypeOK
    <3>2. ~(u \in Call /\ u > calls') /\ at[u] \in Server
      <4>1. ~(u \in Call /\ u > calls) /\ at[u] \in Server
        BY <1>0, <2>2 DEF Send, Progress
      <4>2. u \in Call => u \in Nat
        BY Names
      <4>3. calls \in Nat /\ calls' = calls + 1
        BY <1>0, <1>4 DEF TypeOK, c
      <4> QED BY <4>1, <4>2, <4>3
    <3>3. attempt'[u] \in 1 .. Attempts
      BY <1>5, <2>2, <3>1
    <3>4. callee'[u] \in 1 .. calls'
      BY <1>1, <1>4, <3>1, Names
    <3>5. at'[u] \in Server /\ ~(u \in Call /\ u > calls')
      BY <3>1, <3>2
    <3> HIDE <1>4
    <3> QED BY <3>1, <3>3, <3>4, <3>5
  <2>3. CASE u # c /\ u # t
    <3>1. pc'[u] = pc[u] /\ at'[u] = at[u] /\ callee'[u] = callee[u] /\ attempt'[u] = attempt[u]
      BY <1>0, <1>4, <2>3 DEF TypeOK
    <3>2. u \in Call => (u > calls <=> u > calls')
      BY <1>0, <1>4, <2>3, Names DEF TypeOK, c
    <3>3. callee[u] \in 1 .. calls => callee[u] \in 1 .. calls'
      BY <1>0, <1>4 DEF TypeOK, c
    <3> QED BY <1>0, <3>1, <3>2, <3>3 DEF Progress
  <2> QED BY <2>1, <2>2, <2>3
<1> QED BY <1>1, <1>2, <1>6, <1>7 DEF TypeInv, c

LEMMA TypeStep == TypeInv /\ [Next]_vars => TypeInv'
<1> SUFFICES ASSUME TypeInv, [Next]_vars PROVE TypeInv'
  OBVIOUS
<1>1. CASE UNCHANGED vars
  BY <1>1 DEF TypeInv, TypeOK, Progress, vars, raftVars, taskVars, countVars, clientVars
<1>2. ASSUME NEW t \in Task, Run(t) PROVE TypeInv'
  BY <1>2, ExecutionTypes, AttemptTypes, ReturnTypes, SendTypes DEF Run
<1>3. CASE \/ \E s \in Server : Elect(s) \/ Learn(s) \/ LoseContact(s)
           \/ Client
  BY <1>3, OthersTypes
<1> QED BY <1>1, <1>2, <1>3 DEF Next

\* Every reachable state of raft, the tasks and the client is well typed.
THEOREM TypeCorrect == Spec => []TypeOK
<1>1. TypeInv => TypeOK
  BY DEF TypeInv
<1> QED
  BY <1>1, TypeInit, TypeStep, PTL DEF Spec

-----------------------------------------------------------------------------
(* How often the operation is executed.                                     *)

LEMMA TaskFinite ==
  /\ IsFiniteSet(Task)
  /\ \A S \in SUBSET Task : IsFiniteSet(S) /\ Cardinality(S) \in Nat
<1>1. IsFiniteSet(Call)
  BY ForwardingAssumption, FS_Interval DEF Call
<1>2. IsFiniteSet(Task)
  BY <1>1, ForwardingAssumption, FS_Union DEF Task
<1>3. ASSUME NEW S \in SUBSET Task PROVE IsFiniteSet(S) /\ Cardinality(S) \in Nat
  BY <1>2, FS_Subset, FS_CardinalityType
<1> QED BY <1>2, <1>3

LEMMA CountedFinite ==
  /\ Executed \in SUBSET Task /\ Delegated \in SUBSET Task /\ Accounted \in SUBSET Task
  /\ IsFiniteSet(Executed) /\ Cardinality(Executed) \in Nat
  /\ IsFiniteSet(Delegated) /\ Cardinality(Delegated) \in Nat
  /\ IsFiniteSet(Accounted) /\ Cardinality(Accounted) \in Nat
<1>1. Executed \in SUBSET Task /\ Delegated \in SUBSET Task /\ Accounted \in SUBSET Task
  BY DEF Executed, Delegated, Accounted
<1> QED BY <1>1, TaskFinite

LEMMA RetriesInit == Init => RetriesInv
<1> SUFFICES ASSUME Init PROVE RetriesInv
  OBVIOUS
<1>1. \A t \in Task : pc[t] \in {"received", "unused"} /\ callee[t] = NoCall
  BY DEF Init
<1>2. Executed = {} /\ Delegated = {} /\ Accounted = {}
  BY <1>1 DEF Executed, Delegated, Accounted
<1>3. Cardinality({}) = 0
  BY FS_EmptySet
<1>4. Counted
  BY <1>2, <1>3 DEF Init, Counted
<1>5. OneCaller
  BY <1>1 DEF Init, OneCaller, NoCall
<1> QED BY <1>4, <1>5, TypeInit DEF RetriesInv

\* A step of task t alone, which may end it or begin a call.
LEMMA TasksApart ==
  ASSUME TypeInv, NEW t \in Task, NEW p \in PC, pc' = [pc EXCEPT ![t] = p],
         \A u \in Task : u # t => attempt'[u] = attempt[u]
  PROVE  /\ pc'[t] = p
         /\ \A u \in Task \ {t} : pc'[u] = pc[u] /\ attempt'[u] = attempt[u]
BY DEF TypeInv, TypeOK

\* An answer can only take calls from those that stand for something.
LEMMA TakenGrows ==
  ASSUME UNCHANGED callee,
         \A u \in Task : pc[u] = "answered" => pc'[u] = "answered"
  PROVE  Taken \subseteq Taken'
BY DEF Taken

LEMMA OneMoreAccounted ==
  ASSUME NEW t, Accounted' \subseteq Accounted \cup {t}
  PROVE  Cardinality(Accounted') <= Cardinality(Accounted) + 1
<1>1. /\ IsFiniteSet(Accounted \cup {t})
      /\ Cardinality(Accounted \cup {t}) <= Cardinality(Accounted) + 1
  BY CountedFinite, FS_AddElement
<1>2. /\ IsFiniteSet(Accounted')
      /\ Cardinality(Accounted') <= Cardinality(Accounted \cup {t})
  BY <1>1, FS_Subset
<1>3. Cardinality(Accounted') \in Nat /\ Cardinality(Accounted \cup {t}) \in Nat
  BY <1>1, <1>2, FS_CardinalityType
<1> QED BY <1>1, <1>2, <1>3, CountedFinite

LEMMA SmallerAccounted ==
  ASSUME TypeOK, Counted, UNCHANGED <<calls, proposed, failures>>,
         Executed' = Executed, Delegated' = Delegated, Accounted' \subseteq Accounted
  PROVE  Counted'
<1>1. Cardinality(Accounted') <= Cardinality(Accounted) /\ Cardinality(Accounted') \in Nat
  BY CountedFinite, FS_Subset, FS_CardinalityType
<1> QED BY <1>1, CountedFinite DEF Counted, TypeOK

\* The executions, up to their answer, change Executed only with the proposal.
LEMMA ExecutionCounted ==
  ASSUME RetriesInv, NEW t \in Task,
         CheckLeader(t) \/ Propose(t) \/ Applied(t) \/ ApplyFailed(t)
  PROVE  Counted'
<1>0. TypeInv /\ TypeOK /\ Progress /\ Counted
  BY DEF RetriesInv, TypeInv
<1>1. CASE CheckLeader(t)
  <2>1. PICK p \in PC : pc' = [pc EXCEPT ![t] = p] /\ p \in {"executing", "forwarding"}
    BY <1>1 DEF CheckLeader, PC
  <2>2. /\ pc[t] = "received" /\ attempt[t] = 0
        /\ \A u \in Task : u # t => attempt'[u] = attempt[u]
        /\ attempt'[t] \in {0, 1}
        /\ UNCHANGED <<callee, calls, proposed, failures>>
    BY <1>0, <1>1 DEF CheckLeader, Progress, TypeOK, countVars
  <2>3. /\ pc'[t] = p
        /\ \A u \in Task \ {t} : pc'[u] = pc[u] /\ attempt'[u] = attempt[u]
    BY <1>0, <2>1, <2>2, TasksApart
  <2>4. Executed' = Executed /\ Delegated' = Delegated
    BY <2>1, <2>2, <2>3 DEF Executed, Delegated
  <2>5. Taken' = Taken
    BY <2>1, <2>2, <2>3 DEF Taken
  <2>6. Accounted' \subseteq Accounted
    BY <2>1, <2>2, <2>3, <2>5 DEF Accounted
  <2> QED BY <1>0, <2>2, <2>4, <2>6, SmallerAccounted
<1>2. CASE Propose(t)
  <2>1. PICK p \in PC : pc' = [pc EXCEPT ![t] = p] /\ p \in {"appended", "rejected"}
    BY <1>2 DEF Propose, PC
  <2>2. /\ pc[t] = "executing" /\ attempt[t] = 0
        /\ UNCHANGED <<attempt, callee, calls, failures>>
        /\ proposed' = proposed + 1
    BY <1>0, <1>2 DEF Propose, Progress
  <2>3. /\ pc'[t] = p
        /\ \A u \in Task \ {t} : pc'[u] = pc[u]
    BY <1>0, <2>1, <2>2, TasksApart
  <2>4. Executed' = Executed \cup {t} /\ t \notin Executed /\ Delegated' = Delegated
    BY <2>1, <2>2, <2>3 DEF Executed, Delegated
  <2>5. Taken' = Taken
    BY <2>1, <2>2, <2>3 DEF Taken
  <2>6. Accounted' \subseteq Accounted \cup {t}
    BY <2>1, <2>2, <2>3, <2>5 DEF Accounted
  <2>7. Cardinality(Executed') = Cardinality(Executed) + 1
    BY <2>4, CountedFinite, FS_AddElement
  <2>8. Cardinality(Accounted') <= Cardinality(Accounted) + 1
    BY <2>6, OneMoreAccounted
  <2>9. Cardinality(Accounted') \in Nat
    BY <2>6, CountedFinite, TaskFinite
  <2> QED BY <1>0, <2>2, <2>4, <2>7, <2>8, <2>9, CountedFinite DEF Counted, TypeOK
<1>3. CASE Applied(t) \/ ApplyFailed(t)
  <2>1. /\ pc' = [pc EXCEPT ![t] = "answered"]
        /\ pc[t] \in {"appended", "rejected"} /\ attempt[t] = 0
        /\ UNCHANGED <<attempt, callee, calls, proposed, failures>>
    BY <1>0, <1>3 DEF Applied, ApplyFailed, Answer, Progress
  <2>2. "answered" \in PC
    BY DEF PC
  <2>3. /\ pc'[t] = "answered"
        /\ \A u \in Task \ {t} : pc'[u] = pc[u]
    BY <1>0, <2>1, <2>2, TasksApart
  <2>4. Executed' = Executed /\ Delegated' = Delegated
    BY <2>1, <2>3 DEF Executed, Delegated
  <2>5. Taken \subseteq Taken'
    BY <2>1, <2>3, TakenGrows
  <2>6. Accounted' \subseteq Accounted
    BY <2>1, <2>3, <2>5 DEF Accounted
  <2> QED BY <1>0, <2>1, <2>4, <2>6, SmallerAccounted
<1> QED BY <1>1, <1>2, <1>3

\* A failed attempt gives up a call, if it had one, and stands for itself.
LEMMA AttemptCounted ==
  ASSUME RetriesInv, NEW t \in Task, NoLeader(t) \/ Unreachable(t) \/ TimeOut(t)
  PROVE  Counted'
<1>0. TypeInv /\ TypeOK /\ Progress /\ Counted
  BY DEF RetriesInv, TypeInv
<1>1. /\ pc[t] \in {"forwarding", "awaiting"} /\ attempt[t] >= 1 /\ attempt[t] \in Nat
      /\ pc' = [pc EXCEPT ![t] = "forwarding"]
      /\ attempt' = [attempt EXCEPT ![t] = attempt[t] + 1]
      /\ failures' = failures + 1
      /\ UNCHANGED <<callee, calls, proposed>>
  BY <1>0, ForwardingAssumption DEF NoLeader, Unreachable, TimeOut, NextAttempt, Progress, TypeOK
<1>2. "forwarding" \in PC
  BY DEF PC
<1>3. /\ pc'[t] = "forwarding" /\ attempt'[t] = attempt[t] + 1
      /\ \A u \in Task \ {t} : pc'[u] = pc[u] /\ attempt'[u] = attempt[u]
  BY <1>0, <1>1, <1>2, TasksApart DEF TypeOK
<1>4. Executed' = Executed
  BY <1>1, <1>3 DEF Executed
<1>5. Delegated' = Delegated \ {t}
  BY <1>1, <1>3 DEF Delegated
<1>6. Taken' = Taken
  BY <1>1, <1>3 DEF Taken
<1>7. Accounted' \subseteq Accounted \cup {t}
  BY <1>1, <1>3, <1>6 DEF Accounted
<1>8. Cardinality(Delegated') >= Cardinality(Delegated) - 1
  BY <1>5, CountedFinite, FS_RemoveElement
<1>9. Cardinality(Accounted') <= Cardinality(Accounted) + 1
  BY <1>7, OneMoreAccounted
<1>10. Cardinality(Delegated') \in Nat /\ Cardinality(Accounted') \in Nat
  BY CountedFinite, <1>5, <1>7, TaskFinite
<1> QED BY <1>0, <1>1, <1>4, <1>8, <1>9, <1>10, CountedFinite DEF Counted, TypeOK

LEMMA SendCounted ==
  ASSUME RetriesInv, NEW t \in Task, Send(t)
  PROVE  OneCaller' /\ Counted'
<1> DEFINE c == calls + 1
<1>0. TypeInv /\ TypeOK /\ Progress /\ Counted /\ OneCaller
  BY DEF RetriesInv, TypeInv
<1>1. c \in Call /\ c \in Task /\ pc[c] = "unused" /\ t # c
  BY <1>0, SendTypes DEF Task
<1>2. /\ pc[t] = "forwarding" /\ attempt[t] # 0
      /\ calls' = c /\ c \in Nat
      /\ callee' = [callee EXCEPT ![t] = c]
      /\ pc' = [pc EXCEPT ![t] = "awaiting", ![c] = "received"]
      /\ UNCHANGED <<attempt, proposed, failures>>
  BY <1>0 DEF Send, Progress, TypeOK, countVars
<1> HIDE DEF c
<1>3. /\ pc'[t] = "awaiting" /\ pc'[c] = "received"
      /\ \A u \in Task \ {t, c} : pc'[u] = pc[u]
  BY <1>0, <1>1, <1>2 DEF TypeOK
<1>4. /\ callee'[t] = c
      /\ \A u \in Task \ {t} : callee'[u] = callee[u]
  BY <1>0, <1>2 DEF TypeOK
<1>5. \A u \in Task : callee[u] # c /\ callee[u] <= c
  <2> SUFFICES ASSUME NEW u \in Task PROVE callee[u] # c /\ callee[u] <= c
    OBVIOUS
  <2>1. callee[u] <= calls
    BY <1>0 DEF OneCaller
  <2>2. callee[u] \in Call \cup {NoCall}
    BY <1>0 DEF TypeOK
  <2>3. callee[u] \in Nat
    <3>1. CASE callee[u] \in Call
      BY <3>1, Names
    <3>2. CASE callee[u] = NoCall
      BY <3>2 DEF NoCall
    <3> QED BY <2>2, <3>1, <3>2
  <2> QED BY <1>0, <2>1, <2>3 DEF c, TypeOK
<1>6. OneCaller'
  <2>1. \A u \in Task : callee'[u] <= calls'
    BY <1>1, <1>2, <1>4, <1>5
  <2>2. ASSUME NEW u \in Task, NEW v \in Task, callee'[u] = callee'[v], callee'[u] # NoCall
        PROVE  u = v
    BY <1>0, <1>4, <1>5, <2>2 DEF OneCaller
  <2> QED BY <2>1, <2>2 DEF OneCaller
<1>7. Executed' = Executed
  BY <1>1, <1>2, <1>3 DEF Executed
<1>8. attempt[c] = 0
  <2>1. pc[c] = "unused" => attempt[c] = 0
    BY <1>0, <1>1 DEF Progress
  <2> QED BY <1>1, <2>1
<1>9. Delegated' = Delegated \cup {t} /\ t \notin Delegated
  <2>1. \A u \in Task \ {t, c} : u \in Delegated' <=> u \in Delegated
    BY <1>2, <1>3 DEF Delegated
  <2>2. c \notin Delegated' /\ c \notin Delegated
    BY <1>2, <1>8 DEF Delegated
  <2>3. t \in Delegated' /\ t \notin Delegated
    BY <1>2, <1>3 DEF Delegated
  <2>4. Delegated \subseteq Task /\ Delegated' \subseteq Task
    BY DEF Delegated
  <2> QED BY <2>1, <2>2, <2>3, <2>4
<1>10. Taken' = Taken
  <2>1. ASSUME NEW u \in Task
        PROVE  /\ pc'[u] = "answered" <=> pc[u] = "answered"
               /\ pc[u] = "answered" => callee'[u] = callee[u]
    <3>1. CASE u \in {t, c}
      BY <1>1, <1>2, <1>3, <3>1
    <3>2. CASE u \notin {t, c}
      BY <1>3, <1>4, <3>2
    <3> QED BY <3>1, <3>2
  <2> QED BY <2>1 DEF Taken
<1>11. Accounted' \subseteq Accounted
  BY <1>1, <1>2, <1>3, <1>10 DEF Accounted
<1>12. Cardinality(Delegated') = Cardinality(Delegated) + 1
  BY <1>9, CountedFinite, FS_AddElement
<1>13. Cardinality(Accounted') <= Cardinality(Accounted)
  BY <1>11, CountedFinite, FS_Subset
<1>14. Cardinality(Accounted') \in Nat
  BY <1>11, CountedFinite, TaskFinite
<1>15. Counted'
  BY <1>0, <1>2, <1>7, <1>12, <1>13, <1>14, CountedFinite DEF Counted, TypeOK, c
<1> QED BY <1>6, <1>15

\* Whoever takes over an answer stands for the call it came from.
LEMMA ReturnCounted ==
  ASSUME RetriesInv, NEW t \in Task, Receive(t) \/ ReadError(t) \/ GiveUp(t)
  PROVE  Counted'
<1>0. TypeInv /\ TypeOK /\ Progress /\ Counted /\ OneCaller
  BY DEF RetriesInv, TypeInv
<1>1. /\ pc' = [pc EXCEPT ![t] = "answered"]
      /\ pc[t] \in {"forwarding", "awaiting"} /\ attempt[t] >= 1 /\ attempt[t] \in Nat
      /\ UNCHANGED <<attempt, callee, calls, proposed>>
  BY <1>0, ForwardingAssumption
  DEF Receive, ReadError, GiveUp, Answer, Progress, TypeOK, countVars
<1>2. "answered" \in PC
  BY DEF PC
<1>3. /\ pc'[t] = "answered"
      /\ \A u \in Task \ {t} : pc'[u] = pc[u]
  BY <1>0, <1>1, <1>2, TasksApart
<1>4. Executed' = Executed
  BY <1>1, <1>3 DEF Executed
<1>5. Delegated' = Delegated \cup {t}
  <2>1. attempt[t] # 0
    BY <1>1
  <2> QED BY <1>1, <1>3, <2>1 DEF Delegated
<1>6. Cardinality(Delegated') >= Cardinality(Delegated) /\ Cardinality(Delegated') \in Nat
  <2>1. IsFiniteSet(Delegated') /\ Delegated \subseteq Delegated'
    BY <1>5, CountedFinite, FS_AddElement
  <2> QED BY <2>1, FS_Subset, FS_CardinalityType, CountedFinite
<1>7. Taken \subseteq Taken'
  BY <1>1, <1>3, TakenGrows
<1>8. Accounted' \subseteq Accounted \cup {t}
  BY <1>1, <1>3, <1>7 DEF Accounted
<1>9. Cardinality(Accounted') \in Nat
  BY <1>8, CountedFinite, TaskFinite
<1>10. CASE ReadError(t)
  <2>1. failures' = failures + 1
    BY <1>10 DEF ReadError
  <2>2. Cardinality(Accounted') <= Cardinality(Accounted) + 1
    BY <1>8, OneMoreAccounted
  <2> QED BY <1>0, <1>1, <1>4, <1>6, <1>9, <2>1, <2>2, CountedFinite DEF Counted, TypeOK
<1>11. CASE GiveUp(t)
  <2>1. failures' = failures /\ attempt[t] >= 2 /\ pc[t] = "forwarding"
    BY <1>0, <1>1, <1>11, ForwardingAssumption DEF GiveUp, countVars
  <2>2. t \in Accounted
    BY <2>1 DEF Accounted
  <2>3. Cardinality(Accounted') <= Cardinality(Accounted)
    BY <1>8, <2>2, CountedFinite, FS_Subset
  <2> QED BY <1>0, <1>1, <1>4, <1>6, <1>9, <2>1, <2>3, CountedFinite DEF Counted, TypeOK
<1>12. CASE Receive(t)
  <2> DEFINE c == callee[t]
  <2>1. /\ failures' = failures /\ pc[t] = "awaiting"
        /\ c \in Task /\ c # NoCall /\ pc[c] = "answered" /\ c # t
    BY <1>0, <1>12 DEF Receive, countVars, Progress, TypeOK, Task, Call, NoCall
  <2>2. c \notin Taken
    BY <1>0, <2>1 DEF Taken, OneCaller
  <2>3. c \in Accounted
    BY <2>1, <2>2 DEF Accounted
  <2>4. c \in Taken'
    BY <1>1, <1>3 DEF Taken
  <2>5. Accounted' \subseteq (Accounted \ {c}) \cup {t}
    BY <1>3, <1>8, <2>1, <2>4 DEF Accounted
  <2>6. /\ IsFiniteSet(Accounted \ {c})
        /\ Cardinality(Accounted \ {c}) = Cardinality(Accounted) - 1
    BY <2>3, CountedFinite, FS_RemoveElement
  <2>7. /\ IsFiniteSet((Accounted \ {c}) \cup {t})
        /\ Cardinality((Accounted \ {c}) \cup {t}) <= Cardinality(Accounted)
    <3> DEFINE rest == Accounted \ {c}
    <3>1. /\ IsFiniteSet(rest) /\ Cardinality(rest) \in Nat
          /\ Cardinality(rest) = Cardinality(Accounted) - 1
      BY <2>6, FS_CardinalityType
    <3> HIDE DEF rest
    <3>2. /\ IsFiniteSet(rest \cup {t})
          /\ \/ Cardinality(rest \cup {t}) = Cardinality(rest)
             \/ Cardinality(rest \cup {t}) = Cardinality(rest) + 1
      BY <3>1, FS_AddElement
    <3>3. Cardinality(Accounted) \in Nat
      BY CountedFinite
    <3>4. Cardinality(rest \cup {t}) <= Cardinality(Accounted)
      BY <3>1, <3>2, <3>3
    <3> QED BY <3>2, <3>4 DEF rest
  <2>8. Cardinality(Accounted') <= Cardinality((Accounted \ {c}) \cup {t})
    BY <2>5, <2>7, FS_Subset
  <2>9. Cardinality((Accounted \ {c}) \cup {t}) \in Nat
    BY <2>7, FS_CardinalityType
  <2>10. Cardinality(Accounted') <= Cardinality(Accounted)
    BY <1>9, <2>7, <2>8, <2>9, CountedFinite
  <2> QED BY <1>0, <1>1, <1>4, <1>6, <1>9, <2>1, <2>10, CountedFinite DEF Counted, TypeOK
<1> QED BY <1>10, <1>11, <1>12

LEMMA RetriesStep == RetriesInv /\ [Next]_vars => RetriesInv'
<1> SUFFICES ASSUME RetriesInv, [Next]_vars PROVE OneCaller' /\ Counted'
  BY TypeStep DEF RetriesInv
<1>1. OneCaller /\ Counted /\ TypeInv
  BY DEF RetriesInv
<1>2. CASE UNCHANGED <<taskVars, countVars>>
  BY <1>1, <1>2 DEF taskVars, countVars, OneCaller, Counted, Executed, Delegated, Accounted, Taken
<1>3. ASSUME NEW t \in Task, Run(t) PROVE OneCaller' /\ Counted'
  <2>1. CASE Send(t)
    BY <2>1, SendCounted
  <2>2. CASE ~Send(t)
    <3>1. UNCHANGED <<callee, calls>>
      BY <1>3, <2>2 DEF Run, CheckLeader, Propose, Applied, ApplyFailed, NoLeader, Unreachable,
        TimeOut, Receive, ReadError, GiveUp
    <3>2. OneCaller'
      BY <1>1, <3>1 DEF OneCaller
    <3>3. Counted'
      BY <1>3, <2>2, ExecutionCounted, AttemptCounted, ReturnCounted DEF Run
    <3> QED BY <3>2, <3>3
  <2> QED BY <2>1, <2>2
<1>4. ASSUME NEW s \in Server, Elect(s) \/ Learn(s) \/ LoseContact(s)
      PROVE  UNCHANGED <<taskVars, countVars>>
  BY <1>4 DEF Elect, Learn, LoseContact
<1>5. ASSUME Client PROVE UNCHANGED <<taskVars, countVars>>
  BY <1>5 DEF Client, ClientTimeOut, ClientReceive
<1> QED BY <1>2, <1>3, <1>4, <1>5 DEF Next, vars

\* Executions and calls are different tasks, all of them servers or sent calls.
LEMMA ExecutionsBounded ==
  ASSUME RetriesInv
  PROVE  proposed <= Cardinality(Server) + failures
<1>1. TypeOK /\ Progress /\ Counted
  BY DEF RetriesInv, TypeInv
<1>2. Executed \cap Delegated = {}
  BY DEF Executed, Delegated
<1>3. Executed \cup Delegated \subseteq Server \cup (1 .. calls)
  <2> SUFFICES ASSUME NEW t \in Task, pc[t] # "unused" PROVE t \in Server \cup (1 .. calls)
    BY DEF Executed, Delegated
  <2>1. CASE t \in Call
    BY <1>1, <2>1, Names DEF Progress, TypeOK
  <2> QED BY <2>1 DEF Task
<1>4. calls \in Nat /\ proposed \in Nat /\ failures \in Nat
  BY <1>1 DEF TypeOK
<1>5. IsFiniteSet(1 .. calls) /\ Cardinality(1 .. calls) = calls
  BY <1>4, FS_Interval
<1>6. Server \cap (1 .. calls) = {}
  BY <1>1, ForwardingAssumption DEF TypeOK
<1>7. /\ IsFiniteSet(Server \cup (1 .. calls))
      /\ Cardinality(Server \cup (1 .. calls)) = Cardinality(Server) + calls
  <2>1. Cardinality(Server) \in Nat
    BY ForwardingAssumption, FS_CardinalityType
  <2>2. IsFiniteSet(Server)
    BY ForwardingAssumption
  <2>3. /\ IsFiniteSet(Server \cup (1 .. calls))
        /\ Cardinality(Server \cup (1 .. calls)) =
             Cardinality(Server) + Cardinality(1 .. calls) - Cardinality(Server \cap (1 .. calls))
    BY <1>5, <2>2, FS_Union
  <2>4. Cardinality(Server \cap (1 .. calls)) = 0
    BY <1>6, FS_EmptySet
  <2> QED BY <1>4, <1>5, <2>1, <2>3, <2>4
<1>8. Cardinality(Executed \cup Delegated) = Cardinality(Executed) + Cardinality(Delegated)
  BY <1>2, CountedFinite, FS_Union, FS_EmptySet
<1>9. Cardinality(Executed \cup Delegated) <= Cardinality(Server) + calls
  BY <1>3, <1>7, FS_Subset
<1>10. Cardinality(Server) \in Nat
  BY ForwardingAssumption, FS_CardinalityType
<1> QED BY <1>1, <1>4, <1>8, <1>9, <1>10, CountedFinite DEF Counted

\* A callback is nobody's call, so once answered it stands for something.
LEMMA CallbacksAccounted ==
  ASSUME RetriesInv, CallbacksAnswered
  PROVE  proposed + failures >= Cardinality(Server)
<1>1. TypeOK /\ Counted
  BY DEF RetriesInv, TypeInv
<1>2. \A c \in Taken : c \notin Server
  BY <1>1, Names DEF Taken, TypeOK, Task
<1>3. Server \subseteq Accounted
  BY <1>2 DEF Accounted, CallbacksAnswered, Task
<1>4. Cardinality(Server) <= Cardinality(Accounted)
  BY <1>3, CountedFinite, FS_Subset
<1>5. Cardinality(Server) \in Nat
  BY ForwardingAssumption, FS_CardinalityType
<1> QED BY <1>1, <1>4, <1>5, CountedFinite DEF Counted, TypeOK

\* A request is executed once for every server, give or take the attempts that
\* failed, for any number of servers on any hosts, any number of retries and any
\* chain of servers that forward to each other.
THEOREM RetriesExplainedCorrect == Spec => []RetriesExplained
<1>1. RetriesInv => RetriesExplained
  BY ExecutionsBounded, CallbacksAccounted DEF RetriesExplained
<1> QED
  BY <1>1, RetriesInit, RetriesStep, PTL DEF Spec

-----------------------------------------------------------------------------
(* What an accepted request means.                                          *)

LEMMA AcceptedInit == Init => AcceptedInv
<1> SUFFICES ASSUME Init PROVE AcceptedInv
  OBVIOUS
<1>1. OkCommitted
  BY DEF Init, OkCommitted, AcceptedExecuted
<1> QED BY <1>1, TypeInit DEF AcceptedInv

\* Whoever answers "ok" can point to a command.
LEMMA AnswerCommitted ==
  ASSUME AcceptedInv, NEW t \in Task, NEW a \in {"none", "ok", "error"}, Answer(t, a),
         UNCHANGED outcome, committed' \in Nat, committed' >= committed,
         a = "ok" => committed' > 0
  PROVE  OkCommitted'
<1>1. TypeOK /\ OkCommitted
  BY DEF AcceptedInv, TypeInv
<1>2. committed > 0 => committed' > 0
  BY <1>1 DEF TypeOK
<1>3. \A u \in Task : answer'[u] = "ok" => committed' > 0
  BY <1>1, <1>2 DEF Answer, TypeOK, OkCommitted
<1>4. Published(t, a) = "ok" => a = "ok"
  BY DEF Published
<1>5. "ok" \in replies' => committed' > 0
  BY <1>1, <1>2, <1>4 DEF Answer, OkCommitted
<1>6. AcceptedExecuted'
  BY <1>1, <1>2 DEF OkCommitted, AcceptedExecuted
<1> QED BY <1>3, <1>5, <1>6 DEF OkCommitted

LEMMA AcceptedStep ==
  ASSUME Operation # "findMatch", AcceptedInv, [Next]_vars
  PROVE  AcceptedInv'
<1> SUFFICES OkCommitted'
  BY TypeStep DEF AcceptedInv
<1>1. TypeOK /\ Progress /\ OkCommitted
  BY DEF AcceptedInv, TypeInv
<1>2. CASE UNCHANGED <<answer, committed, clientVars>>
  BY <1>1, <1>2 DEF OkCommitted, AcceptedExecuted, clientVars
<1>3. ASSUME NEW t \in Task, Run(t) PROVE OkCommitted'
  <2>1. CASE \/ CheckLeader(t) \/ Propose(t) \/ NoLeader(t) \/ Send(t) \/ Unreachable(t)
             \/ TimeOut(t)
    BY <1>2, <2>1 DEF CheckLeader, Propose, NoLeader, Send, Unreachable, TimeOut, NextAttempt,
      countVars
  <2>2. CASE Applied(t)
    BY <1>1, <2>2, AnswerCommitted DEF Applied, TypeOK
  <2>3. CASE ApplyFailed(t)
    <3>1. committed' \in Nat /\ committed' >= committed
      BY <1>1, <2>3 DEF ApplyFailed, TypeOK
    <3> QED BY <2>3, <3>1, AnswerCommitted DEF ApplyFailed
  <2>4. CASE ReadError(t) \/ GiveUp(t)
    BY <1>1, <2>4, AnswerCommitted DEF ReadError, GiveUp, TypeOK, countVars
  <2>5. CASE Receive(t)
    <3>1. callee[t] \in Task
      BY <1>1, <2>5, ForwardingAssumption DEF Receive, Progress, TypeOK, Task, Call
    <3>2. PICK a \in {"none", "ok", "error"} : a = answer[callee[t]]
      BY <1>1, <3>1 DEF TypeOK
    <3>3. a = "ok" => committed > 0
      BY <1>1, <3>1, <3>2 DEF OkCommitted
    <3> QED BY <1>1, <2>5, <3>2, <3>3, AnswerCommitted DEF Receive, TypeOK, countVars
  <2> QED BY <1>3, <2>1, <2>2, <2>3, <2>4, <2>5 DEF Run
<1>4. ASSUME NEW s \in Server, Elect(s) \/ Learn(s) \/ LoseContact(s) PROVE OkCommitted'
  BY <1>2, <1>4 DEF Elect, Learn, LoseContact, taskVars, countVars
<1>5. CASE Client
  <2>1. UNCHANGED <<answer, committed, replies>>
    BY <1>5 DEF Client, ClientTimeOut, ClientReceive, taskVars, countVars
  <2>2. outcome' = "accepted" => outcome = "accepted" \/ "ok" \in replies
    <3>1. CASE ClientTimeOut
      BY <3>1 DEF ClientTimeOut
    <3>2. ASSUME NEW reply \in replies, ClientReceive(reply), outcome' = "accepted"
          PROVE  reply = "ok"
      <4>1. reply \in {"ok", "err", "null"} /\ Operation \in {"createAccount", "openPack"}
        BY <1>1, ForwardingAssumption DEF TypeOK
      <4> QED BY <3>2, <4>1 DEF ClientReceive, Understood
    <3> QED BY <1>5, <3>1, <3>2 DEF Client
  <2> QED BY <1>1, <2>1, <2>2 DEF OkCommitted, AcceptedExecuted
<1>6. CASE UNCHANGED vars
  BY <1>2, <1>6 DEF vars, taskVars, countVars
<1> QED BY <1>3, <1>4, <1>5, <1>6 DEF Next

\* An account or a pack that the client shows goes back to a command that was
\* committed, whoever answered and through whatever chain.  RequestFindMatch is
\* the exception that the code makes.
THEOREM AcceptedExecutedCorrect ==
  ASSUME Operation # "findMatch"
  PROVE  Spec => []AcceptedExecuted
<1>1. AcceptedInv => AcceptedExecuted
  BY DEF AcceptedInv, OkCommitted
<1>2. AcceptedInv /\ [Next]_vars => AcceptedInv'
  BY AcceptedStep
<1> QED
  BY <1>1, <1>2, AcceptedInit, PTL DEF Spec
=============================================================================
