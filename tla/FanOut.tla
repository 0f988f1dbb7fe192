------------------------------- MODULE FanOut --------------------------------
(***************************************************************************)
(* checkIfAnyNodeLogged, checkMatchmaking and checkGame of                 *)
(* src/server/API/server-api.go: one goroutine per member asks it over     *)
(* HTTP, one more closes the channel when the WaitGroup is at zero, and    *)
(* the caller takes the first value of the channel.                        *)
(*                                                                         *)
(* The three functions differ in the question.  The members asked are the  *)
(* copy of s.members made at the start.  A goroutine that was cancelled    *)
(* may still have its answer already, so cancelling is not a step here: it *)
(* only makes "failed" the likelier answer.                                *)
(***************************************************************************)
EXTENDS Integers, FiniteSets

CONSTANTS
  Member,   \* the members copied from s.members
  Capacity, \* of resultChan
  Answers   \* what a member may answer; checkGame's never say yes

ASSUME FanOutAssumption ==
  /\ IsFiniteSet(Member)
  /\ Capacity = 1
  /\ Answers \subseteq {"yes", "no", "failed"}
  /\ "failed" \in Answers

VARIABLES
  task,     \* task[m]: the goroutine that asks m
  said,     \* said[m]: what it heard
  wg,       \* the WaitGroup: goroutines that have not called Done
  buffered, \* values in resultChan, all of them true
  closed,   \* close(resultChan) was called
  result,   \* what the caller returned
  panicked  \* a goroutine sent on the closed channel

vars == <<task, said, wg, buffered, closed, result, panicked>>

Init ==
  /\ task = [m \in Member |-> "asking"]
  /\ said = [m \in Member |-> "pending"]
  /\ wg = Cardinality(Member)
  /\ buffered = 0
  /\ closed = FALSE
  /\ result = "none"
  /\ panicked = FALSE

\* client.Do and the decoding of its answer; the client gives up after 600 ms.
\* Without a yes the goroutine returns, and its deferred Done runs.
Hear(m) ==
  /\ task[m] = "asking"
  /\ \E v \in Answers :
       /\ said' = [said EXCEPT ![m] = v]
       /\ task' = [task EXCEPT ![m] = IF v = "yes" THEN "reporting" ELSE "returning"]
  /\ UNCHANGED <<wg, buffered, closed, result, panicked>>

\* Mutation of Report: the channel has no buffer, so the default is taken while
\* the caller is not receiving yet.
ReportUnbuffered(m) ==
  /\ task[m] = "reporting"
  /\ task' = [task EXCEPT ![m] = "returning"]
  /\ \/ ~closed /\ buffered < Capacity /\ buffered' = buffered + 1
     \/ UNCHANGED buffered
  /\ UNCHANGED <<said, wg, closed, result, panicked>>

\* Mutation of Report: a plain send instead of the select with a default.
ReportBlocking(m) ==
  /\ task[m] = "reporting"
  /\ buffered < Capacity
  /\ task' = [task EXCEPT ![m] = "returning"]
  /\ buffered' = buffered + 1
  /\ UNCHANGED <<said, wg, closed, result, panicked>>

\* The select: write if there is room, else go on.
Report(m) ==
  /\ task[m] = "reporting"
  /\ task' = [task EXCEPT ![m] = "returning"]
  /\ panicked' = (panicked \/ closed)
  /\ IF ~closed /\ buffered < Capacity
     THEN buffered' = buffered + 1
     ELSE UNCHANGED buffered
  /\ UNCHANGED <<said, wg, closed, result>>

\* The deferred wg.Done.
Leave(m) ==
  /\ task[m] = "returning"
  /\ task' = [task EXCEPT ![m] = "done"]
  /\ wg' = wg - 1
  /\ UNCHANGED <<said, buffered, closed, result, panicked>>

\* Mutation of CloseChannel: the channel is closed without the wait.
CloseChannelEarly ==
  /\ ~closed
  /\ closed' = TRUE
  /\ UNCHANGED <<task, said, wg, buffered, result, panicked>>

\* The goroutine of wg.Wait.
CloseChannel ==
  /\ wg = 0
  /\ ~closed
  /\ closed' = TRUE
  /\ UNCHANGED <<task, said, wg, buffered, result, panicked>>

\* result, ok := <-resultChan; return ok && result.
Receive ==
  /\ result = "none"
  /\ \/ /\ buffered > 0
        /\ buffered' = buffered - 1
        /\ result' = "true"
     \/ /\ buffered = 0
        /\ closed
        /\ result' = "false"
        /\ UNCHANGED buffered
  /\ UNCHANGED <<task, said, wg, closed, panicked>>

Goroutine(m) == Hear(m) \/ Report(m) \/ Leave(m)

Next == (\E m \in Member : Goroutine(m)) \/ CloseChannel \/ Receive

Spec == Init /\ [][Next]_vars

\* Runnable goroutines run, and a request ends by its timeout at the latest.
FairSpec ==
  /\ Spec
  /\ \A m \in Member : WF_vars(Goroutine(m))
  /\ WF_vars(CloseChannel)
  /\ WF_vars(Receive)

-----------------------------------------------------------------------------
TypeOK ==
  /\ task \in [Member -> {"asking", "reporting", "returning", "done"}]
  /\ said \in [Member -> {"pending", "yes", "no", "failed"}]
  /\ wg \in Int
  /\ buffered \in 0 .. Capacity
  /\ closed \in BOOLEAN
  /\ result \in {"none", "true", "false"}
  /\ panicked \in BOOLEAN

\* A yes is never lost between the goroutines, the channel and the caller, and
\* no answer is given before it is due: the calls implement AnyOf.
Question == INSTANCE AnyOf WITH Pending <- "pending"

ImplementsAnyOf == Question!Spec

\* No goroutine writes to the channel after it was closed, however late its
\* member answers, so none panics and ends the server.
NoSendOnClosed == ~panicked

\* The caller returns and every goroutine ends, also those whose answer nobody
\* waits for any more: the default of the select is what lets them go.
EverythingEnds == <>(result # "none" /\ closed)
=============================================================================
