------------------------------- MODULE RaftLog -------------------------------
(***************************************************************************)
(* The service that hashicorp/raft gives the servers, from how the code    *)
(* uses it: NewRaft in main.go, State, Apply and Error in                  *)
(* applyLogInternal.  It is external code: one log whose committed prefix  *)
(* never changes, at most one leader that can commit, and a change of      *)
(* leader that may lose any part of the uncommitted suffix.                *)
(*                                                                         *)
(* A deposed server that still believes it leads needs no state of its     *)
(* own: it commits nothing and applies nothing new until it steps down, so *)
(* what it does meanwhile can be moved before LoseLeadership.              *)
(***************************************************************************)
EXTENDS Naturals, Sequences

CONSTANTS Node, NoNode, MaxElections

ASSUME RaftAssumption ==
  /\ NoNode \notin Node
  /\ MaxElections \in Nat

VARIABLES
  log,          \* the commands of the log, in order
  commitIndex,  \* how many of them are committed
  leader,       \* the server whose State() is Leader, or NoNode
  elections     \* how many leaders were elected (bounded by MaxElections)

raftVars == <<log, commitIndex, leader, elections>>

RaftInit(first) ==
  /\ log = <<>>
  /\ commitIndex = 0
  /\ leader = first
  /\ elections = 0

\* The leader appends a command to its log.
RaftPropose(cmd) ==
  /\ leader # NoNode
  /\ log' = Append(log, cmd)
  /\ UNCHANGED <<commitIndex, leader, elections>>

\* A quorum stored the next command of the leader's log.
RaftCommit ==
  /\ leader # NoNode
  /\ commitIndex < Len(log)
  /\ commitIndex' = commitIndex + 1
  /\ UNCHANGED <<log, leader, elections>>

\* The leader steps down: it lost its quorum or saw a newer term.  Only while
\* another election is within the bound, so that the bound stops no cluster.
RaftStepDown ==
  /\ leader # NoNode
  /\ elections < MaxElections
  /\ leader' = NoNode
  /\ UNCHANGED <<log, commitIndex, elections>>

\* Mutation of RaftElect: the winner may lack committed commands.
RaftElectForgets(n) ==
  /\ leader = NoNode
  /\ leader' = n
  /\ elections' = elections + 1
  /\ \E k \in 0 .. Len(log) : log' = SubSeq(log, 1, k)
  /\ UNCHANGED commitIndex

\* A server with every committed command wins; it may lack any others.
RaftElect(n) ==
  /\ leader = NoNode
  /\ leader' = n
  /\ elections' = elections + 1
  /\ \E k \in commitIndex .. Len(log) : log' = SubSeq(log, 1, k)
  /\ UNCHANGED commitIndex

\* A server stops; what it stored stays in the log.
RaftCrash(n) ==
  /\ leader' = IF leader = n THEN NoNode ELSE leader
  /\ UNCHANGED <<log, commitIndex, elections>>
=============================================================================
