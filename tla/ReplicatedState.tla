--------------------------- MODULE ReplicatedState ---------------------------
(***************************************************************************)
(* What the README promises of a replicated store: the cluster decides one *)
(* sequence of states, and every server always shows one of them.  It      *)
(* moves to the next state or catches up with what another server stored,  *)
(* and falls back only to what it stored itself.                           *)
(***************************************************************************)
EXTENDS Naturals, Sequences

CONSTANTS Server, State

VARIABLES
  history,  \* the decided states, the initial one first
  pos,      \* pos[n]: which of them server n is at
  stored,   \* stored[n]: which of them n has on disk
  view      \* view[n]: what n answers from

vars == <<history, pos, stored, view>>

Init ==
  /\ history \in Seq(State)
  /\ Len(history) = 1
  /\ view = [n \in Server |-> history[1]]
  /\ pos = [n \in Server |-> 1]
  /\ stored = pos

\* The cluster decides the next state; no decided state ever changes.
Decide ==
  /\ history' \in Seq(State)
  /\ Len(history') = Len(history) + 1
  /\ SubSeq(history', 1, Len(history)) = history
  /\ UNCHANGED <<pos, stored, view>>

Show(n, i) ==
  /\ pos' = [pos EXCEPT ![n] = i]
  /\ view' = [view EXCEPT ![n] = history[i]]
  /\ UNCHANGED history

Learn(n) == pos[n] < Len(history) /\ Show(n, pos[n] + 1) /\ UNCHANGED stored

CatchUp(n) ==
  \E m \in Server : /\ stored[m] > pos[n]
                    /\ Show(n, stored[m])
                    /\ stored' = [stored EXCEPT ![n] = stored[m]]

Save(n) ==
  /\ stored' = [stored EXCEPT ![n] = pos[n]]
  /\ UNCHANGED <<history, pos, view>>

Recover(n) == Show(n, stored[n]) /\ UNCHANGED stored

Next ==
  \/ Decide
  \/ \E n \in Server : Learn(n) \/ CatchUp(n) \/ Save(n) \/ Recover(n)

Spec == Init /\ [][Next]_vars
=============================================================================
