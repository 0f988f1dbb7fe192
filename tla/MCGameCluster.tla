---------------------------- MODULE MCGameCluster ----------------------------
(* Small instances of GameCluster for TLC; the configurations give the       *)
(* constants their values.                                                   *)
EXTENDS GameCluster, TLC

\* Executions are interchangeable, and so are the servers: no action prefers one.
Symmetry == Permutations(Op) \cup Permutations(Node)
=============================================================================
