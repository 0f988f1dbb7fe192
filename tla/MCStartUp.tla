------------------------------ MODULE MCStartUp -------------------------------
(***************************************************************************)
(* Instances of StartUp: s1 and s2 share a host, whose port 8080 is s1's,  *)
(* as the makefile starts them; s3 has a host of its own.                  *)
(***************************************************************************)
EXTENDS StartUp, TLC

CONSTANTS s1, s2, s3, raft1, raft2, raft3

Hosts == (raft1 :> s1) @@ (raft2 :> s1) @@ (raft3 :> s3)

Addresses == (s1 :> raft1) @@ (s2 :> raft2) @@ (s3 :> raft3)

SamePeerTwice == <<raft1, raft1>>
=============================================================================
