------------------------------ MODULE MCLogin --------------------------------
(***************************************************************************)
(* Instances of Login.  Clients and servers are interchangeable, and only  *)
(* safety is checked, so TLC may permute them.                             *)
(***************************************************************************)
EXTENDS Login, TLC

Symmetry == Permutations(Client) \cup Permutations(Server)
=============================================================================
