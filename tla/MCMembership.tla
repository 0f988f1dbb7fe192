---------------------------- MODULE MCMembership -----------------------------
(***************************************************************************)
(* Instances of Membership: the bootstrap server s1 and others that start  *)
(* at an address of their own and may come back at the free one.           *)
(***************************************************************************)
EXTENDS Membership, TLC

CONSTANTS s1, s2, s3, a1, a2, a3, free

Homes == (s1 :> a1) @@ (s2 :> a2) @@ (s3 :> a3)
=============================================================================
