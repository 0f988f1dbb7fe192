---------------------------- MODULE MCForwarding -----------------------------
(***************************************************************************)
(* The deployments Forwarding is checked for: a host for each server, and  *)
(* all servers on one host, where the bootstrap server has port 8080 and   *)
(* the others have 8081 and 8082 (src/README.md, src/server/makefile).     *)
(***************************************************************************)
EXTENDS Forwarding

CONSTANT Boot

HostEach == [s \in Server |-> s]
OneHost == [s \in Server |-> Boot]
BothDeployments == {HostEach, OneHost}
=============================================================================
