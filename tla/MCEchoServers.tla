--------------------------- MODULE MCEchoServers ----------------------------
(* Instances of EchoServers for TLC. *)
EXTENDS EchoServers
CONSTANT a

\* One client on the first port, the others on the second.
MCPortOf == [x \in Clients |-> IF x = a THEN 1 ELSE 2]
=============================================================================
