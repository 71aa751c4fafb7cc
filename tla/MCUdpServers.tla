---------------------------- MODULE MCUdpServers ----------------------------
(* Instances of UdpServers for TLC. *)
EXTENDS UdpServers
CONSTANTS a, b, c

\* The last client comes to the port that the first one had.
MCAddrOf == [x \in Clients |-> CASE x = a -> "p" [] x = b -> "q" [] x = c -> "r" [] OTHER -> "p"]
=============================================================================
