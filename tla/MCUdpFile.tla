------------------------------ MODULE MCUdpFile -----------------------------
(* Instances of UdpFile for TLC. *)
EXTENDS UdpFile
=============================================================================
