---------------------------- MODULE MCStreamPair ----------------------------
(* Instances of StreamPair for TLC: its constants are all given in the cfg. *)
EXTENDS StreamPair
=============================================================================
