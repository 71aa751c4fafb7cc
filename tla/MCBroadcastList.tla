--------------------------- MODULE MCBroadcastList --------------------------
(* Instances of BroadcastList for TLC: its constants are all given in the cfg. *)
EXTENDS BroadcastList
=============================================================================
