---------------------------- MODULE MCSelectChat ----------------------------
(* Instances of SelectChat for TLC: the .cfg files SelectChat*.cfg. *)
EXTENDS SelectChat
=============================================================================
