---------------------------- MODULE MCTurnTaking -----------------------------
(* Instances of TurnTaking for TLC. *)
EXTENDS TurnTaking, TLC

ClientSymmetry == Permutations(Clients)
=============================================================================
