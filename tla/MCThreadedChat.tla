--------------------------- MODULE MCThreadedChat ---------------------------
(* Instances of ThreadedChat for TLC. *)
EXTENDS ThreadedChat

\* Clients are interchangeable with those of the same role, where the clients
\* that leave are those that speak or are none: descriptors and entries are
\* given by position.
RoleSymmetry == Permutations(Speakers) \union Permutations(Clients \ Speakers)
=============================================================================
