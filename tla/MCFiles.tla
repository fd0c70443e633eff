------------------------------- MODULE MCFiles -------------------------------
(* Helpers are interchangeable, and so are names. *)
EXTENDS Files, TLC
Symmetry == Permutations(Helpers) \cup Permutations(Names)
FinalPaths == {Final(n) : n \in Names}
=============================================================================
