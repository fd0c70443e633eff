------------------------- MODULE MCConnectionManager -------------------------
(* Numbers, clients and helpers are interchangeable among themselves. *)
EXTENDS ConnectionManager, TLC

Symmetry == Permutations(Fds) \cup Permutations(Clients) \cup Permutations(Helpers)
=============================================================================
