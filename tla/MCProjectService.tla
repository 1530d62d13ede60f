-------------------------- MODULE MCProjectService --------------------------
(* Clients and projects are interchangeable. *)
EXTENDS ProjectService, TLC

Symmetry == Permutations(Clients) \cup Permutations(Projects)
=============================================================================
