---------------------------- MODULE MCJobServer ----------------------------
(* Small instances of JobServer for TLC. *)
EXTENDS JobServerInvariant, TLC

Symmetry == Permutations(Jobs) \union Permutations(Requests)
=============================================================================
