---------------------------- MODULE MCRepository ----------------------------
(* Repository for TLC. Execution ids and processes are interchangeable: no action *)
(* and no invariant tells one from another.                                       *)
EXTENDS Repository, TLC

Symmetry == Permutations(Ids) \cup Permutations(Procs)

=============================================================================
