------------------------------ MODULE MCLogin ------------------------------
(* Small instances of Login for TLC. *)
EXTENDS Login, TLC

Symmetry == Permutations(Reqs)
=============================================================================
