------------------------------- MODULE MCArco -------------------------------
(* Small instances of Arco for TLC. *)
EXTENDS Arco, TLC

Symmetric == Permutations(Reqs) \cup Permutations(Rows)
=============================================================================
