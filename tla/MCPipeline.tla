----------------------------- MODULE MCPipeline -----------------------------
(* Small instances of Pipeline for TLC. *)
EXTENDS Pipeline, TLC

Symmetric     == Permutations(Reqs)
\* Where the tenant begins with all of the stages.
AllSymmetric  == Symmetric \cup Permutations(Stages)
=============================================================================
