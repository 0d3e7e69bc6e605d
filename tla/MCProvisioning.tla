--------------------------- MODULE MCProvisioning ---------------------------
(* Small instances of Provisioning for TLC. *)
EXTENDS Provisioning, TLC

Symmetric == Permutations(Tokens) \cup Permutations(Reqs) \cup Permutations(Tenants)
=============================================================================
