---------------------------- MODULE MCMembership ----------------------------
(* Small instances of Membership for TLC. *)
EXTENDS Membership, TLC

RequestSymmetry == Permutations(Reqs)
=============================================================================
