----------------------------- MODULE MCContacts -----------------------------
(* Small instances of Contacts for TLC. *)
EXTENDS Contacts, TLC

Symmetric == Permutations(Reqs) \cup Permutations(Contacts) \cup Permutations(Profiles)
=============================================================================
