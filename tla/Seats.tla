------------------------------- MODULE Seats -------------------------------
(***************************************************************************)
(* What the seats of a tenant promise its administrator, whatever requests *)
(* overlap (InviteService, UserService.deactivate): an invitation is       *)
(* offered as if everything it depends on were looked at in one moment: a  *)
(* seat is left, its address is not a user's, and no other invitation      *)
(* waits for it.  An invitation brings one user, who comes once and never  *)
(* again after leaving.                                                    *)
(*                                                                         *)
(* An invitation that has lapsed may still be taken, by an answer that     *)
(* began before it did: the one way to more users than there are seats.    *)
(***************************************************************************)
EXTENDS Naturals, FiniteSets

CONSTANTS
    People, Invitations,
    Cap             \* how many seats there are

VARIABLES
    seat,           \* what each person is in the tenant: "none", "active" or "deactivated"
    offer           \* whom each invitation is for, and its state

vars == <<seat, offer>>

Seated  == {p \in People : seat[p] = "active"}
Waiting == {i \in Invitations : offer[i].state = "pending"}

Init ==
    /\ seat \in [People -> {"none", "active"}]
    /\ Cardinality(Seated) <= Cap
    /\ \A i \in Invitations : offer[i].state = "none"

Offer(i, p) ==
    /\ offer[i].state = "none"
    /\ seat[p] = "none"
    /\ \A j \in Waiting : offer[j].to # p
    /\ Cardinality(Seated) + Cardinality(Waiting) < Cap
    /\ offer' = [offer EXCEPT ![i] = [to |-> p, state |-> "pending"]]
    /\ UNCHANGED seat

Take(i) ==
    LET p == offer[i].to
    IN  /\ offer[i].state \in {"pending", "expired"}
        /\ seat[p] = "none"
        /\ seat' = [seat EXCEPT ![p] = "active"]
        /\ offer' = [offer EXCEPT ![i] = [to |-> p, state |-> "accepted"]]

Lapse(i) ==
    /\ offer[i].state = "pending"
    /\ offer' = [offer EXCEPT ![i] = [to |-> offer[i].to, state |-> "expired"]]
    /\ UNCHANGED seat

Leave(p) ==
    /\ seat[p] = "active"
    /\ seat' = [seat EXCEPT ![p] = "deactivated"]
    /\ UNCHANGED offer

Next ==
    \/ \E i \in Invitations : Take(i) \/ Lapse(i) \/ \E p \in People : Offer(i, p)
    \/ \E p \in People : Leave(p)

Spec == Init /\ [][Next]_vars
=============================================================================
