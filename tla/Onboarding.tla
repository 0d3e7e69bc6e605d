----------------------------- MODULE Onboarding -----------------------------
(***************************************************************************)
(* What signing up promises a company, whoever provisions it and whatever  *)
(* stops on the way: it is registered, its address is verified, it is      *)
(* ready.  It goes through these phases in this order and none is skipped  *)
(* or taken back, with the one exception the code has: a verification      *)
(* that began before the address was verified may end after the company    *)
(* was ready, and makes it wait to be provisioned once more.               *)
(***************************************************************************)
CONSTANTS
    Companies,
    Verifications   \* the verifications that may be served at the same time

VARIABLES
    phase,          \* how far each company is
    late            \* the verifications that began before the address was verified

vars == <<phase, late>>

Init ==
    /\ phase = [c \in Companies |-> "none"]
    /\ late = [c \in Companies |-> {}]

Register(c) ==
    /\ phase[c] = "none"
    /\ phase' = [phase EXCEPT ![c] = "registered"]
    /\ UNCHANGED late

Start(c, v) ==
    /\ phase[c] = "registered"
    /\ late' = [late EXCEPT ![c] = @ \cup {v}]
    /\ UNCHANGED phase

Verify(c, v) ==
    /\ v \in late[c]
    /\ phase' = [phase EXCEPT ![c] = "verified"]
    /\ late' = [late EXCEPT ![c] = @ \ {v}]

Leave(c, v) ==
    /\ v \in late[c]
    /\ late' = [late EXCEPT ![c] = @ \ {v}]
    /\ UNCHANGED phase

MakeReady(c) ==
    /\ phase[c] = "verified"
    /\ phase' = [phase EXCEPT ![c] = "ready"]
    /\ UNCHANGED late

Next ==
    \E c \in Companies :
        \/ Register(c) \/ MakeReady(c)
        \/ \E v \in Verifications : Start(c, v) \/ Verify(c, v) \/ Leave(c, v)

Spec == Init /\ [][Next]_vars
=============================================================================
