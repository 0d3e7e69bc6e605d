----------------------------- MODULE Membership -----------------------------
(***************************************************************************)
(* The members of one tenant of the CRM: its users with their role, status *)
(* and MFA status, and its invitations.  Models UserService (deactivate,   *)
(* change_role), InviteService (create, accept) and the MFA enrolment of   *)
(* AuthService, as requests that run concurrently, each with a database    *)
(* session of its own.                                                     *)
(*                                                                         *)
(* A request that deactivates a user or changes a role loads the user when *)
(* it starts and keeps the object: it is not read again when the request   *)
(* later locks the tenant, so the request acts on the values it has seen.  *)
(* Its writes become visible at its commit, which writes the attributes    *)
(* whose new value differs from the one seen (operator Flush).  An         *)
(* enrolment reads its user under the lock of the row.                     *)
(*                                                                         *)
(* Two kinds of rows are locked: that of the tenant (variable lock) and    *)
(* that of a user who enrols (HoldsRow).  They are taken in both orders.   *)
(***************************************************************************)
EXTENDS Integers, FiniteSets

CONSTANTS
    People,     \* e-mail addresses, each of at most one user of the platform
    Staff,      \* the people who are users of the tenant at the start
    Invites,    \* identities of the invitations created during a behaviour
    Reqs,       \* slots for requests being served at the same time
    SeatCap,    \* tenants.seat_cap
    AskedRoles, \* the roles that requests give to a user or an invitation
    None        \* absence of a value, of a lock holder

Roles     == {"administrador", "gerente", "vendedor"}
MfaRoles  == {"administrador", "gerente"}
MfaStates == {"not_required", "pending", "enrolled"}

ASSUME PeopleAssumption  == IsFiniteSet(People) /\ Staff \subseteq People
ASSUME InvitesAssumption == IsFiniteSet(Invites)
ASSUME SeatCapAssumption == SeatCap \in Nat /\ Cardinality(Staff) <= SeatCap
ASSUME RolesAssumption   == AskedRoles \subseteq Roles
ASSUME NoneAssumption    == None \notin Reqs \cup Invites \cup Roles

VARIABLES
    role, status, mfa,  \* columns of catalog.users, status "none": no row
    elsewhere,          \* addresses taken by users of other tenants
    invite,             \* rows of catalog.invites
    lock,               \* request that holds the tenant row FOR UPDATE
    req,                \* what each request slot is doing
    staleRole,          \* history: some commit acted on a role no longer current
    slips               \* history: accepts committed after their invite expired

users   == <<role, status, mfa>>
history == <<staleRole, slips>>
vars    == <<role, status, mfa, elsewhere, invite, lock, req, staleRole, slips>>

-----------------------------------------------------------------------------
(* Requests. *)

\* A request: where it is, the user or address and the role it is about, the
\* columns it has seen, its invitation, who invites and its count of active users.
Request(pc, who, ask, seenRole, seenMfa, inv, by) ==
    [pc |-> pc, who |-> who, ask |-> ask, seenRole |-> seenRole,
     seenMfa |-> seenMfa, inv |-> inv, by |-> by, active |-> 0]

Idle == Request("idle", None, None, None, None, None, None)

Holding == {"deactivate_checked", "change_role_checked", "invite_checked", "invite_counted"}
Waiting == {"deactivate", "change_role", "invite", "enroll", "enroll_locked", "accept"}

Begin(r, q)      == req[r] = Idle /\ req' = [req EXCEPT ![r] = q]
Goto(r, pc)      == req' = [req EXCEPT ![r].pc = pc]
Finish(r)        == req' = [req EXCEPT ![r] = Idle]

Acquire(r) == lock = None /\ lock' = r

\* Mutant: the row is never given back.
ReleaseForgotten(r) == UNCHANGED lock

Release(r) == lock' = IF lock = r THEN None ELSE lock

\* An enrolment holds the row of its user FOR UPDATE.
HoldsRow(r, p) == req[r].pc = "enroll_locked" /\ req[r].who = p
RowFree(p)     == \A r \in Reqs : ~HoldsRow(r, p)

\* What the unit of work leaves in a column: an attribute set to the value it
\* was loaded with is not part of the UPDATE.
Flush(seen, new, current) == IF new = seen THEN current ELSE new

-----------------------------------------------------------------------------
(* Readings of the tables. *)

Active       == {p \in People : status[p] = "active"}
ActiveAdmins == {p \in Active : role[p] = "administrador"}
Pending      == {i \in Invites : invite[i].state = "pending"}
Known        == elsewhere \cup {p \in People : status[p] # "none"}

\* Who may manage users now: the active administrators whose session has full
\* scope, which a pending second factor takes away.
Managers == {p \in ActiveAdmins : mfa[p] # "pending"}

NoInvite == [email |-> None, role |-> None, state |-> "none"]

Init ==
    /\ role \in {f \in [People -> Roles] : \A p \in People \ Staff : f[p] = "vendedor"}
    /\ \E p \in Staff : role[p] = "administrador"
    /\ status = [p \in People |-> IF p \in Staff THEN "active" ELSE "none"]
    /\ mfa = [p \in People |-> IF role[p] \in MfaRoles THEN "enrolled" ELSE "not_required"]
    /\ elsewhere = {}
    /\ invite = [i \in Invites |-> NoInvite]
    /\ lock = None
    /\ req = [r \in Reqs |-> Idle]
    /\ staleRole = FALSE
    /\ slips = 0

-----------------------------------------------------------------------------
(* Deactivation and change of role. *)

\* The caller is checked and the target row loaded, before any lock.
LoadDeactivate(r, p) ==
    /\ Managers # {}
    /\ status[p] = "active"
    /\ Begin(r, Request("deactivate", p, None, role[p], None, None, None))
    /\ UNCHANGED <<users, elsewhere, invite, lock, history>>

LoadChangeRole(r, p, k) ==
    /\ Managers # {}
    /\ status[p] = "active"
    /\ Begin(r, Request("change_role", p, k, role[p], mfa[p], None, None))
    /\ UNCHANGED <<users, elsewhere, invite, lock, history>>

\* Mutant: the comparison is off by one.
LastAdminOffByOne(r) ==
    /\ req[r].seenRole = "administrador"
    /\ req[r].ask # "administrador"
    /\ Cardinality(ActiveAdmins) <= 0

\* Taking the loaded role from its owner is refused when the fresh count of
\* active administrators is at most one.
LastAdmin(r) ==
    /\ req[r].seenRole = "administrador"
    /\ req[r].ask # "administrador"
    /\ Cardinality(ActiveAdmins) <= 1

CheckLastAdmin(r, from, to) ==
    /\ req[r].pc = from
    /\ lock = None
    /\ \/ LastAdmin(r) /\ Finish(r) /\ UNCHANGED lock
       \/ ~LastAdmin(r) /\ Goto(r, to) /\ Acquire(r)
    /\ UNCHANGED <<users, elsewhere, invite, history>>

CheckDeactivate(r) == CheckLastAdmin(r, "deactivate", "deactivate_checked")
CheckChangeRole(r) == CheckLastAdmin(r, "change_role", "change_role_checked")

NoteStale(r) == staleRole' = (staleRole \/ req[r].seenRole # role[req[r].who])

\* The UPDATE of the user waits for an enrolment that holds the row.
CommitDeactivate(r) ==
    /\ req[r].pc = "deactivate_checked"
    /\ RowFree(req[r].who)
    /\ status' = [status EXCEPT ![req[r].who] = "deactivated"]
    /\ NoteStale(r)
    /\ Release(r)
    /\ Finish(r)
    /\ UNCHANGED <<role, mfa, elsewhere, invite, slips>>

\* Mutant: only the administrator is held to a second factor.
MfaForAdminOnly(k) == IF k = "administrador" THEN "pending" ELSE "not_required"

MfaFor(k) == IF k \in MfaRoles THEN "pending" ELSE "not_required"

CommitChangeRole(r) ==
    /\ req[r].pc = "change_role_checked"
    /\ RowFree(req[r].who)
    /\ role' = [role EXCEPT ![req[r].who] = Flush(req[r].seenRole, req[r].ask, @)]
    /\ mfa' = [mfa EXCEPT ![req[r].who] = Flush(req[r].seenMfa, MfaFor(req[r].ask), @)]
    /\ NoteStale(r)
    /\ Release(r)
    /\ Finish(r)
    /\ UNCHANGED <<status, elsewhere, invite, slips>>

-----------------------------------------------------------------------------
(* Enrolment of a second factor: the user's row first, the tenant's next.  *)

\* The caller is authenticated; the row is read by the handler.
LoadEnroll(r, p) ==
    /\ status[p] = "active"
    /\ Begin(r, Request("enroll", p, None, None, None, None, None))
    /\ UNCHANGED <<users, elsewhere, invite, lock, history>>

\* The row is read FOR UPDATE, and must be pending.
LockEnroll(r) ==
    /\ req[r].pc = "enroll"
    /\ RowFree(req[r].who)
    /\ IF mfa[req[r].who] = "pending" THEN Goto(r, "enroll_locked") ELSE Finish(r)
    /\ UNCHANGED <<users, elsewhere, invite, lock, history>>

\* Mutant: the wrong column value is written.
CommitEnrollActive(r) ==
    /\ req[r].pc = "enroll_locked"
    /\ lock = None
    /\ mfa' = [mfa EXCEPT ![req[r].who] = "active"]
    /\ Finish(r)
    /\ UNCHANGED <<role, status, elsewhere, invite, lock, history>>

\* The INSERT of the audit event takes a key-share lock on the tenant row (its
\* foreign key), so it waits for a FOR UPDATE lock to be released.
CommitEnroll(r) ==
    /\ req[r].pc = "enroll_locked"
    /\ lock = None
    /\ mfa' = [mfa EXCEPT ![req[r].who] = "enrolled"]
    /\ Finish(r)
    /\ UNCHANGED <<role, status, elsewhere, invite, lock, history>>

-----------------------------------------------------------------------------
(* Invitations. *)

\* Bound of the model: an identity is left for every creation in flight.
IdentitiesLeft ==
    Cardinality({i \in Invites : invite[i].state = "none"})
        > Cardinality({s \in Reqs : req[s].pc \in {"invite", "invite_checked", "invite_counted"}})

LoadInvite(r, p, k) ==
    /\ IdentitiesLeft
    /\ \E by \in Managers : Begin(r, Request("invite", p, k, None, None, None, by))
    /\ UNCHANGED <<users, elsewhere, invite, lock, history>>

EmailTaken(p) == p \in Known \/ \E i \in Pending : invite[i].email = p

\* Mutant: the tenant row is not locked.
CheckInviteUnlocked(r) ==
    /\ req[r].pc = "invite"
    /\ \/ EmailTaken(req[r].who) /\ Finish(r)
       \/ ~EmailTaken(req[r].who) /\ Goto(r, "invite_checked")
    /\ UNCHANGED <<users, elsewhere, invite, lock, history>>

CheckInvite(r) ==
    /\ req[r].pc = "invite"
    /\ lock = None
    /\ \/ EmailTaken(req[r].who) /\ Finish(r) /\ UNCHANGED lock
       \/ ~EmailTaken(req[r].who) /\ Goto(r, "invite_checked") /\ Acquire(r)
    /\ UNCHANGED <<users, elsewhere, invite, history>>

\* The two halves of the occupied seats are counted by two statements.
CountActive(r) ==
    /\ req[r].pc = "invite_checked"
    /\ req' = [req EXCEPT ![r].pc = "invite_counted", ![r].active = Cardinality(Active)]
    /\ UNCHANGED <<users, elsewhere, invite, lock, history>>

\* Mutant: the last seat is given twice.
SeatsLeftOffByOne(r) == req[r].active + Cardinality(Pending) <= SeatCap

SeatsLeft(r) == req[r].active + Cardinality(Pending) < SeatCap

\* The INSERT takes a key-share lock on the row of the user who invites, and
\* waits for an enrolment that holds it.
InsertInvite(r) ==
    /\ req[r].pc = "invite_counted"
    /\ \/ ~SeatsLeft(r) /\ UNCHANGED invite
       \/ /\ SeatsLeft(r)
          /\ RowFree(req[r].by)
          /\ \E i \in Invites :
                /\ invite[i].state = "none"
                /\ invite' = [invite EXCEPT ![i] =
                       [email |-> req[r].who, role |-> req[r].ask, state |-> "pending"]]
    /\ Release(r)
    /\ Finish(r)
    /\ UNCHANGED <<users, elsewhere, history>>

\* The invitation row is locked until the end of the request; then the
\* password is hashed, which takes a while.
LoadAccept(r, i) ==
    /\ invite[i].state = "pending"
    /\ \A s \in Reqs : req[s].inv # i
    /\ invite[i].email \notin Known
    /\ Begin(r, Request("accept", None, None, None, None, i, None))
    /\ UNCHANGED <<users, elsewhere, invite, lock, history>>

\* Mutant: no unique index on the address.
CommitAcceptBlind(r) ==
    LET i == req[r].inv
        p == invite[i].email
    IN  /\ req[r].pc = "accept"
        /\ lock = None
        /\ role' = [role EXCEPT ![p] = invite[i].role]
        /\ status' = [status EXCEPT ![p] = "active"]
        /\ mfa' = [mfa EXCEPT ![p] = MfaFor(invite[i].role)]
        /\ invite' = [invite EXCEPT ![i].state = "accepted"]
        /\ slips' = slips + IF invite[i].state = "expired" THEN 1 ELSE 0
        /\ Finish(r)
        /\ UNCHANGED <<elsewhere, lock, staleRole>>

\* Inserting the user takes a key-share lock on the tenant row (its foreign
\* key), so it waits for a FOR UPDATE lock to be released; the unique index
\* on the address turns a late conflict into a rollback.
CommitAccept(r) ==
    LET i == req[r].inv
        p == invite[i].email
    IN  /\ req[r].pc = "accept"
        /\ lock = None
        /\ IF p \in Known
           THEN UNCHANGED <<users, invite, slips>>
           ELSE /\ role' = [role EXCEPT ![p] = invite[i].role]
                /\ status' = [status EXCEPT ![p] = "active"]
                /\ mfa' = [mfa EXCEPT ![p] = MfaFor(invite[i].role)]
                /\ invite' = [invite EXCEPT ![i].state = "accepted"]
                /\ slips' = slips + IF invite[i].state = "expired" THEN 1 ELSE 0
        /\ Finish(r)
        /\ UNCHANGED <<elsewhere, lock, staleRole>>

-----------------------------------------------------------------------------
(* The environment. *)

\* 72 hours pass, perhaps while the acceptance is being served.
Expire(i) ==
    /\ invite[i].state = "pending"
    /\ invite' = [invite EXCEPT ![i].state = "expired"]
    /\ UNCHANGED <<users, elsewhere, lock, req, history>>

\* Someone signs up with an address of their own company, invited or not.
SignupElsewhere(p) ==
    /\ p \notin Known
    /\ elsewhere' = elsewhere \cup {p}
    /\ UNCHANGED <<users, invite, lock, req, history>>

\* A failing call, a lost client or a restart: the transaction is rolled back.
Abort(r) ==
    /\ req[r] # Idle
    /\ Release(r)
    /\ Finish(r)
    /\ UNCHANGED <<users, elsewhere, invite, history>>

\* A request that has the tenant row waits for a user's row to write.
WaitsForRow(r, p) ==
    \/ req[r].pc \in {"deactivate_checked", "change_role_checked"} /\ p = req[r].who
    \/ req[r].pc = "invite_counted" /\ SeatsLeft(r) /\ p = req[r].by

\* The one that holds it waits for the tenant row in turn.
Deadlocked(r, s) == \E p \in People : WaitsForRow(r, p) /\ HoldsRow(s, p)

\* PostgreSQL notices the cycle and ends one of the two transactions.
BreakDeadlock(r, s) ==
    /\ Deadlocked(r, s)
    /\ \E victim \in {r, s} : Release(victim) /\ Finish(victim)
    /\ UNCHANGED <<users, elsewhere, invite, history>>

-----------------------------------------------------------------------------

Step(r) ==
    \/ CheckDeactivate(r) \/ CommitDeactivate(r)
    \/ CheckChangeRole(r) \/ CommitChangeRole(r)
    \/ LockEnroll(r) \/ CommitEnroll(r)
    \/ CheckInvite(r) \/ CountActive(r) \/ InsertInvite(r)
    \/ CommitAccept(r)

Start(r) ==
    \/ \E p \in People : LoadDeactivate(r, p) \/ LoadEnroll(r, p)
    \/ \E p \in People, k \in AskedRoles :
          LoadChangeRole(r, p, k) \/ LoadInvite(r, p, k)
    \/ \E i \in Invites : LoadAccept(r, i)

Next ==
    \/ \E r \in Reqs : Start(r) \/ Step(r) \/ Abort(r)
    \/ \E r, s \in Reqs : BreakDeadlock(r, s)
    \/ \E i \in Invites : Expire(i)
    \/ \E p \in People : SignupElsewhere(p)

\* A request that has been read is served: the event loop runs every coroutine
\* that is ready, and PostgreSQL grants a row lock in the order of arrival, so
\* that a waiting request is not overtaken for ever.  It looks for cycles of waiting
\* requests (deadlock_timeout), and ends them.
Fairness ==
    /\ \A r \in Reqs : SF_vars(Step(r))
    /\ WF_vars(\E r, s \in Reqs : BreakDeadlock(r, s))

Spec == Init /\ [][Next]_vars /\ Fairness

-----------------------------------------------------------------------------
(* Properties. *)

Places == {"idle"} \cup Holding \cup Waiting

ReqType == [pc : Places, who : People \cup {None},
            ask : Roles \cup {None}, seenRole : Roles \cup {None},
            seenMfa : MfaStates \cup {None}, inv : Invites \cup {None},
            by : People \cup {None}, active : Nat]

InviteType == [email : People \cup {None}, role : Roles \cup {None},
               state : {"none", "pending", "expired", "accepted"}]

\* The type of the state.
TypeOK ==
    /\ role \in [People -> Roles]
    /\ status \in [People -> {"none", "active", "deactivated"}]
    /\ mfa \in [People -> MfaStates]
    /\ elsewhere \subseteq People
    /\ invite \in [Invites -> InviteType]
    /\ lock \in Reqs \cup {None}
    /\ req \in [Reqs -> ReqType]
    /\ staleRole \in BOOLEAN
    /\ slips \in Nat

Occupied == Cardinality(Active) + Cardinality(Pending)

\* Seats (invite_service.py:109-111): active users and live invitations never
\* exceed the cap by more than the acceptances that outlived their invitation.
SeatsUpToSlips == Occupied <= SeatCap + slips

\* The last administrator (user_service.py:88-90, 120-125): as long as every
\* commit acted on the current role of its target, the tenant keeps an active
\* administrator, whatever the interleaving of requests.
AdminRemains == ~staleRole => ActiveAdmins # {}

\* Second factor (user_service.py:128-132): as long as every commit acted on the
\* current role of its target, an active user in a role that needs a second
\* factor is enrolled or has to enrol.
MfaFollowsRole ==
    ~staleRole => \A p \in Active : role[p] \in MfaRoles => mfa[p] # "not_required"

\* One address, one tenant (email_identities_lower_email_idx): an accepted
\* invitation made a user of this tenant, no two made the same one, and no
\* address is a user here and elsewhere.
OneEmailOneTenant ==
    /\ \A p \in elsewhere : status[p] = "none"
    /\ \A i, j \in Invites :
          invite[i].state = "accepted" /\ invite[j].state = "accepted" =>
              status[invite[i].email] # "none" /\ (invite[i].email = invite[j].email => i = j)

\* Every request ends and gives its rows back, whatever it waits for, though the tenant
\* row and a user's are locked in both orders (user_service.py:87 and 103,
\* auth_service.py:419 and 431).
RequestsEnd == \A r \in Reqs : req[r] # Idle ~> req[r] = Idle

\* What user_service.py:28 tells the caller: a tenant is never left without an
\* administrator.
NeverAdminless == ActiveAdmins # {}

-----------------------------------------------------------------------------
(* What Seats promises. *)

OfferOf == [i \in Invites |-> [to |-> invite[i].email, state |-> invite[i].state]]

Promise == INSTANCE Seats WITH
               Invitations <- Invites, Cap <- SeatCap, seat <- status, offer <- OfferOf

\* The address is looked up, active users and live invitations are counted, and
\* the invitation is inserted by one statement after the other, while other
\* requests act (invite_service.py:84-140): each of their steps is one of Seats,
\* or changes nothing of it.
SeatsKept == Promise!Spec
=============================================================================
