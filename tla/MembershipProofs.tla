-------------------------- MODULE MembershipProofs --------------------------
(***************************************************************************)
(* Safety of Membership for every value of the constants.                  *)
(*                                                                         *)
(* Base, the first inductive invariant, says that the state is well typed, *)
(* that a request carries the arguments of its handler, and that it holds  *)
(* the tenant row exactly between its check and its commit.  The others    *)
(* are inductive relative to Base.                                         *)
(***************************************************************************)
EXTENDS Membership, FiniteSetTheorems, TLAPS

\* The argument fields a request uses, by what it is doing.
ArgsOK(q) ==
    /\ q.pc \in {"deactivate", "deactivate_checked"} =>
           q.who \in People /\ q.seenRole \in Roles /\ q.ask = None
    /\ q.pc \in {"change_role", "change_role_checked"} =>
           /\ q.who \in People
           /\ q.ask \in Roles
           /\ q.seenRole \in Roles
           /\ q.seenMfa \in MfaStates
    /\ q.pc \in {"enroll", "enroll_locked"} => q.who \in People
    /\ q.pc \in {"invite", "invite_checked", "invite_counted"} =>
           q.who \in People /\ q.ask \in Roles
    /\ q.pc = "accept" => q.inv \in Invites
    /\ q.pc # "accept" => q.inv = None

\* An invitation that exists names an address and a role.
InvitesOK ==
    \A i \in Invites : invite[i].state # "none" =>
        invite[i].email \in People /\ invite[i].role \in Roles

\* An acceptance in flight works on an invitation nobody has accepted yet.
AcceptsOK ==
    \A r \in Reqs : req[r].pc = "accept" =>
        /\ invite[req[r].inv].state \in {"pending", "expired"}
        /\ \A s \in Reqs : s # r => req[s].inv # req[r].inv

\* The tenant row belongs to the request between its check and its commit.
LockOK == \A r \in Reqs : lock = r <=> req[r].pc \in Holding

Base == /\ TypeOK
        /\ \A r \in Reqs : ArgsOK(req[r])
        /\ InvitesOK
        /\ AcceptsOK
        /\ LockOK

USE PeopleAssumption, InvitesAssumption, SeatCapAssumption, RolesAssumption, NoneAssumption

\* The state a tenant starts from satisfies the invariant.
LEMMA BaseInit == Init => Base
<1> SUFFICES ASSUME Init PROVE Base
  OBVIOUS
<1>1. TypeOK
  BY DEF Init, TypeOK, ReqType, InviteType, Places, Request, Idle, NoInvite, Roles, MfaRoles,
     MfaStates
<1>2. \A r \in Reqs : ArgsOK(req[r]) /\ req[r].pc = "idle"
  BY DEF Init, ArgsOK, Request, Idle
<1>3. InvitesOK /\ AcceptsOK /\ LockOK
  BY <1>2 DEF Init, InvitesOK, AcceptsOK, LockOK, NoInvite, Holding
<1>4. QED
  BY <1>1, <1>2, <1>3 DEF Base

\* A request that has moved to another place keeps its arguments.
Moved(q, c, n) == [pc |-> c, who |-> q.who, ask |-> q.ask, seenRole |-> q.seenRole,
                   seenMfa |-> q.seenMfa, inv |-> q.inv, by |-> q.by, active |-> n]

\* Changing the place of a request record, written without EXCEPT.
LEMMA MovedPlace ==
    ASSUME NEW q \in ReqType, NEW c
    PROVE  [q EXCEPT !.pc = c] = Moved(q, c, q.active)
  BY DEF ReqType, Moved

\* A moved request is a request.
LEMMA MovedType ==
    ASSUME NEW q \in ReqType, NEW c \in Places, NEW n \in Nat
    PROVE  Moved(q, c, n) \in ReqType
  BY DEF ReqType, Moved

\* Changing its place and its count, written without EXCEPT.
LEMMA MovedCount ==
    ASSUME NEW q \in ReqType, NEW c \in Places, NEW n
    PROVE  [q EXCEPT !.pc = c, !.active = n] = Moved(q, c, n)
<1>1. [q EXCEPT !.pc = c] = Moved(q, c, q.active)
  BY MovedPlace
<1>2. ASSUME NEW m \in ReqType PROVE [m EXCEPT !.active = n] = Moved(m, m.pc, n)
  BY DEF ReqType, Moved
<1>3. Moved(q, c, q.active) \in ReqType
  BY MovedType DEF ReqType
<1>4. [[q EXCEPT !.pc = c] EXCEPT !.active = n] = Moved(Moved(q, c, q.active), c, n)
  BY <1>1, <1>2, <1>3 DEF Moved
<1>5. QED
  BY <1>4 DEF Moved

\* The transaction that a deadlock costs is one that is being served.
LEMMA VictimAborts ==
    ASSUME NEW r \in Reqs, NEW s \in Reqs, BreakDeadlock(r, s)
    PROVE  \E v \in Reqs : Abort(v)
<1>1. req[r].pc # "idle" /\ req[s].pc # "idle"
  BY DEF BreakDeadlock, Deadlocked, WaitsForRow, HoldsRow
<1>2. req[r] # Idle /\ req[s] # Idle
  BY <1>1 DEF Idle, Request
<1>3. QED
  BY <1>2 DEF BreakDeadlock, Abort

\* One element more adds at most one to a cardinality.
LEMMA AddOne ==
    ASSUME NEW S, IsFiniteSet(S), NEW x
    PROVE  Cardinality(S \cup {x}) \in Nat /\ Cardinality(S \cup {x}) <= Cardinality(S) + 1
<1>1. IsFiniteSet(S \cup {x}) /\ Cardinality(S \cup {x}) \in {Cardinality(S), Cardinality(S) + 1}
  BY FS_AddElement
<1>2. Cardinality(S) \in Nat
  BY FS_CardinalityType
<1>3. QED
  BY <1>1, <1>2

\* Who is left when one of at least two leaves.
LEMMA OneOfTwoLeft ==
    ASSUME NEW S, IsFiniteSet(S), Cardinality(S) >= 2, NEW x
    PROVE  S \ {x} # {}
<1> SUFFICES ASSUME S \subseteq {x} PROVE FALSE
  OBVIOUS
<1>1. Cardinality(S) <= Cardinality({x}) /\ Cardinality({x}) = 1 /\ Cardinality(S) \in Nat
  BY FS_Singleton, FS_Subset, FS_CardinalityType
<1>2. QED
  BY <1>1

\* An accepted invitation keeps its address and its role.
LEMMA AcceptedInvite ==
    ASSUME invite \in [Invites -> InviteType], NEW i \in Invites
    PROVE  [invite EXCEPT ![i].state = "accepted"] =
               [invite EXCEPT ![i] = [email |-> invite[i].email, role |-> invite[i].role,
                                      state |-> "accepted"]]
<1>1. ASSUME NEW m \in InviteType
      PROVE  [m EXCEPT !.state = "accepted"] = [email |-> m.email, role |-> m.role, state |-> "accepted"]
  BY DEF InviteType
<1>2. invite[i] \in InviteType
  OBVIOUS
<1>3. QED
  BY <1>1, <1>2

\* The counted sets are finite.
LEMMA FiniteTables ==
    /\ IsFiniteSet(Active) /\ Cardinality(Active) \in Nat
    /\ IsFiniteSet(ActiveAdmins) /\ Cardinality(ActiveAdmins) \in Nat
    /\ IsFiniteSet(Pending) /\ Cardinality(Pending) \in Nat
  BY FS_Subset, FS_CardinalityType DEF Active, ActiveAdmins, Pending

\* What Goto leaves in the request slots.
LEMMA GotoMoves ==
    ASSUME req \in [Reqs -> ReqType], NEW r \in Reqs, NEW c \in Places, Goto(r, c)
    PROVE  req' = [req EXCEPT ![r] = Moved(req[r], c, req[r].active)] /\ req' \in [Reqs -> ReqType]
<1>1. req[r] \in ReqType /\ req[r].active \in Nat
  BY DEF ReqType
<1>2. req' = [req EXCEPT ![r] = [req[r] EXCEPT !.pc = c]]
  BY DEF Goto
<1>3. Moved(req[r], c, req[r].active) \in ReqType
  BY <1>1, MovedType
<1>4. [req[r] EXCEPT !.pc = c] = Moved(req[r], c, req[r].active)
  BY <1>1, MovedPlace
<1>5. QED
  BY <1>2, <1>3, <1>4

\* What CountActive leaves in the request slots.
LEMMA CountMoves ==
    ASSUME req \in [Reqs -> ReqType], NEW r \in Reqs, CountActive(r)
    PROVE  /\ req' = [req EXCEPT ![r] = Moved(req[r], "invite_counted", Cardinality(Active))]
           /\ req' \in [Reqs -> ReqType]
<1>1. req[r] \in ReqType
  OBVIOUS
<1>2. req' = [req EXCEPT ![r] =
                 [req[r] EXCEPT !.pc = "invite_counted", !.active = Cardinality(Active)]]
  BY DEF CountActive
<1>3. "invite_counted" \in Places
  BY DEF Places, Holding
<1>4. Moved(req[r], "invite_counted", Cardinality(Active)) \in ReqType
  BY <1>1, <1>3, MovedType, FiniteTables
<1>5. [req[r] EXCEPT !.pc = "invite_counted", !.active = Cardinality(Active)]
          = Moved(req[r], "invite_counted", Cardinality(Active))
  BY <1>1, <1>3, MovedCount
<1>6. QED
  BY <1>2, <1>4, <1>5

\* One case for each action that a step of the specification can be.
LEMMA BaseNext == Base /\ [Next]_vars => Base'
<1> SUFFICES ASSUME Base, [Next]_vars PROVE Base'
  OBVIOUS
<1> USE DEF Base, Holding, Places, Waiting
<1>1. ASSUME NEW r \in Reqs, NEW p \in People, LoadDeactivate(r, p) PROVE Base'
  <2>1. TypeOK'
    BY <1>1 DEF LoadDeactivate, Begin, Request, Idle, users, history, TypeOK, ReqType, InviteType
  <2>2. (\A s \in Reqs : ArgsOK(req[s]))'
    BY <1>1 DEF LoadDeactivate, Begin, Request, Idle, users, history, TypeOK, ReqType, ArgsOK
  <2>3. InvitesOK'
    BY <1>1 DEF LoadDeactivate, Begin, Request, Idle, users, history, TypeOK, ReqType,
       InviteType, InvitesOK
  <2>4. AcceptsOK'
    BY <1>1 DEF LoadDeactivate, Begin, Request, Idle, users, history, TypeOK, ReqType,
       InviteType, ArgsOK, AcceptsOK
  <2>5. LockOK'
    BY <1>1 DEF LoadDeactivate, Begin, Request, Idle, users, history, TypeOK, ReqType, LockOK
  <2>6. QED
    BY <2>1, <2>2, <2>3, <2>4, <2>5
<1>2. ASSUME NEW r \in Reqs, NEW p \in People, LoadEnroll(r, p) PROVE Base'
  <2>1. TypeOK'
    BY <1>2 DEF LoadEnroll, Begin, Request, Idle, users, history, TypeOK, ReqType, InviteType
  <2>2. (\A s \in Reqs : ArgsOK(req[s]))'
    BY <1>2 DEF LoadEnroll, Begin, Request, Idle, users, history, TypeOK, ReqType, ArgsOK
  <2>3. InvitesOK'
    BY <1>2 DEF LoadEnroll, Begin, Request, Idle, users, history, TypeOK, ReqType, InviteType,
       InvitesOK
  <2>4. AcceptsOK'
    BY <1>2 DEF LoadEnroll, Begin, Request, Idle, users, history, TypeOK, ReqType, InviteType,
       ArgsOK, AcceptsOK
  <2>5. LockOK'
    BY <1>2 DEF LoadEnroll, Begin, Request, Idle, users, history, TypeOK, ReqType, LockOK
  <2>6. QED
    BY <2>1, <2>2, <2>3, <2>4, <2>5
<1>3. ASSUME NEW r \in Reqs, NEW p \in People, NEW k \in AskedRoles,
             LoadChangeRole(r, p, k) PROVE Base'
  <2>1. TypeOK'
    BY <1>3 DEF LoadChangeRole, Begin, Request, Idle, users, history, TypeOK, ReqType, InviteType
  <2>2. (\A s \in Reqs : ArgsOK(req[s]))'
    BY <1>3 DEF LoadChangeRole, Begin, Request, Idle, users, history, TypeOK, ReqType, ArgsOK
  <2>3. InvitesOK'
    BY <1>3 DEF LoadChangeRole, Begin, Request, Idle, users, history, TypeOK, ReqType,
       InviteType, InvitesOK
  <2>4. AcceptsOK'
    BY <1>3 DEF LoadChangeRole, Begin, Request, Idle, users, history, TypeOK, ReqType,
       InviteType, ArgsOK, AcceptsOK
  <2>5. LockOK'
    BY <1>3 DEF LoadChangeRole, Begin, Request, Idle, users, history, TypeOK, ReqType, LockOK
  <2>6. QED
    BY <2>1, <2>2, <2>3, <2>4, <2>5
<1>4. ASSUME NEW r \in Reqs, NEW p \in People, NEW k \in AskedRoles,
             LoadInvite(r, p, k) PROVE Base'
  <2>1. TypeOK'
    BY <1>4 DEF LoadInvite, Managers, ActiveAdmins, Active, Begin, Request, Idle, users,
       history, TypeOK, ReqType, InviteType
  <2>2. (\A s \in Reqs : ArgsOK(req[s]))'
    BY <1>4 DEF LoadInvite, Begin, Request, Idle, users, history, TypeOK, ReqType, ArgsOK
  <2>3. InvitesOK'
    BY <1>4 DEF LoadInvite, Begin, Request, Idle, users, history, TypeOK, ReqType, InviteType,
       InvitesOK
  <2>4. AcceptsOK'
    BY <1>4 DEF LoadInvite, Begin, Request, Idle, users, history, TypeOK, ReqType, InviteType,
       ArgsOK, AcceptsOK
  <2>5. LockOK'
    BY <1>4 DEF LoadInvite, Begin, Request, Idle, users, history, TypeOK, ReqType, LockOK
  <2>6. QED
    BY <2>1, <2>2, <2>3, <2>4, <2>5
<1>5. ASSUME NEW r \in Reqs, NEW i \in Invites, LoadAccept(r, i) PROVE Base'
  <2>1. TypeOK'
    BY <1>5 DEF LoadAccept, Begin, Request, Idle, users, history, TypeOK, ReqType, InviteType
  <2>2. (\A s \in Reqs : ArgsOK(req[s]))'
    BY <1>5 DEF LoadAccept, Begin, Request, Idle, users, history, TypeOK, ReqType, ArgsOK
  <2>3. InvitesOK'
    BY <1>5 DEF LoadAccept, Begin, Request, Idle, users, history, TypeOK, ReqType, InviteType,
       InvitesOK
  <2>4. AcceptsOK'
    BY <1>5 DEF LoadAccept, Begin, Request, Idle, users, history, TypeOK, ReqType, InviteType,
       ArgsOK, AcceptsOK
  <2>5. LockOK'
    BY <1>5 DEF LoadAccept, Begin, Request, Idle, users, history, TypeOK, ReqType, LockOK
  <2>6. QED
    BY <2>1, <2>2, <2>3, <2>4, <2>5
<1>6. ASSUME NEW r \in Reqs, CheckDeactivate(r) PROVE Base'
  <2>0. ASSUME Goto(r, "deactivate_checked")
        PROVE  /\ req' = [req EXCEPT ![r] = Moved(req[r], "deactivate_checked", req[r].active)]
               /\ req' \in [Reqs -> ReqType]
    BY <2>0, GotoMoves DEF TypeOK
  <2>1. TypeOK'
    BY <1>6, <2>0 DEF Moved, CheckDeactivate, CheckLastAdmin, Finish, Acquire, Request, Idle,
       users, history, TypeOK, ReqType, InviteType
  <2>2. (\A s \in Reqs : ArgsOK(req[s]))'
    BY <1>6, <2>0 DEF Moved, CheckDeactivate, CheckLastAdmin, Finish, Acquire, Request, Idle,
       users, history, TypeOK, ReqType, ArgsOK
  <2>3. InvitesOK'
    BY <1>6, <2>0 DEF Moved, CheckDeactivate, CheckLastAdmin, Finish, Acquire, Request, Idle,
       users, history, TypeOK, ReqType, InviteType, InvitesOK
  <2>4. AcceptsOK'
    <3>1. \A s \in Reqs : s # r => req'[s] = req[s]
      BY <1>6, <2>0 DEF CheckDeactivate, CheckLastAdmin, Finish, TypeOK
    <3>2. req'[r].pc # "accept" /\ req'[r].inv = None
      BY <1>6, <2>0 DEF Moved, CheckDeactivate, CheckLastAdmin, Finish, Request, Idle, ArgsOK,
         TypeOK
    <3>3. invite' = invite
      BY <1>6 DEF CheckDeactivate, CheckLastAdmin
    <3>4. QED
      BY <3>1, <3>2, <3>3 DEF AcceptsOK, ArgsOK
  <2>5. LockOK'
    BY <1>6, <2>0 DEF Moved, CheckDeactivate, CheckLastAdmin, Finish, Acquire, Request, Idle,
       users, history, TypeOK, ReqType, LockOK
  <2>6. QED
    BY <2>1, <2>2, <2>3, <2>4, <2>5
<1>7. ASSUME NEW r \in Reqs, CommitDeactivate(r) PROVE Base'
  <2>1. TypeOK'
    BY <1>7 DEF CommitDeactivate, NoteStale, Finish, Release, Request, Idle, users, history,
       TypeOK, ReqType, InviteType
  <2>2. (\A s \in Reqs : ArgsOK(req[s]))'
    BY <1>7 DEF CommitDeactivate, NoteStale, Finish, Release, Request, Idle, users, history,
       TypeOK, ReqType, ArgsOK
  <2>3. InvitesOK'
    BY <1>7 DEF CommitDeactivate, NoteStale, Finish, Release, Request, Idle, users, history,
       TypeOK, ReqType, InviteType, InvitesOK
  <2>4. AcceptsOK'
    BY <1>7 DEF CommitDeactivate, NoteStale, Finish, Release, Request, Idle, users, history,
       TypeOK, ReqType, InviteType, ArgsOK, AcceptsOK
  <2>5. LockOK'
    BY <1>7 DEF CommitDeactivate, NoteStale, Finish, Release, Request, Idle, users, history,
       TypeOK, ReqType, LockOK
  <2>6. QED
    BY <2>1, <2>2, <2>3, <2>4, <2>5
<1>8. ASSUME NEW r \in Reqs, CheckChangeRole(r) PROVE Base'
  <2>0. ASSUME Goto(r, "change_role_checked")
        PROVE  /\ req' = [req EXCEPT ![r] = Moved(req[r], "change_role_checked", req[r].active)]
               /\ req' \in [Reqs -> ReqType]
    BY <2>0, GotoMoves DEF TypeOK
  <2>1. TypeOK'
    BY <1>8, <2>0 DEF Moved, CheckChangeRole, CheckLastAdmin, Finish, Acquire, Request, Idle,
       users, history, TypeOK, ReqType, InviteType
  <2>2. (\A s \in Reqs : ArgsOK(req[s]))'
    BY <1>8, <2>0 DEF Moved, CheckChangeRole, CheckLastAdmin, Finish, Acquire, Request, Idle,
       users, history, TypeOK, ReqType, ArgsOK
  <2>3. InvitesOK'
    BY <1>8, <2>0 DEF Moved, CheckChangeRole, CheckLastAdmin, Finish, Acquire, Request, Idle,
       users, history, TypeOK, ReqType, InviteType, InvitesOK
  <2>4. AcceptsOK'
    <3>1. \A s \in Reqs : s # r => req'[s] = req[s]
      BY <1>8, <2>0 DEF CheckChangeRole, CheckLastAdmin, Finish, TypeOK
    <3>2. req'[r].pc # "accept" /\ req'[r].inv = None
      BY <1>8, <2>0 DEF Moved, CheckChangeRole, CheckLastAdmin, Finish, Request, Idle, ArgsOK,
         TypeOK
    <3>3. invite' = invite
      BY <1>8 DEF CheckChangeRole, CheckLastAdmin
    <3>4. QED
      BY <3>1, <3>2, <3>3 DEF AcceptsOK, ArgsOK
  <2>5. LockOK'
    BY <1>8, <2>0 DEF Moved, CheckChangeRole, CheckLastAdmin, Finish, Acquire, Request, Idle,
       users, history, TypeOK, ReqType, LockOK
  <2>6. QED
    BY <2>1, <2>2, <2>3, <2>4, <2>5
<1>9. ASSUME NEW r \in Reqs, CommitChangeRole(r) PROVE Base'
  <2>1. TypeOK'
    <3>1. role' \in [People -> Roles]
      BY <1>9 DEF CommitChangeRole, Flush, TypeOK, ArgsOK
    <3>2. mfa' \in [People -> MfaStates]
      BY <1>9 DEF CommitChangeRole, Flush, MfaFor, MfaStates, TypeOK
    <3>3. req' \in [Reqs -> ReqType]
      BY <1>9 DEF CommitChangeRole, Finish, Request, Idle, TypeOK, ReqType
    <3>4. lock' \in Reqs \cup {None} /\ staleRole' \in BOOLEAN
      BY <1>9 DEF CommitChangeRole, Release, NoteStale, TypeOK
    <3>5. UNCHANGED <<status, elsewhere, invite, slips>>
      BY <1>9 DEF CommitChangeRole
    <3>6. QED
      BY <3>1, <3>2, <3>3, <3>4, <3>5 DEF TypeOK
  <2>2. (\A s \in Reqs : ArgsOK(req[s]))'
    BY <1>9 DEF CommitChangeRole, Flush, MfaFor, MfaStates, NoteStale, Finish, Release, Request,
       Idle, users, history, TypeOK, ReqType, ArgsOK
  <2>3. InvitesOK'
    BY <1>9 DEF CommitChangeRole, Flush, MfaFor, MfaStates, NoteStale, Finish, Release, Request,
       Idle, users, history, TypeOK, ReqType, InviteType, InvitesOK
  <2>4. AcceptsOK'
    BY <1>9 DEF CommitChangeRole, Flush, MfaFor, MfaStates, NoteStale, Finish, Release, Request,
       Idle, users, history, TypeOK, ReqType, InviteType, ArgsOK, AcceptsOK
  <2>5. LockOK'
    BY <1>9 DEF CommitChangeRole, Flush, MfaFor, MfaStates, NoteStale, Finish, Release, Request,
       Idle, users, history, TypeOK, ReqType, LockOK
  <2>6. QED
    BY <2>1, <2>2, <2>3, <2>4, <2>5
<1>10. ASSUME NEW r \in Reqs, CommitEnroll(r) PROVE Base'
  <2>1. TypeOK'
    BY <1>10 DEF CommitEnroll, Finish, MfaStates, Request, Idle, users, history, TypeOK,
       ReqType, InviteType
  <2>2. (\A s \in Reqs : ArgsOK(req[s]))'
    BY <1>10 DEF CommitEnroll, Finish, MfaStates, Request, Idle, users, history, TypeOK,
       ReqType, ArgsOK
  <2>3. InvitesOK'
    BY <1>10 DEF CommitEnroll, Finish, MfaStates, Request, Idle, users, history, TypeOK,
       ReqType, InviteType, InvitesOK
  <2>4. AcceptsOK'
    BY <1>10 DEF CommitEnroll, Finish, MfaStates, Request, Idle, users, history, TypeOK,
       ReqType, InviteType, ArgsOK, AcceptsOK
  <2>5. LockOK'
    BY <1>10 DEF CommitEnroll, Finish, MfaStates, Request, Idle, users, history, TypeOK,
       ReqType, LockOK
  <2>6. QED
    BY <2>1, <2>2, <2>3, <2>4, <2>5
<1>11. ASSUME NEW r \in Reqs, CheckInvite(r) PROVE Base'
  <2>0. ASSUME Goto(r, "invite_checked")
        PROVE  /\ req' = [req EXCEPT ![r] = Moved(req[r], "invite_checked", req[r].active)]
               /\ req' \in [Reqs -> ReqType]
    BY <2>0, GotoMoves DEF TypeOK
  <2>1. TypeOK'
    BY <1>11, <2>0 DEF Moved, CheckInvite, Finish, Acquire, Request, Idle, users, history,
       TypeOK, ReqType, InviteType
  <2>2. (\A s \in Reqs : ArgsOK(req[s]))'
    BY <1>11, <2>0 DEF Moved, CheckInvite, Finish, Acquire, Request, Idle, users, history,
       TypeOK, ReqType, ArgsOK
  <2>3. InvitesOK'
    BY <1>11, <2>0 DEF Moved, CheckInvite, Finish, Acquire, Request, Idle, users, history,
       TypeOK, ReqType, InviteType, InvitesOK
  <2>4. AcceptsOK'
    <3>1. \A s \in Reqs : s # r => req'[s] = req[s]
      BY <1>11, <2>0 DEF CheckInvite, Finish, TypeOK
    <3>2. req'[r].pc # "accept" /\ req'[r].inv = None
      BY <1>11, <2>0 DEF Moved, CheckInvite, Finish, Request, Idle, ArgsOK, TypeOK
    <3>3. invite' = invite
      BY <1>11 DEF CheckInvite
    <3>4. QED
      BY <3>1, <3>2, <3>3 DEF AcceptsOK, ArgsOK
  <2>5. LockOK'
    BY <1>11, <2>0 DEF Moved, CheckInvite, Finish, Acquire, Request, Idle, users, history,
       TypeOK, ReqType, LockOK
  <2>6. QED
    BY <2>1, <2>2, <2>3, <2>4, <2>5
<1>12. ASSUME NEW r \in Reqs, CountActive(r) PROVE Base'
  <2>0. /\ req' = [req EXCEPT ![r] = Moved(req[r], "invite_counted", Cardinality(Active))]
        /\ req' \in [Reqs -> ReqType]
    BY <1>12, CountMoves DEF TypeOK
  <2>1. TypeOK'
    BY <1>12, <2>0 DEF Moved, CountActive, users, history, TypeOK, ReqType, InviteType
  <2>2. (\A s \in Reqs : ArgsOK(req[s]))'
    BY <1>12, <2>0 DEF Moved, CountActive, users, history, TypeOK, ReqType, ArgsOK
  <2>3. InvitesOK'
    BY <1>12, <2>0 DEF Moved, CountActive, users, history, TypeOK, ReqType, InviteType, InvitesOK
  <2>4. AcceptsOK'
    BY <1>12, <2>0 DEF Moved, CountActive, users, history, TypeOK, ReqType, InviteType, ArgsOK,
       AcceptsOK
  <2>5. LockOK'
    BY <1>12, <2>0 DEF Moved, CountActive, users, history, TypeOK, ReqType, LockOK
  <2>6. QED
    BY <2>1, <2>2, <2>3, <2>4, <2>5
<1>13. ASSUME NEW r \in Reqs, InsertInvite(r) PROVE Base'
  <2>1. TypeOK'
    BY <1>13 DEF InsertInvite, Finish, Release, Request, Idle, users, history, TypeOK, ReqType,
       InviteType
  <2>2. (\A s \in Reqs : ArgsOK(req[s]))'
    BY <1>13 DEF InsertInvite, Finish, Release, Request, Idle, users, history, TypeOK, ReqType,
       ArgsOK
  <2>3. InvitesOK'
    <3>1. req[r].who \in People /\ req[r].ask \in Roles
      BY <1>13 DEF InsertInvite, ArgsOK
    <3>2. CASE UNCHANGED invite
      BY <3>2 DEF InvitesOK
    <3>3. ASSUME NEW i \in Invites,
                 invite' = [invite EXCEPT ![i] =
                     [email |-> req[r].who, role |-> req[r].ask, state |-> "pending"]]
          PROVE  InvitesOK'
      BY <3>1, <3>3 DEF InvitesOK, TypeOK
    <3>4. QED
      BY <1>13, <3>2, <3>3 DEF InsertInvite
  <2>4. AcceptsOK'
    BY <1>13 DEF InsertInvite, Finish, Release, Request, Idle, users, history, TypeOK, ReqType,
       InviteType, ArgsOK, AcceptsOK
  <2>5. LockOK'
    BY <1>13 DEF InsertInvite, Finish, Release, Request, Idle, users, history, TypeOK, ReqType,
       LockOK
  <2>6. QED
    BY <2>1, <2>2, <2>3, <2>4, <2>5
<1>14. ASSUME NEW r \in Reqs, CommitAccept(r) PROVE Base'
  <2> DEFINE i == req[r].inv
             p == invite[i].email
  <2>1. /\ i \in Invites
        /\ invite[i] \in InviteType
        /\ invite[i].state \in {"pending", "expired"}
        /\ p \in People
        /\ invite[i].role \in Roles
    BY <1>14 DEF CommitAccept, ArgsOK, AcceptsOK, InvitesOK, TypeOK
  <2>2. /\ req' = [req EXCEPT ![r] = Idle]
        /\ UNCHANGED <<elsewhere, lock, staleRole>>
        /\ req[r].pc = "accept"
    BY <1>14 DEF CommitAccept, Finish
  <2>3. CASE UNCHANGED <<users, invite, slips>>
    BY <2>2, <2>3 DEF users, Request, Idle, TypeOK, ReqType, ArgsOK, InvitesOK, AcceptsOK, LockOK
  <2>4. CASE /\ role' = [role EXCEPT ![p] = invite[i].role]
             /\ status' = [status EXCEPT ![p] = "active"]
             /\ mfa' = [mfa EXCEPT ![p] = MfaFor(invite[i].role)]
             /\ invite' = [invite EXCEPT ![i].state = "accepted"]
             /\ slips' = slips + IF invite[i].state = "expired" THEN 1 ELSE 0
    <3> DEFINE m == [email |-> p, role |-> invite[i].role, state |-> "accepted"]
    <3>1. invite' = [invite EXCEPT ![i] = m]
      BY <2>1, <2>4, AcceptedInvite DEF TypeOK
    <3>2. m \in InviteType
      BY <2>1 DEF InviteType
    <3> HIDE DEF i, p, m
    <3>3. role' \in [People -> Roles] /\ status' \in [People -> {"none", "active", "deactivated"}]
      BY <2>1, <2>4 DEF TypeOK
    <3>4. mfa' \in [People -> MfaStates] /\ slips' \in Nat
      BY <2>1, <2>4 DEF TypeOK, MfaFor, MfaStates
    <3>5. req' \in [Reqs -> ReqType]
      BY <2>2 DEF TypeOK, Request, Idle, ReqType
    <3>6. invite' \in [Invites -> InviteType]
      BY <2>1, <3>1, <3>2 DEF TypeOK
    <3>7. TypeOK'
      BY <2>2, <3>3, <3>4, <3>5, <3>6 DEF TypeOK
    <3>8. (\A s \in Reqs : ArgsOK(req[s]))'
      BY <2>2 DEF TypeOK, ArgsOK, Request, Idle
    <3>9. InvitesOK'
      BY <2>1, <3>1 DEF InvitesOK, TypeOK, m
    <3>10. AcceptsOK'
      BY <2>1, <2>2, <3>1 DEF AcceptsOK, ArgsOK, TypeOK, Request, Idle, i
    <3>11. LockOK'
      BY <2>2 DEF LockOK, TypeOK, Request, Idle
    <3>12. QED
      BY <3>7, <3>8, <3>9, <3>10, <3>11
  <2>5. QED
    BY <1>14, <2>3, <2>4 DEF CommitAccept
<1>15. ASSUME NEW r \in Reqs, Abort(r) PROVE Base'
  <2>1. TypeOK'
    BY <1>15 DEF Abort, Finish, Release, Request, Idle, users, history, TypeOK, ReqType, InviteType
  <2>2. (\A s \in Reqs : ArgsOK(req[s]))'
    BY <1>15 DEF Abort, Finish, Release, Request, Idle, users, history, TypeOK, ReqType, ArgsOK
  <2>3. InvitesOK'
    BY <1>15 DEF Abort, Finish, Release, Request, Idle, users, history, TypeOK, ReqType,
       InviteType, InvitesOK
  <2>4. AcceptsOK'
    BY <1>15 DEF Abort, Finish, Release, Request, Idle, users, history, TypeOK, ReqType,
       InviteType, ArgsOK, AcceptsOK
  <2>5. LockOK'
    BY <1>15 DEF Abort, Finish, Release, Request, Idle, users, history, TypeOK, ReqType, LockOK
  <2>6. QED
    BY <2>1, <2>2, <2>3, <2>4, <2>5
<1>16. ASSUME NEW i \in Invites, Expire(i) PROVE Base'
  <2>1. TypeOK'
    BY <1>16 DEF Expire, users, history, TypeOK, ReqType, InviteType
  <2>2. (\A s \in Reqs : ArgsOK(req[s]))'
    BY <1>16 DEF Expire, users, history, TypeOK, ReqType, ArgsOK
  <2>3. InvitesOK'
    BY <1>16 DEF Expire, users, history, TypeOK, ReqType, InviteType, InvitesOK
  <2>4. AcceptsOK'
    BY <1>16 DEF Expire, users, history, TypeOK, ReqType, InviteType, ArgsOK, AcceptsOK
  <2>5. LockOK'
    BY <1>16 DEF Expire, users, history, TypeOK, ReqType, LockOK
  <2>6. QED
    BY <2>1, <2>2, <2>3, <2>4, <2>5
<1>17. ASSUME NEW p \in People, SignupElsewhere(p) PROVE Base'
  <2>1. TypeOK'
    BY <1>17 DEF SignupElsewhere, users, history, TypeOK, ReqType, InviteType
  <2>2. (\A s \in Reqs : ArgsOK(req[s]))'
    BY <1>17 DEF SignupElsewhere, users, history, TypeOK, ReqType, ArgsOK
  <2>3. InvitesOK'
    BY <1>17 DEF SignupElsewhere, users, history, TypeOK, ReqType, InviteType, InvitesOK
  <2>4. AcceptsOK'
    BY <1>17 DEF SignupElsewhere, users, history, TypeOK, ReqType, InviteType, ArgsOK, AcceptsOK
  <2>5. LockOK'
    BY <1>17 DEF SignupElsewhere, users, history, TypeOK, ReqType, LockOK
  <2>6. QED
    BY <2>1, <2>2, <2>3, <2>4, <2>5
<1>18. ASSUME NEW r \in Reqs, LockEnroll(r) PROVE Base'
  <2>0. ASSUME Goto(r, "enroll_locked")
        PROVE  /\ req' = [req EXCEPT ![r] = Moved(req[r], "enroll_locked", req[r].active)]
               /\ req' \in [Reqs -> ReqType]
    BY <2>0, GotoMoves DEF TypeOK
  <2>1. TypeOK'
    BY <1>18, <2>0 DEF Moved, LockEnroll, Finish, Request, Idle, users, history, TypeOK,
       ReqType, InviteType
  <2>2. (\A s \in Reqs : ArgsOK(req[s]))'
    BY <1>18, <2>0 DEF Moved, LockEnroll, Finish, Request, Idle, users, history, TypeOK,
       ReqType, ArgsOK
  <2>3. InvitesOK'
    BY <1>18 DEF LockEnroll, InvitesOK
  <2>4. AcceptsOK'
    <3>1. \A s \in Reqs : s # r => req'[s] = req[s]
      BY <1>18, <2>0 DEF LockEnroll, Finish, TypeOK
    <3>2. req'[r].pc # "accept" /\ req'[r].inv = None
      BY <1>18, <2>0 DEF Moved, LockEnroll, Finish, Request, Idle, ArgsOK, TypeOK
    <3>3. invite' = invite
      BY <1>18 DEF LockEnroll
    <3>4. QED
      BY <3>1, <3>2, <3>3 DEF AcceptsOK, ArgsOK
  <2>5. LockOK'
    BY <1>18, <2>0 DEF Moved, LockEnroll, Finish, Request, Idle, users, history, TypeOK,
       ReqType, LockOK
  <2>6. QED
    BY <2>1, <2>2, <2>3, <2>4, <2>5
<1>19. ASSUME NEW r \in Reqs, NEW s \in Reqs, BreakDeadlock(r, s) PROVE Base'
  BY <1>15, <1>19, VictimAborts
<1>20. CASE UNCHANGED vars
  BY <1>20 DEF vars, TypeOK, ArgsOK, InvitesOK, AcceptsOK, LockOK
<1>21. QED
  BY <1>1, <1>2, <1>3, <1>4, <1>5, <1>6, <1>7, <1>8, <1>9, <1>10, <1>11, <1>12, <1>13, <1>14,
     <1>15, <1>16, <1>17, <1>18, <1>19, <1>20 DEF Next, Start, Step

\* Every reachable state is well typed (with the other parts of Base).
THEOREM BaseInvariant == Spec => []Base
<1>1. QED
  BY BaseInit, BaseNext, PTL DEF Spec

\* The tables, the tenant row lock and the requests keep their types.
THEOREM TypeCorrect == Spec => []TypeOK
<1>1. Base => TypeOK
  BY DEF Base
<1>2. QED
  BY <1>1, BaseInvariant, PTL

-----------------------------------------------------------------------------
(* Seats. *)

\* A creation that has counted the active users still sees that number: the
\* tenant row it holds keeps acceptances and deactivations away.
SeatInv == /\ SeatsUpToSlips
           /\ \A r \in Reqs : req[r].pc = "invite_counted" => req[r].active = Cardinality(Active)

\* The staff a tenant starts with fits its seats.
LEMMA SeatInit == Init => SeatInv
<1> SUFFICES ASSUME Init PROVE SeatInv
  OBVIOUS
<1>1. Active = Staff /\ Pending = {}
  BY DEF Init, Active, Pending, NoInvite
<1>2. Cardinality(Pending) = 0 /\ Cardinality(Staff) \in Nat
  BY <1>1, FS_EmptySet, FS_Subset, FS_CardinalityType
<1>3. QED
  BY <1>1, <1>2 DEF Init, SeatInv, SeatsUpToSlips, Occupied, Idle, Request

\* One case for each action that takes or frees a seat, or moves a count.
LEMMA SeatNext == Base /\ SeatInv /\ [Next]_vars => SeatInv'
<1> SUFFICES ASSUME Base, SeatInv, [Next]_vars PROVE SeatInv'
  OBVIOUS
<1> USE DEF Base, TypeOK
<1>0. Cardinality(Active) \in Nat /\ Cardinality(Pending) \in Nat /\ SeatCap \in Nat /\ slips \in Nat
  BY FiniteTables
<1>1. ASSUME UNCHANGED <<status, invite, slips>>,
             \A s \in Reqs : req'[s].pc = "invite_counted" =>
                 req'[s].active = Cardinality(Active)
      PROVE  SeatInv'
  BY <1>1 DEF SeatInv, SeatsUpToSlips, Occupied, Active, Pending
<1>2. ASSUME NEW r \in Reqs, Start(r) PROVE SeatInv'
  <2>1. UNCHANGED <<status, invite, slips>>
    BY <1>2 DEF Start, LoadDeactivate, LoadEnroll, LoadChangeRole, LoadInvite, LoadAccept,
                users, history
  <2>2. (\A s \in Reqs : s # r => req'[s] = req[s]) /\ req'[r].pc # "invite_counted"
    BY <1>2 DEF Start, LoadDeactivate, LoadEnroll, LoadChangeRole, LoadInvite, LoadAccept,
                Begin, Request
  <2>3. QED
    BY <1>1, <2>1, <2>2 DEF SeatInv
<1>3. ASSUME NEW r \in Reqs,
             \/ CheckDeactivate(r) \/ CheckChangeRole(r)
             \/ LockEnroll(r) \/ CheckInvite(r) \/ CountActive(r)
      PROVE  SeatInv'
  <2>1. UNCHANGED <<status, invite, slips>>
    BY <1>3 DEF CheckDeactivate, CheckChangeRole, CheckLastAdmin, LockEnroll, CheckInvite,
                CountActive, users, history
  <2>2. \A s \in Reqs : s # r => req'[s] = req[s]
    BY <1>3 DEF CheckDeactivate, CheckChangeRole, CheckLastAdmin, LockEnroll, CheckInvite,
                CountActive, Goto, Finish
  <2>3. CASE CountActive(r)
    <3>1. req'[r].active = Cardinality(Active)
      BY <2>3, CountMoves DEF Moved
    <3>2. QED
      BY <1>1, <2>1, <2>2, <3>1 DEF SeatInv
  <2>4. CASE CheckDeactivate(r) \/ CheckChangeRole(r) \/ LockEnroll(r) \/ CheckInvite(r)
    <3>1. ASSUME NEW c \in {"deactivate_checked", "change_role_checked", "enroll_locked",
                           "invite_checked"},
                 Goto(r, c)
          PROVE  req'[r].pc # "invite_counted"
      BY <3>1, GotoMoves DEF Moved, Places, Holding, Waiting
    <3>2. ASSUME Finish(r) PROVE req'[r].pc # "invite_counted"
      BY <3>2 DEF Finish, Idle, Request
    <3>3. req'[r].pc # "invite_counted"
      BY <2>4, <3>1, <3>2 DEF CheckDeactivate, CheckChangeRole, CheckLastAdmin, LockEnroll,
                                   CheckInvite
    <3>4. QED
      BY <1>1, <2>1, <2>2, <3>3 DEF SeatInv
  <2>5. QED
    BY <1>3, <2>3, <2>4
<1>4. ASSUME NEW r \in Reqs, CommitDeactivate(r) PROVE SeatInv'
  <2>1. Active' = Active \ {req[r].who} /\ Pending' = Pending
    BY <1>4 DEF CommitDeactivate, ArgsOK, Active, Pending
  <2>2. Cardinality(Active') \in Nat /\ Cardinality(Active') <= Cardinality(Active)
    BY <2>1, FiniteTables, FS_Subset, FS_CardinalityType
  <2>3. \A s \in Reqs : req'[s].pc # "invite_counted"
    BY <1>4 DEF CommitDeactivate, Finish, Idle, Request, LockOK, Holding
  <2>4. UNCHANGED slips
    BY <1>4 DEF CommitDeactivate
  <2>5. QED
    BY <1>0, <2>1, <2>2, <2>3, <2>4 DEF SeatInv, SeatsUpToSlips, Occupied
<1>5. ASSUME NEW r \in Reqs, CommitChangeRole(r) \/ CommitEnroll(r) \/ Abort(r) PROVE SeatInv'
  <2>1. UNCHANGED <<status, invite, slips>>
    BY <1>5 DEF CommitChangeRole, CommitEnroll, Abort, users, history
  <2>2. req' = [req EXCEPT ![r] = Idle]
    BY <1>5 DEF CommitChangeRole, CommitEnroll, Abort, Finish
  <2>3. QED
    BY <1>1, <2>1, <2>2 DEF SeatInv, Idle, Request
<1>6. ASSUME NEW r \in Reqs, InsertInvite(r) PROVE SeatInv'
  <2>1. UNCHANGED <<status, slips>> /\ req' = [req EXCEPT ![r] = Idle]
    BY <1>6 DEF InsertInvite, users, history, Finish
  <2>2. CASE UNCHANGED invite
    BY <1>1, <2>1, <2>2 DEF SeatInv, Idle, Request
  <2>3. CASE SeatsLeft(r) /\ ~UNCHANGED invite
    <3>1. PICK i \in Invites :
              invite' = [invite EXCEPT ![i] =
                  [email |-> req[r].who, role |-> req[r].ask, state |-> "pending"]]
      BY <1>6, <2>3 DEF InsertInvite
    <3>2. Pending' = Pending \cup {i} /\ Active' = Active
      BY <2>1, <3>1 DEF Pending, Active
    <3>3. Cardinality(Pending') \in Nat /\ Cardinality(Pending') <= Cardinality(Pending) + 1
      BY <3>2, FiniteTables, AddOne
    <3>4. Cardinality(Active) + Cardinality(Pending) < SeatCap
      BY <1>6, <2>3 DEF SeatInv, SeatsLeft, InsertInvite
    <3>5. QED
      BY <1>0, <2>1, <3>2, <3>3, <3>4 DEF SeatInv, SeatsUpToSlips, Occupied, Idle, Request
  <2>4. QED
    BY <1>6, <2>2, <2>3 DEF InsertInvite
<1>7. ASSUME NEW r \in Reqs, CommitAccept(r) PROVE SeatInv'
  <2> DEFINE i == req[r].inv
             p == invite[i].email
  <2>1. /\ i \in Invites
        /\ invite[i] \in InviteType
        /\ invite[i].state \in {"pending", "expired"}
        /\ p \in People
    BY <1>7 DEF CommitAccept, ArgsOK, AcceptsOK, InvitesOK
  <2>2. lock = None /\ req' = [req EXCEPT ![r] = Idle]
    BY <1>7 DEF CommitAccept, Finish
  <2>3. \A s \in Reqs : req'[s].pc # "invite_counted"
    BY <2>2 DEF LockOK, Holding, Idle, Request
  <2>4. CASE UNCHANGED <<users, invite, slips>>
    BY <1>1, <2>3, <2>4 DEF users
  <2>5. CASE /\ status' = [status EXCEPT ![p] = "active"]
             /\ invite' = [invite EXCEPT ![i].state = "accepted"]
             /\ slips' = slips + IF invite[i].state = "expired" THEN 1 ELSE 0
    <3> HIDE DEF i, p
    <3>1. Active' = Active \cup {p}
      BY <2>1, <2>5 DEF Active
    <3>2. Pending' = Pending \ {i}
      BY <2>1, <2>5, AcceptedInvite DEF Pending
    <3>3. Cardinality(Active') \in Nat /\ Cardinality(Active') <= Cardinality(Active) + 1
      BY <3>1, FiniteTables, AddOne
    <3>4. CASE invite[i].state = "expired"
      <4>1. Pending' = Pending /\ slips' = slips + 1
        BY <2>5, <3>2, <3>4 DEF Pending
      <4>2. QED
        BY <1>0, <2>3, <3>3, <4>1 DEF SeatInv, SeatsUpToSlips, Occupied
    <3>5. CASE invite[i].state = "pending"
      <4>1. i \in Pending /\ slips' = slips
        BY <2>1, <2>5, <3>5 DEF Pending
      <4>2. Cardinality(Pending') = Cardinality(Pending) - 1
        BY <3>2, <4>1, FiniteTables, FS_RemoveElement
      <4>3. QED
        BY <1>0, <2>3, <3>3, <4>1, <4>2 DEF SeatInv, SeatsUpToSlips, Occupied
    <3>6. QED
      BY <2>1, <3>4, <3>5
  <2>6. QED
    BY <1>7, <2>4, <2>5 DEF CommitAccept
<1>8. ASSUME NEW i \in Invites, Expire(i) PROVE SeatInv'
  <2>1. Active' = Active /\ UNCHANGED <<req, slips>>
    BY <1>8 DEF Expire, users, history, Active
  <2>2. Pending' \subseteq Pending
    <3>1. invite' = [invite EXCEPT ![i].state = "expired"]
      BY <1>8 DEF Expire
    <3>2. \A j \in Invites : j # i => invite'[j] = invite[j]
      BY <3>1
    <3>3. i \in Pending
      BY <1>8 DEF Expire, Pending
    <3>4. QED
      BY <3>2, <3>3 DEF Pending
  <2>3. Cardinality(Pending') \in Nat /\ Cardinality(Pending') <= Cardinality(Pending)
    BY <2>2, FiniteTables, FS_Subset, FS_CardinalityType
  <2>4. QED
    BY <1>0, <2>1, <2>3 DEF SeatInv, SeatsUpToSlips, Occupied
<1>9. ASSUME NEW p \in People, SignupElsewhere(p) PROVE SeatInv'
  BY <1>1, <1>9 DEF SignupElsewhere, users, history, SeatInv
<1>10. ASSUME NEW r \in Reqs, NEW s \in Reqs, BreakDeadlock(r, s) PROVE SeatInv'
  BY <1>5, <1>10, VictimAborts
<1>11. CASE UNCHANGED vars
  BY <1>1, <1>11 DEF vars, SeatInv
<1>12. QED
  BY <1>2, <1>3, <1>4, <1>5, <1>6, <1>7, <1>8, <1>9, <1>10, <1>11 DEF Next, Step

\* Active users and live invitations exceed the seat cap by at most one for
\* each acceptance committed after its invitation expired.
THEOREM SeatsBounded == Spec => []SeatsUpToSlips
<1>1. SeatInv => SeatsUpToSlips
  BY DEF SeatInv
<1>2. Spec => []SeatInv
  BY SeatInit, SeatNext, BaseInvariant, PTL DEF Spec
<1>3. QED
  BY <1>1, <1>2, PTL

-----------------------------------------------------------------------------
(* The last administrator. *)

Removing == {"deactivate_checked", "change_role_checked"}

\* Past its check, a request that takes the role from a user it saw as an
\* administrator still has a second administrator to rely on: only the holder
\* of the tenant row reduces their number.
AdminInv ==
    /\ AdminRemains
    /\ \A r \in Reqs :
          /\ req[r].pc \in Removing
          /\ req[r].seenRole = "administrador"
          /\ req[r].ask # "administrador"
          => Cardinality(ActiveAdmins) >= 2

\* A tenant starts with an active administrator.
LEMMA AdminInit == Init => AdminInv
<1> SUFFICES ASSUME Init PROVE AdminInv
  OBVIOUS
<1>1. PICK p \in Staff : role[p] = "administrador"
  BY DEF Init
<1>2. p \in ActiveAdmins
  BY <1>1 DEF Init, ActiveAdmins, Active
<1>3. QED
  BY <1>2 DEF Init, AdminInv, AdminRemains, Removing, Idle, Request

\* One case for each action that changes a role, a status or the lock.
LEMMA AdminNext == Base /\ AdminInv /\ [Next]_vars => AdminInv'
<1> SUFFICES ASSUME Base, AdminInv, [Next]_vars PROVE AdminInv'
  OBVIOUS
<1> USE DEF Base, TypeOK
<1>0. Cardinality(ActiveAdmins) \in Nat /\ IsFiniteSet(ActiveAdmins)
  BY FiniteTables
<1>1. ASSUME UNCHANGED <<role, status, staleRole>>,
             NEW r \in Reqs, \A s \in Reqs : s # r => req'[s] = req[s],
             req'[r].pc \notin Removing
      PROVE  AdminInv'
  BY <1>1 DEF AdminInv, AdminRemains, ActiveAdmins, Active
<1>2. ASSUME NEW r \in Reqs, Start(r) PROVE AdminInv'
  <2>1. UNCHANGED <<role, status, staleRole>>
    BY <1>2 DEF Start, LoadDeactivate, LoadEnroll, LoadChangeRole, LoadInvite, LoadAccept,
                users, history
  <2>2. (\A s \in Reqs : s # r => req'[s] = req[s]) /\ req'[r].pc \notin Removing
    BY <1>2 DEF Start, LoadDeactivate, LoadEnroll, LoadChangeRole, LoadInvite, LoadAccept,
                Begin, Request, Removing
  <2>3. QED
    BY <1>1, <2>1, <2>2
<1>3. ASSUME NEW r \in Reqs, CheckDeactivate(r) \/ CheckChangeRole(r) PROVE AdminInv'
  <2>1. UNCHANGED <<role, status, staleRole>>
    BY <1>3 DEF CheckDeactivate, CheckChangeRole, CheckLastAdmin, users, history
  <2>2. CASE Finish(r)
    BY <1>1, <2>1, <2>2 DEF Finish, Idle, Request, Removing
  <2>3. ASSUME NEW c \in Removing, Goto(r, c), ~LastAdmin(r) PROVE AdminInv'
    <3>1. req' = [req EXCEPT ![r] = Moved(req[r], c, req[r].active)]
      BY <2>3, GotoMoves DEF Removing, Places, Holding
    <3>2. /\ req'[r].seenRole = req[r].seenRole
          /\ req'[r].ask = req[r].ask
          /\ \A s \in Reqs : s # r => req'[s] = req[s]
      BY <3>1 DEF Moved
    <3>3. req'[r].seenRole = "administrador" /\ req'[r].ask # "administrador"
              => Cardinality(ActiveAdmins) >= 2
      BY <1>0, <2>3, <3>2 DEF LastAdmin
    <3>4. QED
      BY <2>1, <3>2, <3>3 DEF AdminInv, AdminRemains, ActiveAdmins, Active
  <2>4. QED
    BY <1>3, <2>2, <2>3 DEF CheckDeactivate, CheckChangeRole, CheckLastAdmin, Removing
<1>4. ASSUME NEW r \in Reqs, LockEnroll(r) \/ CheckInvite(r) \/ CountActive(r) PROVE AdminInv'
  <2>1. UNCHANGED <<role, status, staleRole>>
    BY <1>4 DEF LockEnroll, CheckInvite, CountActive, users, history
  <2>2. CASE Finish(r)
    BY <1>1, <2>1, <2>2 DEF Finish, Idle, Request, Removing
  <2>3. ASSUME NEW c \in {"enroll_locked", "invite_checked"}, Goto(r, c) PROVE AdminInv'
    <3>1. req' = [req EXCEPT ![r] = Moved(req[r], c, req[r].active)]
      BY <2>3, GotoMoves DEF Places, Holding, Waiting
    <3>2. QED
      BY <1>1, <2>1, <2>3, <3>1 DEF Moved, Removing
  <2>4. CASE CountActive(r)
    BY <1>1, <2>1, <2>4, CountMoves DEF Moved, Removing
  <2>5. QED
    BY <1>4, <2>2, <2>3, <2>4 DEF LockEnroll, CheckInvite
<1>5. ASSUME NEW r \in Reqs, CommitEnroll(r) \/ InsertInvite(r) \/ Abort(r) PROVE AdminInv'
  <2>1. UNCHANGED <<role, status, staleRole>> /\ req' = [req EXCEPT ![r] = Idle]
    BY <1>5 DEF CommitEnroll, InsertInvite, Abort, Finish, users, history
  <2>2. QED
    BY <1>1, <2>1 DEF Idle, Request, Removing
\* The two commits that take an administrator away hold the tenant row.
<1>6. ASSUME NEW r \in Reqs, CommitDeactivate(r) PROVE AdminInv'
  <2>1. \A s \in Reqs : req'[s].pc \notin Removing
    BY <1>6 DEF CommitDeactivate, Finish, Idle, Request, LockOK, Holding, Removing
  <2>2. ActiveAdmins' = ActiveAdmins \ {req[r].who}
    BY <1>6 DEF CommitDeactivate, ActiveAdmins, Active
  <2>3. ASSUME ~staleRole' PROVE ActiveAdmins' # {}
    <3>1. ~staleRole /\ req[r].seenRole = role[req[r].who]
      BY <1>6, <2>3 DEF CommitDeactivate, NoteStale
    <3>2. CASE req[r].seenRole = "administrador"
      <4>1. Cardinality(ActiveAdmins) >= 2
        BY <1>6, <3>2 DEF CommitDeactivate, ArgsOK, AdminInv, Removing
      <4>2. QED
        BY <1>0, <2>2, <4>1, OneOfTwoLeft
    <3>3. CASE req[r].seenRole # "administrador"
      BY <2>2, <3>1, <3>3 DEF AdminInv, AdminRemains, ActiveAdmins
    <3>4. QED
      BY <3>2, <3>3
  <2>4. QED
    BY <2>1, <2>3 DEF AdminInv, AdminRemains
<1>7. ASSUME NEW r \in Reqs, CommitChangeRole(r) PROVE AdminInv'
  <2>1. \A s \in Reqs : req'[s].pc \notin Removing
    BY <1>7 DEF CommitChangeRole, Finish, Idle, Request, LockOK, Holding, Removing
  <2>2. ActiveAdmins \ {req[r].who} \subseteq ActiveAdmins'
    BY <1>7 DEF CommitChangeRole, ActiveAdmins, Active
  <2>3. ASSUME ~staleRole' PROVE ActiveAdmins' # {}
    <3>1. ~staleRole /\ req[r].seenRole = role[req[r].who]
      BY <1>7, <2>3 DEF CommitChangeRole, NoteStale
    <3>2. CASE req[r].seenRole = "administrador" /\ req[r].ask # "administrador"
      <4>1. Cardinality(ActiveAdmins) >= 2
        BY <1>7, <3>2 DEF CommitChangeRole, AdminInv, Removing
      <4>2. ActiveAdmins \ {req[r].who} # {}
        BY <1>0, <4>1, OneOfTwoLeft
      <4>3. QED
        BY <2>2, <4>2
    <3>3. CASE req[r].seenRole # "administrador"
      BY <2>2, <3>1, <3>3 DEF AdminInv, AdminRemains, ActiveAdmins
    <3>4. CASE req[r].seenRole = "administrador" /\ req[r].ask = "administrador"
      <4>1. role' = role /\ status' = status
        BY <1>7, <3>1, <3>4 DEF CommitChangeRole, Flush
      <4>2. QED
        BY <3>1, <4>1 DEF AdminInv, AdminRemains, ActiveAdmins, Active
    <3>5. QED
      BY <3>2, <3>3, <3>4
  <2>4. QED
    BY <2>1, <2>3 DEF AdminInv, AdminRemains
<1>8. ASSUME NEW r \in Reqs, CommitAccept(r) PROVE AdminInv'
  <2>1. \A s \in Reqs : req'[s].pc \notin Removing
    BY <1>8 DEF CommitAccept, Finish, Idle, Request, LockOK, Holding, Removing
  <2>2. ActiveAdmins \subseteq ActiveAdmins'
    <3>1. CASE UNCHANGED users
      BY <3>1 DEF users, ActiveAdmins, Active
    <3>2. ASSUME NEW p, status[p] \notin {"active"}, NEW k,
                 role' = [role EXCEPT ![p] = k], status' = [status EXCEPT ![p] = "active"]
          PROVE  ActiveAdmins \subseteq ActiveAdmins'
      BY <3>2 DEF ActiveAdmins, Active
    <3>3. CASE ~UNCHANGED users
      <4>1. invite[req[r].inv].email \in People
        BY <1>8 DEF CommitAccept, ArgsOK, AcceptsOK, InvitesOK
      <4>2. invite[req[r].inv].email \notin Known
        BY <1>8, <3>3 DEF CommitAccept, users
      <4>3. QED
        BY <1>8, <3>2, <3>3, <4>1, <4>2 DEF CommitAccept, Known
    <3>4. QED
      BY <3>1, <3>3
  <2>3. UNCHANGED staleRole
    BY <1>8 DEF CommitAccept
  <2>4. QED
    BY <2>1, <2>2, <2>3 DEF AdminInv, AdminRemains
<1>9. ASSUME UNCHANGED <<users, req, history>> PROVE AdminInv'
  BY <1>9 DEF users, history, AdminInv, AdminRemains, ActiveAdmins, Active
<1>10. ASSUME NEW r \in Reqs, NEW s \in Reqs, BreakDeadlock(r, s) PROVE AdminInv'
  BY <1>5, <1>10, VictimAborts
<1>11. QED
  BY <1>2, <1>3, <1>4, <1>5, <1>6, <1>7, <1>8, <1>9, <1>10
     DEF Next, Step, Expire, SignupElsewhere, vars, users, history

\* As long as no commit acted on a stale role, an active administrator remains.
THEOREM AdminSafe == Spec => []AdminRemains
<1>1. AdminInv => AdminRemains
  BY DEF AdminInv
<1>2. Spec => []AdminInv
  BY AdminInit, AdminNext, BaseInvariant, PTL DEF Spec
<1>3. QED
  BY <1>1, <1>2, PTL

-----------------------------------------------------------------------------
(* The second factor. *)

Consistent(k, m) == IF k \in MfaRoles THEN m # "not_required" ELSE m # "pending"

\* The MFA status fits the role in every row, and in what every request in
\* flight saw of a row, while no commit has acted on a stale role.
MfaInv ==
    ~staleRole =>
        /\ \A p \in People : Consistent(role[p], mfa[p])
        /\ \A r \in Reqs : req[r].pc \in {"change_role", "change_role_checked"} =>
              Consistent(req[r].seenRole, req[r].seenMfa)

\* The staff a tenant starts with has the second factor its roles need.
LEMMA MfaInit == Init => MfaInv
  BY DEF Init, MfaInv, Consistent, Request, Idle

\* One case for each action that changes a role, a status or an MFA status.
LEMMA MfaNext == Base /\ MfaInv /\ [Next]_vars => MfaInv'
<1> SUFFICES ASSUME Base, MfaInv, [Next]_vars, ~staleRole' PROVE MfaInv'
  BY DEF MfaInv
<1> USE DEF Base, TypeOK
<1> DEFINE Changing == {"change_role", "change_role_checked"}
<1>1. ASSUME UNCHANGED <<role, mfa, staleRole>>,
             NEW r \in Reqs, \A s \in Reqs : s # r => req'[s] = req[s],
             req'[r].pc \in Changing => Consistent(req'[r].seenRole, req'[r].seenMfa)
      PROVE  MfaInv'
  BY <1>1 DEF MfaInv
<1>2. ASSUME NEW r \in Reqs, Start(r) PROVE MfaInv'
  <2>1. UNCHANGED <<role, mfa, staleRole>>
    BY <1>2 DEF Start, LoadDeactivate, LoadEnroll, LoadChangeRole, LoadInvite, LoadAccept,
                users, history
  <2>2. \A s \in Reqs : s # r => req'[s] = req[s]
    BY <1>2 DEF Start, LoadDeactivate, LoadEnroll, LoadChangeRole, LoadInvite, LoadAccept,
                Begin
  <2>3. ASSUME NEW p \in People, NEW k \in AskedRoles, LoadChangeRole(r, p, k)
        PROVE  MfaInv'
    <3>1. req'[r] = Request("change_role", p, k, role[p], mfa[p], None, None)
      BY <2>3 DEF LoadChangeRole, Begin
    <3>2. Consistent(role[p], mfa[p])
      BY <2>1, <3>1 DEF MfaInv
    <3>3. QED
      BY <1>1, <2>1, <2>2, <3>1, <3>2 DEF Request
  <2>4. CASE req'[r].pc \notin Changing
    BY <1>1, <2>1, <2>2, <2>4
  <2>5. QED
    BY <1>2, <2>3, <2>4 DEF Start, LoadDeactivate, LoadEnroll, LoadInvite, LoadAccept, Begin,
       Request
<1>3. ASSUME NEW r \in Reqs, req' = [req EXCEPT ![r] = Idle],
             UNCHANGED <<role, mfa, staleRole>>
      PROVE  MfaInv'
  BY <1>1, <1>3 DEF Idle, Request
<1>4. ASSUME NEW r \in Reqs,
             \/ CheckDeactivate(r) \/ CheckChangeRole(r)
             \/ LockEnroll(r) \/ CheckInvite(r) \/ CountActive(r)
      PROVE  MfaInv'
  <2>1. UNCHANGED <<role, mfa, staleRole>>
    BY <1>4 DEF CheckDeactivate, CheckChangeRole, CheckLastAdmin, LockEnroll, CheckInvite,
                CountActive, users, history
  <2>2. CASE Finish(r)
    BY <1>3, <2>1, <2>2 DEF Finish
  <2>3. ASSUME NEW c \in {"deactivate_checked", "enroll_locked", "invite_checked"}, Goto(r, c)
        PROVE  MfaInv'
    <3>1. req' = [req EXCEPT ![r] = Moved(req[r], c, req[r].active)]
      BY <2>3, GotoMoves DEF Places, Holding, Waiting
    <3>2. QED
      BY <1>1, <2>1, <3>1 DEF Moved
  <2>4. ASSUME CheckChangeRole(r), Goto(r, "change_role_checked") PROVE MfaInv'
    <3>1. req' = [req EXCEPT ![r] = Moved(req[r], "change_role_checked", req[r].active)]
      BY <2>4, GotoMoves DEF Places, Holding
    <3>2. Consistent(req[r].seenRole, req[r].seenMfa)
      BY <2>1, <2>4 DEF CheckChangeRole, CheckLastAdmin, MfaInv
    <3>3. QED
      BY <1>1, <2>1, <3>1, <3>2 DEF Moved
  <2>5. CASE CountActive(r)
    BY <1>1, <2>1, <2>5, CountMoves DEF Moved
  <2>6. QED
    BY <1>4, <2>2, <2>3, <2>4, <2>5 DEF CheckDeactivate, CheckChangeRole, CheckLastAdmin,
       LockEnroll, CheckInvite
<1>5. ASSUME NEW r \in Reqs, InsertInvite(r) \/ Abort(r) PROVE MfaInv'
  BY <1>3, <1>5 DEF InsertInvite, Abort, Finish, users, history
<1>6. ASSUME NEW r \in Reqs, CommitDeactivate(r) PROVE MfaInv'
  <2>1. ~staleRole /\ UNCHANGED <<role, mfa>> /\ req' = [req EXCEPT ![r] = Idle]
    BY <1>6 DEF CommitDeactivate, NoteStale, Finish
  <2>2. QED
    BY <2>1 DEF MfaInv, Idle, Request
<1>7. ASSUME NEW r \in Reqs, CommitChangeRole(r) PROVE MfaInv'
  <2> DEFINE q == req[r]
  <2>1. /\ ~staleRole
        /\ q.seenRole = role[q.who]
        /\ req' = [req EXCEPT ![r] = Idle]
        /\ q.who \in People
        /\ Consistent(q.seenRole, q.seenMfa)
        /\ Consistent(role[q.who], mfa[q.who])
    BY <1>7 DEF CommitChangeRole, NoteStale, Finish, ArgsOK, MfaInv
  <2>2. role'[q.who] = q.ask /\ q.ask \in Roles
    BY <1>7, <2>1 DEF CommitChangeRole, Flush, ArgsOK
  <2>3. mfa'[q.who] = IF MfaFor(q.ask) = q.seenMfa THEN mfa[q.who] ELSE MfaFor(q.ask)
    BY <1>7, <2>1 DEF CommitChangeRole, Flush
  <2>4. Consistent(q.ask, mfa'[q.who])
    BY <2>1, <2>2, <2>3 DEF Consistent, MfaFor, MfaRoles, Roles
  <2>5. \A p \in People : p # q.who => role'[p] = role[p] /\ mfa'[p] = mfa[p]
    BY <1>7 DEF CommitChangeRole
  <2>6. QED
    BY <2>1, <2>2, <2>4, <2>5 DEF MfaInv, Idle, Request
<1>8. ASSUME NEW r \in Reqs, CommitEnroll(r) PROVE MfaInv'
  <2>1. /\ UNCHANGED <<role, staleRole>>
        /\ req' = [req EXCEPT ![r] = Idle]
        /\ mfa' = [mfa EXCEPT ![req[r].who] = "enrolled"]
    BY <1>8 DEF CommitEnroll, Finish, history
  <2>2. QED
    BY <2>1 DEF MfaInv, Consistent, Idle, Request
<1>9. ASSUME NEW r \in Reqs, CommitAccept(r) PROVE MfaInv'
  <2>1. UNCHANGED staleRole /\ req' = [req EXCEPT ![r] = Idle]
    BY <1>9 DEF CommitAccept, Finish
  <2>2. CASE UNCHANGED users
    BY <1>3, <2>1, <2>2 DEF users
  <2>3. ASSUME NEW p \in People, NEW k \in Roles,
               role' = [role EXCEPT ![p] = k], mfa' = [mfa EXCEPT ![p] = MfaFor(k)]
        PROVE  MfaInv'
    BY <2>1, <2>3 DEF MfaInv, Consistent, MfaFor, MfaRoles, Roles, Idle, Request
  <2>4. QED
    <3>1. invite[req[r].inv].email \in People /\ invite[req[r].inv].role \in Roles
      BY <1>9 DEF CommitAccept, ArgsOK, AcceptsOK, InvitesOK
    <3>2. QED
      BY <1>9, <2>2, <2>3, <3>1 DEF CommitAccept, users
<1>10. ASSUME UNCHANGED <<users, req, history>> PROVE MfaInv'
  BY <1>10 DEF users, history, MfaInv
<1>11. ASSUME NEW r \in Reqs, NEW s \in Reqs, BreakDeadlock(r, s) PROVE MfaInv'
  BY <1>5, <1>11, VictimAborts
<1>12. QED
  BY <1>2, <1>4, <1>5, <1>6, <1>7, <1>8, <1>9, <1>10, <1>11
     DEF Next, Step, Expire, SignupElsewhere, vars, users, history

\* As long as no commit acted on a stale role, nobody active in a role that
\* needs a second factor is exempt from it.
THEOREM MfaSafe == Spec => []MfaFollowsRole
<1>1. Base /\ MfaInv => MfaFollowsRole
  BY DEF Base, TypeOK, MfaInv, MfaFollowsRole, Consistent, Active
<1>2. Spec => []MfaInv
  BY MfaInit, MfaNext, BaseInvariant, PTL DEF Spec
<1>3. QED
  BY <1>1, <1>2, BaseInvariant, PTL

-----------------------------------------------------------------------------
(* One address, one tenant. *)

\* With it: the target of a deactivation in flight has a row.
EmailInv ==
    /\ OneEmailOneTenant
    /\ \A r \in Reqs : req[r].pc \in {"deactivate", "deactivate_checked"} =>
          status[req[r].who] # "none"

\* No address is known elsewhere and no invitation accepted at the start.
LEMMA EmailInit == Init => EmailInv
  BY DEF Init, EmailInv, OneEmailOneTenant, NoInvite, Idle, Request

\* One case for each action that makes a user or touches an invitation.
LEMMA EmailNext == Base /\ EmailInv /\ [Next]_vars => EmailInv'
<1> SUFFICES ASSUME Base, EmailInv, [Next]_vars PROVE EmailInv'
  OBVIOUS
<1> USE DEF Base, TypeOK
<1> DEFINE Deactivating == {"deactivate", "deactivate_checked"}
<1>1. ASSUME UNCHANGED <<status, elsewhere, invite>>,
             NEW r \in Reqs, \A s \in Reqs : s # r => req'[s] = req[s],
             req'[r].pc \in Deactivating => status[req'[r].who] # "none"
      PROVE  EmailInv'
  BY <1>1 DEF EmailInv, OneEmailOneTenant
<1>2. ASSUME NEW r \in Reqs, req' = [req EXCEPT ![r] = Idle],
             UNCHANGED <<status, elsewhere, invite>>
      PROVE  EmailInv'
  BY <1>1, <1>2 DEF Idle, Request
<1>3. ASSUME NEW r \in Reqs, Start(r) PROVE EmailInv'
  <2>1. UNCHANGED <<status, elsewhere, invite>>
    BY <1>3 DEF Start, LoadDeactivate, LoadEnroll, LoadChangeRole, LoadInvite, LoadAccept, users
  <2>2. \A s \in Reqs : s # r => req'[s] = req[s]
    BY <1>3 DEF Start, LoadDeactivate, LoadEnroll, LoadChangeRole, LoadInvite, LoadAccept,
                Begin
  <2>3. req'[r].pc \in Deactivating => status[req'[r].who] # "none"
    BY <1>3 DEF Start, LoadDeactivate, LoadEnroll, LoadChangeRole, LoadInvite, LoadAccept,
                Begin, Request
  <2>4. QED
    BY <1>1, <2>1, <2>2, <2>3
<1>4. ASSUME NEW r \in Reqs,
             \/ CheckDeactivate(r) \/ CheckChangeRole(r)
             \/ LockEnroll(r) \/ CheckInvite(r) \/ CountActive(r)
      PROVE  EmailInv'
  <2>1. UNCHANGED <<status, elsewhere, invite>>
    BY <1>4 DEF CheckDeactivate, CheckChangeRole, CheckLastAdmin, LockEnroll, CheckInvite,
                CountActive, users
  <2>2. CASE Finish(r)
    BY <1>2, <2>1, <2>2 DEF Finish
  <2>3. ASSUME NEW c \in {"change_role_checked", "enroll_locked", "invite_checked"}, Goto(r, c)
        PROVE  EmailInv'
    <3>1. req' = [req EXCEPT ![r] = Moved(req[r], c, req[r].active)]
      BY <2>3, GotoMoves DEF Places, Holding, Waiting
    <3>2. QED
      BY <1>1, <2>1, <3>1 DEF Moved
  <2>4. ASSUME CheckDeactivate(r), Goto(r, "deactivate_checked") PROVE EmailInv'
    <3>1. req' = [req EXCEPT ![r] = Moved(req[r], "deactivate_checked", req[r].active)]
      BY <2>4, GotoMoves DEF Places, Holding
    <3>2. status[req[r].who] # "none"
      BY <2>4 DEF CheckDeactivate, CheckLastAdmin, EmailInv
    <3>3. QED
      BY <1>1, <2>1, <3>1, <3>2 DEF Moved
  <2>5. CASE CountActive(r)
    BY <1>1, <2>1, <2>5, CountMoves DEF Moved
  <2>6. QED
    BY <1>4, <2>2, <2>3, <2>4, <2>5 DEF CheckDeactivate, CheckChangeRole, CheckLastAdmin,
       LockEnroll, CheckInvite
<1>5. ASSUME NEW r \in Reqs, CommitChangeRole(r) \/ CommitEnroll(r) \/ Abort(r) PROVE EmailInv'
  BY <1>2, <1>5 DEF CommitChangeRole, CommitEnroll, Abort, Finish, users
<1>6. ASSUME NEW r \in Reqs, CommitDeactivate(r) PROVE EmailInv'
  <2>1. /\ UNCHANGED <<elsewhere, invite>>
        /\ req[r].who \in People
        /\ req' = [req EXCEPT ![r] = Idle]
        /\ status' = [status EXCEPT ![req[r].who] = "deactivated"]
        /\ status[req[r].who] # "none"
    BY <1>6 DEF CommitDeactivate, Finish, ArgsOK, EmailInv
  <2>2. \A p \in People : status'[p] = "none" <=> status[p] = "none"
    BY <2>1
  <2>3. OneEmailOneTenant'
    BY <2>1, <2>2 DEF EmailInv, OneEmailOneTenant, InvitesOK
  <2>4. QED
    BY <2>1, <2>2, <2>3 DEF EmailInv, Idle, Request, ArgsOK
<1>7. ASSUME NEW r \in Reqs, InsertInvite(r) PROVE EmailInv'
  <2>1. UNCHANGED <<status, elsewhere>> /\ req' = [req EXCEPT ![r] = Idle]
    BY <1>7 DEF InsertInvite, users, Finish
  <2>2. CASE UNCHANGED invite
    BY <1>2, <2>1, <2>2
  <2>3. ASSUME NEW i \in Invites, NEW m, m.state = "pending", invite' = [invite EXCEPT ![i] = m]
        PROVE  EmailInv'
    BY <2>1, <2>3 DEF EmailInv, OneEmailOneTenant, Idle, Request
  <2>4. QED
    BY <1>7, <2>2, <2>3 DEF InsertInvite
<1>8. ASSUME NEW r \in Reqs, CommitAccept(r) PROVE EmailInv'
  <2> DEFINE i == req[r].inv
             p == invite[i].email
  <2>1. i \in Invites /\ invite[i] \in InviteType /\ p \in People
    BY <1>8 DEF CommitAccept, ArgsOK, AcceptsOK, InvitesOK
  <2>2. req' = [req EXCEPT ![r] = Idle] /\ UNCHANGED elsewhere
    BY <1>8 DEF CommitAccept, Finish
  <2>3. CASE UNCHANGED <<users, invite, slips>>
    BY <1>2, <2>2, <2>3 DEF users
  <2>4. CASE /\ p \notin Known
             /\ status' = [status EXCEPT ![p] = "active"]
             /\ invite' = [invite EXCEPT ![i].state = "accepted"]
    <3> HIDE DEF i, p
    <3>1. status[p] = "none" /\ p \notin elsewhere
      BY <2>1, <2>4 DEF Known
    <3>2. \A q \in People : status[q] # "none" => status'[q] # "none"
      BY <2>4
    <3>3. \A j \in Invites : j # i => invite'[j] = invite[j]
      BY <2>4
    <3>4. invite'[i].state = "accepted" /\ invite'[i].email = invite[i].email
      BY <2>1, <2>4, AcceptedInvite
    <3>5. \A q \in elsewhere : status'[q] = "none"
      BY <2>4, <3>1 DEF EmailInv, OneEmailOneTenant
    <3>6. ASSUME NEW j \in Invites, invite'[j].state = "accepted" PROVE status'[invite'[j].email] # "none"
      <4>1. CASE j = i
        BY <2>1, <2>4, <3>4, <4>1 DEF p
      <4>2. CASE j # i
        BY <3>2, <3>3, <3>6, <4>2 DEF EmailInv, OneEmailOneTenant, InvitesOK
      <4>3. QED
        BY <4>1, <4>2
    <3>7. ASSUME NEW j \in Invites, j # i, invite'[j].state = "accepted"
          PROVE  invite'[j].email # invite'[i].email
      BY <3>1, <3>3, <3>4, <3>7 DEF EmailInv, OneEmailOneTenant, p
    <3>8. ASSUME NEW j \in Invites, NEW k \in Invites, j # i, k # i,
                 invite'[j].state = "accepted", invite'[k].state = "accepted",
                 invite'[j].email = invite'[k].email
          PROVE  j = k
      BY <3>3, <3>8 DEF EmailInv, OneEmailOneTenant
    <3>9. OneEmailOneTenant'
      BY <2>2, <3>5, <3>6, <3>7, <3>8 DEF OneEmailOneTenant
    <3>10. QED
      BY <2>2, <3>2, <3>9 DEF EmailInv, Idle, Request, ArgsOK
  <2>5. QED
    BY <1>8, <2>3, <2>4 DEF CommitAccept
<1>9. ASSUME NEW i \in Invites, Expire(i) PROVE EmailInv'
  <2>1. UNCHANGED <<status, elsewhere, req>>
    BY <1>9 DEF Expire, users
  <2>2. /\ invite' = [invite EXCEPT ![i].state = "expired"]
        /\ \A j \in Invites : j # i => invite'[j] = invite[j]
    BY <1>9 DEF Expire
  <2>3. invite'[i].state = "expired"
    BY <2>2 DEF InviteType
  <2>4. QED
    BY <2>1, <2>2, <2>3 DEF EmailInv, OneEmailOneTenant
<1>10. ASSUME NEW p \in People, SignupElsewhere(p) PROVE EmailInv'
  <2>1. UNCHANGED <<status, invite, req>> /\ elsewhere' = elsewhere \cup {p} /\ status[p] = "none"
    BY <1>10 DEF SignupElsewhere, users, Known
  <2>2. QED
    BY <2>1 DEF EmailInv, OneEmailOneTenant
<1>11. ASSUME NEW r \in Reqs, NEW s \in Reqs, BreakDeadlock(r, s) PROVE EmailInv'
  BY <1>5, <1>11, VictimAborts
<1>12. CASE UNCHANGED vars
  BY <1>12 DEF vars, EmailInv, OneEmailOneTenant
<1>13. QED
  BY <1>3, <1>4, <1>5, <1>6, <1>7, <1>8, <1>9, <1>10, <1>11, <1>12 DEF Next, Step

\* An address never belongs to two tenants, nor an accepted invitation to two
\* users or none.
THEOREM EmailSafe == Spec => []OneEmailOneTenant
<1>1. EmailInv => OneEmailOneTenant
  BY DEF EmailInv
<1>2. Spec => []EmailInv
  BY EmailInit, EmailNext, BaseInvariant, PTL DEF Spec
<1>3. QED
  BY <1>1, <1>2, PTL

-----------------------------------------------------------------------------
(* What Seats promises.  The insertion of an invitation relies on what      *)
(* three statements have read before.  The tenant row keeps it true: only   *)
(* its holder makes or deactivates users and inserts invitations, and       *)
(* whatever else happens to the invitations ends them.                      *)

Offering == {"invite_checked", "invite_counted"}

\* The address looked up is still nobody's, and no live invitation is for it.
OfferInv ==
    \A r \in Reqs : req[r].pc \in Offering =>
        /\ status[req[r].who] = "none"
        /\ \A i \in Invites : invite[i].state = "pending" => invite[i].email # req[r].who

\* Nobody is being invited at the start.
LEMMA OfferInit == Init => OfferInv
  BY DEF Init, OfferInv, Offering, Idle, Request

\* One case for each action that moves an invitation on, or moves something
\* under it.
LEMMA OfferNext == Base /\ OfferInv /\ [Next]_vars => OfferInv'
<1> SUFFICES ASSUME Base, OfferInv, [Next]_vars PROVE OfferInv'
  OBVIOUS
<1> USE DEF Base, TypeOK
<1>1. ASSUME UNCHANGED status,
             \A i \in Invites : invite'[i].state = "pending" => invite'[i] = invite[i],
             \A s \in Reqs : req'[s].pc \in Offering =>
                 req[s].pc \in Offering /\ req'[s].who = req[s].who
      PROVE  OfferInv'
  BY <1>1 DEF OfferInv
<1>2. ASSUME NEW r \in Reqs, req' = [req EXCEPT ![r] = Idle], UNCHANGED <<status, invite>>
      PROVE  OfferInv'
  BY <1>1, <1>2 DEF Idle, Request, Offering
<1>3. ASSUME NEW r \in Reqs, Start(r) PROVE OfferInv'
  <2>1. UNCHANGED <<status, invite>>
    BY <1>3 DEF Start, LoadDeactivate, LoadEnroll, LoadChangeRole, LoadInvite, LoadAccept, users
  <2>2. (\A s \in Reqs : s # r => req'[s] = req[s]) /\ req'[r].pc \notin Offering
    BY <1>3 DEF Start, LoadDeactivate, LoadEnroll, LoadChangeRole, LoadInvite, LoadAccept,
                Begin, Request, Offering
  <2>3. QED
    BY <1>1, <2>1, <2>2
<1>4. ASSUME NEW r \in Reqs, CheckDeactivate(r) \/ CheckChangeRole(r) \/ LockEnroll(r)
      PROVE  OfferInv'
  <2>1. UNCHANGED <<status, invite>>
    BY <1>4 DEF CheckDeactivate, CheckChangeRole, CheckLastAdmin, LockEnroll, users
  <2>2. CASE Finish(r)
    BY <1>2, <2>1, <2>2 DEF Finish
  <2>3. ASSUME NEW c \in {"deactivate_checked", "change_role_checked", "enroll_locked"}, Goto(r, c)
        PROVE  OfferInv'
    <3>1. req' = [req EXCEPT ![r] = Moved(req[r], c, req[r].active)]
      BY <2>3, GotoMoves DEF Places, Holding, Waiting
    <3>2. QED
      BY <1>1, <2>1, <3>1 DEF Moved, Offering
  <2>4. QED
    BY <1>4, <2>2, <2>3 DEF CheckDeactivate, CheckChangeRole, CheckLastAdmin, LockEnroll
<1>5. ASSUME NEW r \in Reqs, CheckInvite(r) PROVE OfferInv'
  <2>1. UNCHANGED <<status, invite>>
    BY <1>5 DEF CheckInvite, users
  <2>2. CASE Finish(r)
    BY <1>2, <2>1, <2>2 DEF Finish
  <2>3. CASE ~EmailTaken(req[r].who) /\ Goto(r, "invite_checked")
    <3>1. req' = [req EXCEPT ![r] = Moved(req[r], "invite_checked", req[r].active)]
      BY <2>3, GotoMoves DEF Places, Holding
    <3>2. req[r].who \in People
      BY <1>5 DEF CheckInvite, ArgsOK
    <3>3. /\ status[req[r].who] = "none"
          /\ \A i \in Invites : invite[i].state = "pending" => invite[i].email # req[r].who
      BY <2>3, <3>2 DEF EmailTaken, Known, Pending
    <3>4. QED
      BY <2>1, <3>1, <3>3 DEF OfferInv, Moved
  <2>4. QED
    BY <1>5, <2>2, <2>3 DEF CheckInvite
<1>6. ASSUME NEW r \in Reqs, CountActive(r) PROVE OfferInv'
  <2>1. req' = [req EXCEPT ![r] = Moved(req[r], "invite_counted", Cardinality(Active))]
    BY <1>6, CountMoves
  <2>2. req[r].pc \in Offering /\ UNCHANGED <<status, invite>>
    BY <1>6 DEF CountActive, Offering, users
  <2>3. QED
    BY <1>1, <2>1, <2>2 DEF Moved
<1>7. ASSUME NEW r \in Reqs, CommitChangeRole(r) \/ CommitEnroll(r) \/ Abort(r) PROVE OfferInv'
  BY <1>2, <1>7 DEF CommitChangeRole, CommitEnroll, Abort, Finish, users
<1>8. ASSUME NEW r \in Reqs, CommitDeactivate(r) \/ InsertInvite(r) \/ CommitAccept(r) PROVE OfferInv'
  <2>1. \A s \in Reqs : s # r => req[s].pc \notin Offering
    BY <1>8 DEF CommitDeactivate, InsertInvite, CommitAccept, LockOK, Holding, Offering
  <2>2. req' = [req EXCEPT ![r] = Idle]
    BY <1>8 DEF CommitDeactivate, InsertInvite, CommitAccept, Finish
  <2>3. QED
    BY <2>1, <2>2 DEF OfferInv, Idle, Request, Offering
<1>9. ASSUME NEW i \in Invites, Expire(i) PROVE OfferInv'
  <2>1. invite' = [invite EXCEPT ![i].state = "expired"] /\ UNCHANGED <<status, req>>
    BY <1>9 DEF Expire, users
  <2>2. invite'[i].state = "expired" /\ \A j \in Invites : j # i => invite'[j] = invite[j]
    BY <2>1 DEF InviteType
  <2>3. QED
    BY <1>1, <2>1, <2>2
<1>10. ASSUME NEW p \in People, SignupElsewhere(p) PROVE OfferInv'
  BY <1>1, <1>10 DEF SignupElsewhere, users
<1>11. ASSUME NEW r \in Reqs, NEW s \in Reqs, BreakDeadlock(r, s) PROVE OfferInv'
  BY <1>7, <1>11, VictimAborts
<1>12. CASE UNCHANGED vars
  BY <1>1, <1>12 DEF vars
<1>13. QED
  BY <1>3, <1>4, <1>5, <1>6, <1>7, <1>8, <1>9, <1>10, <1>11, <1>12 DEF Next, Step

\* An expired invitation keeps its address and its role.
LEMMA ExpiredInvite ==
    ASSUME invite \in [Invites -> InviteType], NEW i \in Invites
    PROVE  [invite EXCEPT ![i].state = "expired"] =
               [invite EXCEPT ![i] = [email |-> invite[i].email, role |-> invite[i].role,
                                      state |-> "expired"]]
<1>1. ASSUME NEW m \in InviteType
      PROVE  [m EXCEPT !.state = "expired"] = [email |-> m.email, role |-> m.role, state |-> "expired"]
  BY DEF InviteType
<1>2. invite[i] \in InviteType
  OBVIOUS
<1>3. QED
  BY <1>1, <1>2

\* What Seats reads in the tables is what Membership counts.
LEMMA SeatsRead ==
    /\ Promise!Seated = Active /\ Promise!Cardinality(Promise!Seated) = Cardinality(Active)
    /\ Promise!Waiting = Pending /\ Promise!Cardinality(Promise!Waiting) = Cardinality(Pending)
<1>1. Promise!Seated = Active /\ Promise!Waiting = Pending
  BY DEF Promise!Seated, Promise!Waiting, Active, Pending, OfferOf
<1>2. \A S : Promise!Cardinality(S) = Cardinality(S)
  BY DEF Promise!Cardinality, Cardinality
<1>3. QED
  BY <1>1, <1>2

\* A row of invites that changes is an offer that changes.
LEMMA OfferRow ==
    ASSUME NEW i \in Invites, NEW p, NEW k, NEW st,
           invite' = [invite EXCEPT ![i] = [email |-> p, role |-> k, state |-> st]],
           invite \in [Invites -> InviteType]
    PROVE  OfferOf' = [OfferOf EXCEPT ![i] = [to |-> p, state |-> st]]
<1>1. /\ invite'[i].email = p /\ invite'[i].state = st
      /\ \A j \in Invites : j # i => invite'[j] = invite[j]
  OBVIOUS
<1>2. QED
  BY <1>1 DEF OfferOf

\* One case for each action that Seats has a name for.
LEMMA StepKept ==
    Base /\ SeatInv /\ EmailInv /\ OfferInv /\ [Next]_vars => [Promise!Next]_(Promise!vars)
<1> SUFFICES ASSUME Base, SeatInv, EmailInv, OfferInv, [Next]_vars
             PROVE  Promise!Next \/ UNCHANGED Promise!vars
  OBVIOUS
<1> USE DEF Base, TypeOK
<1>1. ASSUME UNCHANGED <<status, invite>> PROVE UNCHANGED Promise!vars
  BY <1>1 DEF Promise!vars, OfferOf
<1>2. ASSUME NEW r \in Reqs, InsertInvite(r), ~UNCHANGED invite PROVE Promise!Next
  <2>1. PICK i \in Invites :
           /\ invite[i].state = "none"
           /\ invite' = [invite EXCEPT ![i] =
                  [email |-> req[r].who, role |-> req[r].ask, state |-> "pending"]]
    BY <1>2 DEF InsertInvite
  <2>2. /\ req[r].who \in People /\ status[req[r].who] = "none"
        /\ \A j \in Pending : invite[j].email # req[r].who
    BY <1>2 DEF InsertInvite, ArgsOK, OfferInv, Offering, Pending
  <2>3. Cardinality(Active) + Cardinality(Pending) < SeatCap
    BY <1>2 DEF InsertInvite, SeatsLeft, SeatInv
  <2>4. OfferOf' = [OfferOf EXCEPT ![i] = [to |-> req[r].who, state |-> "pending"]]
    BY <2>1, OfferRow
  <2>5. UNCHANGED status
    BY <1>2 DEF InsertInvite, users
  <2>6. OfferOf[i].state = "none" /\ \A j \in Pending : OfferOf[j].to # req[r].who
    BY <2>1, <2>2 DEF OfferOf, Pending
  <2>7. Promise!Offer(i, req[r].who)
    BY <2>2, <2>3, <2>4, <2>5, <2>6, SeatsRead DEF Promise!Offer
  <2>8. QED
    BY <2>2, <2>7 DEF Promise!Next
<1>3. ASSUME NEW r \in Reqs, CommitDeactivate(r) PROVE Promise!Next \/ UNCHANGED Promise!vars
  <2>1. /\ req[r].who \in People /\ status[req[r].who] \in {"active", "deactivated"}
        /\ status' = [status EXCEPT ![req[r].who] = "deactivated"]
        /\ UNCHANGED invite
    BY <1>3 DEF CommitDeactivate, ArgsOK, EmailInv
  <2>2. UNCHANGED OfferOf
    BY <2>1 DEF OfferOf
  <2>3. CASE status[req[r].who] = "active"
    BY <2>1, <2>2, <2>3 DEF Promise!Leave, Promise!Next
  <2>4. CASE status[req[r].who] = "deactivated"
    BY <1>1, <2>1, <2>4
  <2>5. QED
    BY <2>1, <2>3, <2>4
<1>4. ASSUME NEW r \in Reqs, CommitAccept(r), ~UNCHANGED <<status, invite>> PROVE Promise!Next
  <2> DEFINE i == req[r].inv
             p == invite[i].email
  <2>1. i \in Invites /\ invite[i].state \in {"pending", "expired"} /\ p \in People
    BY <1>4 DEF CommitAccept, ArgsOK, AcceptsOK, InvitesOK
  <2>2. /\ p \notin Known
        /\ status' = [status EXCEPT ![p] = "active"]
        /\ invite' = [invite EXCEPT ![i].state = "accepted"]
    BY <1>4 DEF CommitAccept, users
  <2>3. status[p] = "none"
    BY <2>1, <2>2 DEF Known
  <2> HIDE DEF i, p
  <2>4. OfferOf[i].to = p /\ OfferOf[i].state \in {"pending", "expired"}
    BY <2>1 DEF OfferOf, p
  <2>5. OfferOf' = [OfferOf EXCEPT ![i] = [to |-> p, state |-> "accepted"]]
    <3>1. invite' = [invite EXCEPT ![i] = [email |-> p, role |-> invite[i].role,
                                           state |-> "accepted"]]
      BY <2>1, <2>2, AcceptedInvite DEF p
    <3>2. QED
      BY <2>1, <3>1, OfferRow
  <2>6. Promise!Take(i)
    BY <2>2, <2>3, <2>4, <2>5 DEF Promise!Take
  <2>7. QED
    BY <2>1, <2>6 DEF Promise!Next
<1>5. ASSUME NEW i \in Invites, Expire(i) PROVE Promise!Next
  <2>1. /\ invite[i].state = "pending" /\ UNCHANGED status
        /\ invite' = [invite EXCEPT ![i].state = "expired"]
    BY <1>5 DEF Expire, users
  <2>2. OfferOf' = [OfferOf EXCEPT ![i] = [to |-> invite[i].email, state |-> "expired"]]
    <3>1. invite' = [invite EXCEPT ![i] = [email |-> invite[i].email, role |-> invite[i].role,
                                           state |-> "expired"]]
      BY <2>1, ExpiredInvite
    <3>2. QED
      BY <3>1, OfferRow
  <2>3. OfferOf[i].state = "pending" /\ OfferOf[i].to = invite[i].email
    BY <2>1 DEF OfferOf
  <2>4. Promise!Lapse(i)
    BY <2>1, <2>2, <2>3 DEF Promise!Lapse
  <2>5. QED
    BY <2>4 DEF Promise!Next
<1>6. QED
  BY <1>1, <1>2, <1>3, <1>4, <1>5 DEF Next, Start, Step, Abort, vars, users, LoadDeactivate,
     LoadEnroll, LoadChangeRole, LoadInvite, LoadAccept, CheckDeactivate, CheckChangeRole,
     CheckLastAdmin, CommitChangeRole, LockEnroll, CommitEnroll, CheckInvite, CountActive,
     InsertInvite, SignupElsewhere, BreakDeadlock

\* An invitation is offered as if its address and the seats were looked at in
\* one moment, and brings one user once, whatever requests overlap.
THEOREM SeatsPromise == Spec => SeatsKept
<1>1. Init => Promise!Init
  <2>1. SUFFICES ASSUME Init PROVE Promise!Init
    OBVIOUS
  <2>2. Active = Staff
    BY <2>1 DEF Init, Active
  <2>3. Promise!Cardinality(Promise!Seated) <= SeatCap
    BY <2>2, SeatsRead
  <2>4. \A i \in Invites : OfferOf[i].state = "none"
    BY <2>1 DEF Init, OfferOf, NoInvite
  <2>5. status \in [People -> {"none", "active"}]
    BY <2>1 DEF Init
  <2>6. QED
    BY <2>3, <2>4, <2>5 DEF Promise!Init
<1>2. Spec => [](SeatInv /\ EmailInv /\ OfferInv)
  BY SeatInit, SeatNext, EmailInit, EmailNext, OfferInit, OfferNext, BaseInvariant, PTL DEF Spec
<1>3. QED
  BY <1>1, <1>2, StepKept, BaseInvariant, PTL DEF Spec, SeatsKept, Promise!Spec
=============================================================================
