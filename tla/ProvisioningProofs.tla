------------------------- MODULE ProvisioningProofs -------------------------
(***************************************************************************)
(* Safety of Provisioning for every number of companies, tokens and        *)
(* requests: a company that is active has all of its tables, and nothing   *)
(* is created for an address that nobody has verified.                     *)
(*                                                                         *)
(* Inv says what makes the steps of an actor safe however late they come:  *)
(* what an actor has passed (a verified address, a schema, its migrations) *)
(* is never undone, and the statuses a session may still hold of a tenant  *)
(* that was pending or provisioned lead to a status of a verified tenant.  *)
(***************************************************************************)
EXTENDS Provisioning, TLAPS

Provisioned == {"create_schema", "upgrade", "activate"}

\* What an actor relies on.
JobOK(j) ==
    /\ j.pc = "verify" => /\ j.t \in Tenants /\ j.k \in Tokens
                          /\ j.seen # "none"
                          /\ j.seen \in {"provisioning", "active"} => j.t \in verified
                          /\ status[j.t] # "none" /\ token[j.k].state # "none"
    /\ j.pc \in Provisioned => j.t \in verified
    /\ j.pc = "upgrade" => schema[j.t] # "none"
    /\ j.pc = "activate" => schema[j.t] = "migrated"

\* A company is verified exactly when it is being provisioned or active.
VerifiedOK == \A t \in Tenants : t \in verified <=> status[t] \in {"provisioning", "active"}

\* A token that exists belongs to a company that has signed up.
TokensOK == \A k \in Tokens : token[k].state # "none" =>
                token[k].of \in Tenants /\ status[token[k].of] # "none"

Inv == /\ TypeOK
       /\ \A a \in Actors : JobOK(job[a])
       /\ VerifiedOK
       /\ TokensOK
       /\ todo \subseteq verified
       /\ \A t \in Tenants : schema[t] # "none" => t \in verified
       /\ ActiveHasSchema

USE WorkerAssumption, NoneAssumption

\* Nobody has signed up at the start.
LEMMA InvInit == Init => Inv
<1> SUFFICES ASSUME Init PROVE Inv
  OBVIOUS
<1>1. TypeOK
  BY DEF Init, TypeOK, Statuses, TokenType, NoToken, JobType, Idle, Job
<1>2. \A a \in Actors : JobOK(job[a])
  BY DEF Init, JobOK, Idle, Job, Provisioned
<1>3. QED
  BY <1>1, <1>2 DEF Init, Inv, VerifiedOK, TokensOK, NoToken, ActiveHasSchema

\* A step that undoes nothing takes nothing back from the actors.
LEMMA JobsKept ==
    ASSUME Inv, verified \subseteq verified',
           \A t \in Tenants : /\ status[t] # "none" => status'[t] # "none"
                              /\ schema[t] # "none" => schema'[t] # "none"
                              /\ schema[t] = "migrated" => schema'[t] = "migrated",
           \A k \in Tokens : token[k].state # "none" => token'[k].state # "none"
    PROVE  \A a \in Actors : job'[a] = job[a] => JobOK(job[a])'
  BY DEF Inv, JobOK, Provisioned, TypeOK

\* The same when one actor goes on with another job.
LEMMA JobStep ==
    ASSUME Inv, verified \subseteq verified',
           \A t \in Tenants : /\ status[t] # "none" => status'[t] # "none"
                              /\ schema[t] # "none" => schema'[t] # "none"
                              /\ schema[t] = "migrated" => schema'[t] = "migrated",
           \A k \in Tokens : token[k].state # "none" => token'[k].state # "none",
           NEW a \in Actors, NEW j \in JobType, job' = [job EXCEPT ![a] = j], JobOK(j)'
    PROVE  job' \in [Actors -> JobType] /\ (\A c \in Actors : JobOK(job[c]))'
<1>1. \A c \in Actors : job'[c] = job[c] => JobOK(job[c])'
  BY JobsKept
<1>2. job'[a] = j /\ \A c \in Actors : c # a => job'[c] = job[c]
  BY DEF Inv, TypeOK
<1>3. JobOK(job[a])'
  BY <1>2 DEF JobOK
<1>4. job' \in [Actors -> JobType]
  BY DEF Inv, TypeOK
<1>5. QED
  BY <1>1, <1>2, <1>3, <1>4

\* One case for each action that a step of the specification can be.
LEMMA InvNext == Inv /\ [Next]_vars => Inv'
<1> SUFFICES ASSUME Inv, [Next]_vars PROVE Inv'
  OBVIOUS
<1> USE DEF Inv, TypeOK
<1>0. JobOK(Idle)' /\ Idle \in JobType
  BY DEF JobOK, Idle, Job, Provisioned, JobType, Statuses
<1>1. ASSUME NEW t \in Tenants, NEW k \in Tokens, Signup(t, k) \/ Resend(t, k) PROVE Inv'
  <2>1. /\ \/ status[t] = "none" /\ status' = [status EXCEPT ![t] = "pending_verification"]
           \/ status[t] = "pending_verification" /\ UNCHANGED status
        /\ token' = [token EXCEPT ![k] = [of |-> t, state |-> "live"]]
        /\ UNCHANGED <<schema, verified, job, todo>>
    BY <1>1 DEF Signup, Resend, Issue
  <2>2. TypeOK'
    BY <2>1 DEF Statuses, TokenType
  <2>3. (\A a \in Actors : JobOK(job[a]))'
    BY <2>1, JobsKept
  <2>4. (VerifiedOK /\ TokensOK /\ ActiveHasSchema)'
    BY <2>1 DEF VerifiedOK, TokensOK, ActiveHasSchema
  <2>5. QED
    BY <2>1, <2>2, <2>3, <2>4
<1>2. ASSUME NEW k \in Tokens, Expire(k) PROVE Inv'
  <2>1. /\ token[k].state = "live"
        /\ token' = [token EXCEPT ![k] = [of |-> token[k].of, state |-> "expired"]]
        /\ UNCHANGED <<status, schema, verified, job, todo>>
    BY <1>2 DEF Expire
  <2>2. TypeOK'
    BY <2>1 DEF TokenType
  <2>3. (\A a \in Actors : JobOK(job[a]))'
    BY <2>1, JobsKept
  <2>4. QED
    BY <2>1, <2>2, <2>3 DEF VerifiedOK, TokensOK, ActiveHasSchema
<1>3. ASSUME NEW r \in Reqs, NEW k \in Tokens, LoadVerify(r, k) PROVE Inv'
  <2>1. PICK t, j : t = token[k].of /\ j = Job("verify", t, k, status[t])
    OBVIOUS
  <2>2. job' = [job EXCEPT ![r] = j] /\ UNCHANGED <<status, schema, verified, token, todo>>
    BY <1>3, <2>1 DEF LoadVerify
  <2>3. /\ t \in Tenants /\ status[t] # "none" /\ token[k].state # "none" /\ r \in Actors
        /\ status[t] \in Statuses
    BY <1>3, <2>1 DEF LoadVerify, TokensOK, Actors
  <2>4. j \in JobType /\ JobOK(j)'
    BY <2>1, <2>2, <2>3 DEF JobType, JobOK, Job, VerifiedOK, Provisioned
  <2>5. TypeOK' /\ (\A a \in Actors : JobOK(job[a]))'
    BY <2>2, <2>3, <2>4, JobStep
  <2>6. QED
    BY <2>2, <2>5 DEF VerifiedOK, TokensOK, ActiveHasSchema
<1>4. ASSUME NEW r \in Reqs, CommitVerify(r) PROVE Inv'
  <2>1. PICK t, k, j : /\ t = job[r].t /\ k = job[r].k
                       /\ j = Job("create_schema", t, k, job[r].seen)
    OBVIOUS
  <2>2. /\ r \in Actors /\ t \in Tenants /\ k \in Tokens
        /\ status[t] # "none" /\ token[k].state # "none" /\ job[r].seen \in Statuses \ {"none"}
        /\ job[r].seen \in {"provisioning", "active"} => t \in verified
    BY <1>4, <2>1 DEF CommitVerify, At, JobOK, Actors, JobType
  <2>3. /\ token' = [token EXCEPT ![k] = [of |-> token[k].of, state |-> "consumed"]]
        /\ verified' = verified \cup {t}
        /\ job' = [job EXCEPT ![r] = j]
        /\ UNCHANGED <<schema, todo>>
    BY <1>4, <2>1 DEF CommitVerify, Goto
  <2>4. PICK st \in {"provisioning", "active"} :
           status' = [status EXCEPT ![t] = st] /\ (st = "active" => status[t] = "active")
    <3>1. CASE job[r].seen = "pending_verification"
      BY <1>4, <2>1, <3>1 DEF CommitVerify, Flush
    <3>2. CASE job[r].seen \in {"provisioning", "active"}
      <4>1. status[t] \in {"provisioning", "active"}
        BY <2>2, <3>2 DEF VerifiedOK
      <4>2. status' = [status EXCEPT ![t] = status[t]]
        BY <1>4, <2>1, <3>2 DEF CommitVerify, Flush
      <4>3. QED
        BY <4>1, <4>2
    <3>3. QED
      BY <2>2, <3>1, <3>2 DEF Statuses
  <2>5. j \in JobType /\ JobOK(j)'
    BY <2>1, <2>2, <2>3 DEF JobType, JobOK, Job, Provisioned
  <2>6. job' \in [Actors -> JobType] /\ (\A a \in Actors : JobOK(job[a]))'
    BY <2>2, <2>3, <2>4, <2>5, JobStep
  <2>7. TypeOK'
    BY <2>2, <2>3, <2>4, <2>6 DEF Statuses, TokenType
  <2>8. TokensOK'
    BY <2>2, <2>3, <2>4 DEF TokensOK
  <2>9. (VerifiedOK /\ ActiveHasSchema)'
    BY <2>2, <2>3, <2>4 DEF VerifiedOK, ActiveHasSchema
  <2>10. QED
    BY <2>3, <2>6, <2>7, <2>8, <2>9
<1>5. ASSUME NEW a \in Actors, CreateSchema(a) \/ Upgrade(a) PROVE Inv'
  <2>1. PICK t : t = job[a].t
    OBVIOUS
  <2>2. t \in verified /\ t \in Tenants /\ schema[t] \in {"none", "empty", "migrated"}
    BY <1>5, <2>1 DEF CreateSchema, Upgrade, At, JobOK, Provisioned
  <2>3. PICK st \in {"empty", "migrated"}, pc \in {"upgrade", "activate"} :
           /\ schema' = [schema EXCEPT ![t] = st]
           /\ schema[t] = "migrated" => st = "migrated"
           /\ pc = "activate" => st = "migrated"
           /\ job' = [job EXCEPT ![a] = Job(pc, t, job[a].k, job[a].seen)]
    <3>1. CASE CreateSchema(a)
      <4>1. CASE schema[t] = "none"
        BY <2>1, <3>1, <4>1 DEF CreateSchema, Goto
      <4>2. CASE schema[t] # "none"
        BY <2>1, <2>2, <3>1, <4>2 DEF CreateSchema, Goto
      <4>3. QED
        BY <4>1, <4>2
    <3>2. CASE Upgrade(a)
      BY <2>1, <3>2 DEF Upgrade, Goto
    <3>3. QED
      BY <1>5, <3>1, <3>2
  <2>4. UNCHANGED <<status, verified, token, todo>>
    BY <1>5 DEF CreateSchema, Upgrade
  <2>5. PICK j : j = Job(pc, t, job[a].k, job[a].seen)
    OBVIOUS
  <2>6. j \in JobType /\ JobOK(j)'
    BY <2>2, <2>3, <2>4, <2>5 DEF JobType, JobOK, Job, Provisioned
  <2>7. job' \in [Actors -> JobType] /\ (\A c \in Actors : JobOK(job[c]))'
    BY <2>2, <2>3, <2>4, <2>5, <2>6, JobStep
  <2>8. TypeOK'
    BY <2>2, <2>3, <2>4, <2>7
  <2>9. (ActiveHasSchema /\ \A u \in Tenants : schema[u] # "none" => u \in verified)'
    BY <2>2, <2>3, <2>4 DEF ActiveHasSchema
  <2>10. QED
    BY <2>4, <2>7, <2>8, <2>9 DEF VerifiedOK, TokensOK
<1>6. ASSUME NEW a \in Actors, Rollback(a) \/ Activate(a) PROVE Inv'
  <2> DEFINE t == job[a].t
  <2>1. t \in verified /\ t \in Tenants /\ status[t] \in {"provisioning", "active"}
    BY <1>6 DEF Rollback, Activate, At, JobOK, Provisioned, VerifiedOK
  <2>2. /\ job' = [job EXCEPT ![a] = Idle]
        /\ UNCHANGED <<schema, verified, token, todo>>
    BY <1>6 DEF Rollback, Activate, Finish
  <2>3. \E st \in {"provisioning", "active"} :
           /\ status' = [status EXCEPT ![t] = st]
           /\ st = "active" => status[t] = "active" \/ schema[t] = "migrated"
    <3>1. CASE Rollback(a)
      <4>1. CASE status[t] = "active"
        BY <3>1, <4>1 DEF Rollback
      <4>2. CASE status[t] # "active"
        BY <3>1, <4>2 DEF Rollback
      <4>3. QED
        BY <4>1, <4>2
    <3>2. CASE Activate(a)
      BY <3>2 DEF Activate, At, JobOK
    <3>3. QED
      BY <1>6, <3>1, <3>2
  <2>4. TypeOK'
    BY <1>0, <2>1, <2>2, <2>3 DEF Statuses
  <2>5. (\A c \in Actors : JobOK(job[c]))'
    BY <1>0, <2>1, <2>2, <2>3, JobsKept
  <2>6. QED
    BY <2>1, <2>2, <2>3, <2>4, <2>5 DEF VerifiedOK, TokensOK, ActiveHasSchema
<1>7. CASE Poll
  <2>1. /\ todo' = {t \in Tenants : status[t] = "provisioning"}
        /\ UNCHANGED <<status, schema, verified, token, job>>
    BY <1>7 DEF Poll
  <2>2. (\A c \in Actors : JobOK(job[c]))'
    BY <2>1, JobsKept
  <2>3. QED
    BY <2>1, <2>2 DEF VerifiedOK, TokensOK, ActiveHasSchema
<1>8. ASSUME NEW t \in Tenants, Take(t) PROVE Inv'
  <2>1. PICK j : j = Job("create_schema", t, None, status[t])
    OBVIOUS
  <2>2. /\ job' = [job EXCEPT ![Worker] = j]
        /\ todo' = todo \ {t} /\ t \in verified
        /\ UNCHANGED <<status, schema, verified, token>>
    BY <1>8, <2>1 DEF Take
  <2>3. j \in JobType /\ JobOK(j)'
    BY <2>1, <2>2 DEF JobType, JobOK, Job, Provisioned
  <2>4. TypeOK' /\ (\A c \in Actors : JobOK(job[c]))'
    BY <2>2, <2>3, JobStep DEF Actors
  <2>5. QED
    BY <2>2, <2>4 DEF VerifiedOK, TokensOK, ActiveHasSchema
<1>9. ASSUME NEW a \in Actors, Stop(a) PROVE Inv'
  <2>1. /\ job' = [job EXCEPT ![a] = Idle] /\ todo' \subseteq todo
        /\ UNCHANGED <<status, schema, verified, token>>
    BY <1>9 DEF Stop, Finish
  <2>2. (\A c \in Actors : JobOK(job[c]))'
    BY <1>0, <2>1, JobsKept
  <2>3. QED
    BY <1>0, <2>1, <2>2 DEF VerifiedOK, TokensOK, ActiveHasSchema
<1>10. CASE UNCHANGED vars
  <2>1. UNCHANGED <<status, schema, verified, token, job, todo>>
    BY <1>10 DEF vars
  <2>2. (\A c \in Actors : JobOK(job[c]))'
    BY <2>1, JobsKept
  <2>3. QED
    BY <2>1, <2>2 DEF VerifiedOK, TokensOK, ActiveHasSchema
<1>11. QED
  BY <1>1, <1>2, <1>3, <1>4, <1>5, <1>6, <1>7, <1>8, <1>9, <1>10 DEF Next, ProvisionStep

\* The invariant holds in every reachable state.
THEOREM Invariant == Spec => []Inv
<1>1. Inv /\ [Next]_vars => Inv'
  BY InvNext
<1>2. QED
  BY <1>1, InvInit, PTL DEF Spec

\* The tables of onboarding and the jobs keep their types.
THEOREM TypeCorrect == Spec => []TypeOK
<1>1. Inv => TypeOK
  BY DEF Inv
<1>2. QED
  BY <1>1, Invariant, PTL

\* A company that lets its users log in has all of its tables, however many
\* verifications and workers provision it at the same time.
THEOREM ActiveSafe == Spec => []ActiveHasSchema
<1>1. Inv => ActiveHasSchema
  BY DEF Inv
<1>2. QED
  BY <1>1, Invariant, PTL

\* No schema before the address is verified, and a verified address never
\* leaves the company waiting for its verification.
THEOREM VerifySafe == Spec => []SchemaAfterVerify
<1>1. Inv => SchemaAfterVerify
  BY DEF Inv, SchemaAfterVerify, VerifiedOK
<1>2. QED
  BY <1>1, Invariant, PTL

\* What TakenBackByVerifyOnly says of a step.
LateVerify ==
    \A t \in Tenants : status[t] = "active" /\ status'[t] # "active" =>
        \E r \in Reqs : At(r, "verify") /\ job[r].t = t
                        /\ job[r].seen = "pending_verification" /\ ~At(r, "verify")'

\* Only the verification leaves another status than active in an active tenant,
\* and only when the one it loaded makes its assignment a change.
LEMMA LateVerifyStep == Inv /\ [Next]_vars => LateVerify
<1> SUFFICES ASSUME Inv, [Next]_vars,
                    NEW t \in Tenants, status[t] = "active", status'[t] # "active"
             PROVE  \E r \in Reqs : At(r, "verify") /\ job[r].t = t
                        /\ job[r].seen = "pending_verification" /\ ~At(r, "verify")'
  BY DEF LateVerify
<1>0. TypeOK /\ \A a \in Actors : JobOK(job[a])
  BY DEF Inv
<1>1. ASSUME NEW r \in Reqs, CommitVerify(r)
      PROVE  /\ At(r, "verify") /\ job[r].t = t
             /\ job[r].seen = "pending_verification" /\ ~At(r, "verify")'
  <2>1. job[r].seen \in Statuses \ {"none"} /\ r \in Actors /\ At(r, "verify")
    BY <1>0, <1>1 DEF CommitVerify, At, JobOK, TypeOK, JobType, Actors
  <2>2. job[r].seen # "active" /\ job[r].seen # "provisioning" /\ job[r].t = t
    BY <1>0, <1>1 DEF CommitVerify, Flush, TypeOK
  <2>3. job'[r].pc = "create_schema"
    BY <1>0, <1>1, <2>1 DEF CommitVerify, Goto, Job, TypeOK
  <2>4. QED
    BY <2>1, <2>2, <2>3 DEF Statuses, At
<1>2. ASSUME NEW a \in Actors, Rollback(a) \/ Activate(a) PROVE FALSE
  BY <1>0, <1>2 DEF Rollback, Activate, TypeOK
<1>3. ASSUME NEW u \in Tenants, NEW k \in Tokens, Signup(u, k) PROVE FALSE
  BY <1>0, <1>3 DEF Signup, TypeOK
<1>4. ~ UNCHANGED status
  OBVIOUS
<1>5. QED
  BY <1>1, <1>2, <1>3, <1>4 DEF Next, vars, ProvisionStep, Resend, Expire, LoadVerify,
     CreateSchema, Upgrade, Stop, Poll, Take

\* The compensation of a failed provisioning never takes an active company back,
\* nor does anything but a verification that read it while it was pending.
THEOREM TakenBackSafe == Spec => TakenBackByVerifyOnly
<1>1. Inv /\ [Next]_vars => [LateVerify]_vars
  BY LateVerifyStep
<1>2. Spec => [][LateVerify]_vars
  BY <1>1, Invariant, PTL DEF Spec
<1>3. QED
  BY <1>2 DEF TakenBackByVerifyOnly, LateVerify

-----------------------------------------------------------------------------
(* Onboarding is implemented. *)

\* The phase of a company is its status.
PhaseFor(st) ==
    CASE st = "none" -> "none" [] st = "pending_verification" -> "registered"
      [] st = "provisioning" -> "verified" [] st = "active" -> "ready"

LEMMA PhaseFacts ==
    ASSUME Inv, Inv'
    PROVE  \A t \in Tenants : PhaseOf(t) = PhaseFor(status[t]) /\ PhaseOf(t)' = PhaseFor(status'[t])
<1>1. \A t \in Tenants : PhaseOf(t) = PhaseFor(status[t])
  BY DEF Inv, VerifiedOK, TypeOK, Statuses, PhaseOf, PhaseFor
<1>2. \A t \in Tenants : PhaseOf(t)' = PhaseFor(status'[t])
  BY DEF Inv, VerifiedOK, TypeOK, Statuses, PhaseOf, PhaseFor
<1>3. QED
  BY <1>1, <1>2

\* The verifications that are late, when one actor goes on with another job.
LEMMA LateFacts ==
    ASSUME Inv, NEW a \in Actors, NEW j, job' = [job EXCEPT ![a] = j], NEW t \in Tenants
    PROVE  LateFor(t)' = IF a \in Reqs /\ j.pc = "verify" /\ j.t = t /\ j.seen = "pending_verification"
                         THEN LateFor(t) \cup {a} ELSE LateFor(t) \ {a}
<1>1. job'[a] = j /\ \A r \in Reqs : r # a => job'[r] = job[r]
  BY DEF Inv, TypeOK, Actors
<1>2. QED
  BY <1>1 DEF LateFor, At

\* A step that leaves the phase and the late verifications of every company.
LEMMA QuietStep ==
    ASSUME Inv, Inv', \A t \in Tenants : PhaseFor(status'[t]) = PhaseFor(status[t]) /\ LateFor(t)' = LateFor(t)
    PROVE  UNCHANGED Promise!vars
<1>1. \A t \in Tenants : PhaseOf(t)' = PhaseOf(t)
  BY PhaseFacts
<1>2. Phases' = Phases /\ Late' = Late
  BY <1>1 DEF Phases, Late
<1>3. QED
  BY <1>2 DEF Promise!vars

\* The phase of one company changes.
LEMMA PhaseStep ==
    ASSUME Inv, Inv', NEW t \in Tenants, NEW st, status' = [status EXCEPT ![t] = st]
    PROVE  Phases' = [Phases EXCEPT ![t] = PhaseFor(st)]
<1>1. status'[t] = st /\ \A u \in Tenants : u # t => status'[u] = status[u]
  BY DEF Inv, TypeOK
<1>2. QED
  BY <1>1, PhaseFacts DEF Phases

\* The actors whose step is no verification leave the late ones alone.
LEMMA NoVerification ==
    ASSUME Inv, NEW a \in Actors, ~At(a, "verify"), NEW j, j.pc # "verify",
           job' = [job EXCEPT ![a] = j]
    PROVE  \A t \in Tenants : LateFor(t)' = LateFor(t)
<1>1. \A t \in Tenants : a \notin LateFor(t)
  BY DEF LateFor
<1>2. \A t \in Tenants : LateFor(t)' = LateFor(t) \ {a}
  BY LateFacts
<1>3. QED
  BY <1>1, <1>2

\* Every step is one of Onboarding or leaves its variables.
LEMMA StepKept == Inv /\ Inv' /\ [Next]_vars => [Promise!Next]_(Promise!vars)
<1> SUFFICES ASSUME Inv, Inv', [Next]_vars PROVE Promise!Next \/ UNCHANGED Promise!vars
  OBVIOUS
<1>0. TypeOK /\ \A a \in Actors : JobOK(job[a])
  BY DEF Inv
<1>1. ASSUME NEW t \in Tenants, NEW k \in Tokens, Signup(t, k) PROVE Promise!Next
  <2>1. Phases' = [Phases EXCEPT ![t] = "registered"]
    BY <1>1, PhaseStep DEF Signup, PhaseFor
  <2>2. Phases[t] = "none"
    BY <1>1, PhaseFacts DEF Signup, PhaseFor, Phases
  <2>3. Late' = Late
    BY <1>1 DEF Signup, Late, LateFor, At
  <2>4. Promise!Register(t)
    BY <2>1, <2>2, <2>3 DEF Promise!Register
  <2>5. QED
    BY <2>4 DEF Promise!Next
<1>2. ASSUME UNCHANGED <<status, job>> PROVE UNCHANGED Promise!vars
  BY <1>2, QuietStep DEF LateFor, At
<1>3. ASSUME NEW r \in Reqs, NEW k \in Tokens, LoadVerify(r, k)
      PROVE  Promise!Next \/ UNCHANGED Promise!vars
  <2>1. PICK t, j : t = token[k].of /\ j = Job("verify", t, k, status[t])
    OBVIOUS
  <2>2. /\ job' = [job EXCEPT ![r] = j] /\ UNCHANGED status /\ r \in Actors
        /\ t \in Tenants /\ job[r] = Idle
    BY <1>3, <2>1 DEF LoadVerify, Inv, TokensOK, Actors
  <2>3. j.pc = "verify" /\ j.t = t /\ j.seen = status[t]
    BY <2>1 DEF Job
  <2>4. \A u \in Tenants : r \notin LateFor(u)
    BY <2>2 DEF LateFor, At, Idle, Job
  <2>5. CASE status[t] = "pending_verification"
    <3>1. LateFor(t)' = LateFor(t) \cup {r} /\ \A u \in Tenants : u # t => LateFor(u)' = LateFor(u) \ {r}
      BY <2>2, <2>3, <2>5, LateFacts
    <3>2. Late' = [Late EXCEPT ![t] = @ \cup {r}]
      <4>1. \A u \in Tenants : LateFor(u)' = IF u = t THEN LateFor(u) \cup {r} ELSE LateFor(u)
        BY <2>4, <3>1
      <4>2. QED
        BY <2>2, <4>1 DEF Late
    <3>3. Phases' = Phases
      BY <2>2, PhaseFacts DEF Phases
    <3>4. Phases[t] = "registered"
      BY <2>2, <2>5, PhaseFacts DEF Phases, PhaseFor
    <3>5. Promise!Start(t, r)
      BY <3>2, <3>3, <3>4 DEF Promise!Start
    <3>6. QED
      BY <2>2, <3>5 DEF Promise!Next
  <2>6. CASE status[t] # "pending_verification"
    <3>1. \A u \in Tenants : LateFor(u)' = LateFor(u) \ {r}
      BY <2>2, <2>3, <2>6, LateFacts
    <3>2. QED
      BY <2>2, <2>4, <3>1, QuietStep
  <2>7. QED
    BY <2>5, <2>6
<1>4. ASSUME NEW r \in Reqs, CommitVerify(r)
      PROVE  Promise!Next \/ UNCHANGED Promise!vars
  <2>1. PICK t, j : t = job[r].t /\ j = Job("create_schema", t, job[r].k, job[r].seen)
    OBVIOUS
  <2>2. /\ job' = [job EXCEPT ![r] = j] /\ j.pc = "create_schema"
        /\ r \in Actors /\ t \in Tenants /\ job[r].pc = "verify"
        /\ job[r].seen \in {"pending_verification", "provisioning", "active"}
    BY <1>0, <1>4, <2>1 DEF CommitVerify, Goto, At, JobOK, Job, Actors, TypeOK, JobType, Statuses
  <2>3. \A u \in Tenants : LateFor(u)' = LateFor(u) \ {r}
    BY <2>2, LateFacts
  <2>4. CASE job[r].seen = "pending_verification"
    <3>1. status' = [status EXCEPT ![t] = "provisioning"]
      BY <1>4, <2>1, <2>4 DEF CommitVerify, Flush
    <3>2. Phases' = [Phases EXCEPT ![t] = "verified"]
      BY <2>2, <3>1, PhaseStep DEF PhaseFor
    <3>3. r \in LateFor(t) /\ \A u \in Tenants : u # t => r \notin LateFor(u)
      BY <2>1, <2>2, <2>4 DEF LateFor, At
    <3>4. Late' = [Late EXCEPT ![t] = @ \ {r}] /\ r \in Late[t]
      <4>1. \A u \in Tenants : LateFor(u)' = IF u = t THEN LateFor(u) \ {r} ELSE LateFor(u)
        BY <2>3, <3>3
      <4>2. QED
        BY <2>2, <3>3, <4>1 DEF Late
    <3>5. Promise!Verify(t, r)
      BY <3>2, <3>4 DEF Promise!Verify
    <3>6. QED
      BY <2>2, <3>5 DEF Promise!Next
  <2>5. CASE job[r].seen # "pending_verification"
    <3>1. \A u \in Tenants : r \notin LateFor(u)
      BY <2>5 DEF LateFor
    <3>2. \A u \in Tenants : status'[u] = status[u]
      BY <1>0, <1>4, <2>2, <2>5 DEF CommitVerify, Flush, TypeOK
    <3>3. QED
      BY <2>3, <3>1, <3>2, QuietStep
  <2>6. QED
    BY <2>4, <2>5
<1>5. ASSUME NEW a \in Actors, CreateSchema(a) \/ Upgrade(a) PROVE UNCHANGED Promise!vars
  <2>1. PICK pc \in {"upgrade", "activate"} : Goto(a, pc) /\ ~At(a, "verify") /\ UNCHANGED status
    BY <1>5 DEF CreateSchema, Upgrade, At
  <2>2. PICK j : j = Job(pc, job[a].t, job[a].k, job[a].seen)
    OBVIOUS
  <2>3. job' = [job EXCEPT ![a] = j] /\ j.pc # "verify"
    BY <2>1, <2>2 DEF Goto, Job
  <2>4. \A t \in Tenants : LateFor(t)' = LateFor(t)
    BY <2>1, <2>3, NoVerification
  <2>5. QED
    BY <2>1, <2>4, QuietStep
<1>6. ASSUME NEW a \in Actors, Rollback(a) \/ Activate(a)
      PROVE  Promise!Next \/ UNCHANGED Promise!vars
  <2> DEFINE t == job[a].t
  <2>1. t \in Tenants /\ status[t] \in {"provisioning", "active"} /\ ~At(a, "verify")
    BY <1>6 DEF Inv, Rollback, Activate, At, JobOK, Provisioned, VerifiedOK, TypeOK
  <2>2. job' = [job EXCEPT ![a] = Idle] /\ Idle.pc # "verify"
    BY <1>6 DEF Rollback, Activate, Finish, Idle, Job
  <2>3. \A u \in Tenants : LateFor(u)' = LateFor(u)
    BY <2>1, <2>2, NoVerification
  <2>4. CASE Rollback(a)
    <3>1. status' = [status EXCEPT ![t] = IF status[t] = "active" THEN status[t] ELSE "provisioning"]
      BY <2>4 DEF Rollback
    <3>2. \A u \in Tenants : status'[u] = status[u]
      BY <1>0, <2>1, <3>1 DEF TypeOK
    <3>3. QED
      BY <2>3, <3>2, QuietStep
  <2>5. CASE Activate(a) /\ status[t] = "active"
    <3>1. \A u \in Tenants : status'[u] = status[u]
      BY <1>0, <2>1, <2>5 DEF Activate, TypeOK
    <3>2. QED
      BY <2>3, <3>1, QuietStep
  <2>6. CASE Activate(a) /\ status[t] = "provisioning"
    <3>1. Phases' = [Phases EXCEPT ![t] = "ready"]
      BY <2>1, <2>6, PhaseStep DEF Activate, PhaseFor
    <3>2. Phases[t] = "verified"
      BY <2>1, <2>6, PhaseFacts DEF Phases, PhaseFor
    <3>3. Promise!MakeReady(t)
      BY <2>3, <3>1, <3>2 DEF Promise!MakeReady, Late
    <3>4. QED
      BY <2>1, <3>3 DEF Promise!Next
  <2>7. QED
    BY <1>6, <2>1, <2>4, <2>5, <2>6
<1>7. ASSUME NEW t \in Tenants, Take(t) PROVE UNCHANGED Promise!vars
  <2>1. PICK j : j = Job("create_schema", t, None, status[t])
    OBVIOUS
  <2>2. /\ job' = [job EXCEPT ![Worker] = j] /\ j.pc # "verify" /\ UNCHANGED status
        /\ Worker \in Actors /\ ~At(Worker, "verify")
    BY <1>7, <2>1 DEF Take, Job, Idle, Actors, At
  <2>3. \A u \in Tenants : LateFor(u)' = LateFor(u)
    BY <2>2, NoVerification
  <2>4. QED
    BY <2>2, <2>3, QuietStep
<1>8. ASSUME NEW a \in Actors, Stop(a) PROVE Promise!Next \/ UNCHANGED Promise!vars
  <2>1. job' = [job EXCEPT ![a] = Idle] /\ Idle.pc # "verify" /\ UNCHANGED status
    BY <1>8 DEF Stop, Finish, Idle, Job
  <2>2. \A u \in Tenants : LateFor(u)' = LateFor(u) \ {a}
    BY <2>1, LateFacts
  <2>3. CASE \E t \in Tenants : a \in LateFor(t)
    <3>1. PICK t \in Tenants : a \in LateFor(t)
      BY <2>3
    <3>2. a \in Reqs /\ \A u \in Tenants : u # t => a \notin LateFor(u)
      BY <3>1 DEF LateFor
    <3>3. Late' = [Late EXCEPT ![t] = @ \ {a}] /\ a \in Late[t]
      BY <2>2, <3>1, <3>2 DEF Late
    <3>4. Phases' = Phases
      BY <2>1, PhaseFacts DEF Phases
    <3>5. Promise!Leave(t, a)
      BY <3>3, <3>4 DEF Promise!Leave
    <3>6. QED
      BY <3>2, <3>5 DEF Promise!Next
  <2>4. CASE \A t \in Tenants : a \notin LateFor(t)
    BY <2>1, <2>2, <2>4, QuietStep
  <2>5. QED
    BY <2>3, <2>4
<1>9. QED
  BY <1>1, <1>2, <1>3, <1>4, <1>5, <1>6, <1>7, <1>8
  DEF Next, vars, ProvisionStep, Resend, Expire, Poll

\* Onboarding keeps what it promises, for every number of companies, tokens and
\* requests: Provisioning implements Onboarding.
THEOREM OnboardingSafe == Spec => OnboardingKept
<1>1. Init => Promise!Init
  <2>1. SUFFICES ASSUME Init PROVE Phases = [t \in Tenants |-> "none"] /\ Late = [t \in Tenants |-> {}]
    BY DEF Promise!Init
  <2>2. \A t \in Tenants : PhaseOf(t) = "none"
    BY <2>1 DEF Init, PhaseOf
  <2>3. \A t \in Tenants : LateFor(t) = {}
    BY <2>1 DEF Init, LateFor, At, Idle, Job, Actors
  <2>4. QED
    BY <2>2, <2>3 DEF Phases, Late
<1>2. QED
  BY <1>1, StepKept, Invariant, PTL DEF Spec, OnboardingKept, Promise!Spec
=============================================================================
