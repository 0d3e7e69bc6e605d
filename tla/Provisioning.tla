---------------------------- MODULE Provisioning ----------------------------
(***************************************************************************)
(* From sign-up to a company that can be used: AuthService.signup,         *)
(* resend_verification and verify_email, TenantProvisioner, and the worker *)
(* that provisions what a verification has left half done.                 *)
(*                                                                         *)
(* A verification commits three times: the verified address, the schema,   *)
(* the active company; between the last two the migrations run in a        *)
(* transaction of their own.  The API and the worker may provision the     *)
(* same company at the same time, and either can stop at any point.        *)
(***************************************************************************)
EXTENDS Naturals

CONSTANTS
    Tenants,    \* companies, those that will sign up
    Tokens,     \* e-mail verification tokens, those to be issued included
    Reqs,       \* slots for verifications being served at the same time
    Worker,     \* the worker process
    None        \* absence of a value

ASSUME WorkerAssumption == Worker \notin Reqs
ASSUME NoneAssumption   == None \notin Tenants \cup Tokens

Actors == Reqs \cup {Worker}

VARIABLES
    status,     \* catalog.tenants.status, "none": no row
    schema,     \* the schema of the tenant: "none", "empty" or "migrated"
    verified,   \* the tenants whose administrator has email_verified_at
    token,      \* rows of email_verify_tokens
    job,        \* what each request slot and the worker are doing
    todo        \* the tenants the worker has read as being provisioned

vars == <<status, schema, verified, token, job, todo>>

NoToken == [of |-> None, state |-> "none"]

\* Who is at work: where, on which tenant, with which token, and the status of
\* the tenant in its session.
Job(pc, t, k, seen) == [pc |-> pc, t |-> t, k |-> k, seen |-> seen]
Idle                == Job("idle", None, None, "none")

At(a, pc)   == job[a].pc = pc
Goto(a, pc) == job' = [job EXCEPT ![a] = Job(pc, @.t, @.k, @.seen)]
Finish(a)   == job' = [job EXCEPT ![a] = Idle]

\* A session writes an attribute whose new value differs from the one it loaded.
Flush(seen, new, current) == IF new = seen THEN current ELSE new

Init ==
    /\ status = [t \in Tenants |-> "none"]
    /\ schema = [t \in Tenants |-> "none"]
    /\ verified = {}
    /\ token = [k \in Tokens |-> NoToken]
    /\ job = [a \in Actors |-> Idle]
    /\ todo = {}

-----------------------------------------------------------------------------
(* Sign-up and verification. *)

Issue(k, t) ==
    /\ token[k].state = "none"
    /\ token' = [token EXCEPT ![k] = [of |-> t, state |-> "live"]]

Signup(t, k) ==
    /\ status[t] = "none"
    /\ status' = [status EXCEPT ![t] = "pending_verification"]
    /\ Issue(k, t)
    /\ UNCHANGED <<schema, verified, job, todo>>

Resend(t, k) ==
    /\ status[t] = "pending_verification"
    /\ Issue(k, t)
    /\ UNCHANGED <<status, schema, verified, job, todo>>

\* 24 hours pass.
Expire(k) ==
    /\ token[k].state = "live"
    /\ token' = [token EXCEPT ![k] = [of |-> @.of, state |-> "expired"]]
    /\ UNCHANGED <<status, schema, verified, job, todo>>

\* The token, its user and the tenant are read without a lock.
LoadVerify(r, k) ==
    /\ job[r] = Idle
    /\ token[k].state = "live"
    /\ job' = [job EXCEPT ![r] = Job("verify", token[k].of, k, status[token[k].of])]
    /\ UNCHANGED <<status, schema, verified, token, todo>>

CommitVerify(r) ==
    LET t == job[r].t
    IN  /\ At(r, "verify")
        /\ token' = [token EXCEPT ![job[r].k] = [of |-> @.of, state |-> "consumed"]]
        /\ verified' = verified \cup {t}
        /\ IF job[r].seen = "active"
           THEN UNCHANGED status
           ELSE status' = [status EXCEPT ![t] = Flush(job[r].seen, "provisioning", @)]
        /\ Goto(r, "create_schema")
        /\ UNCHANGED <<schema, todo>>

-----------------------------------------------------------------------------
(* TenantProvisioner, in a request or in the worker. *)

CreateSchema(a) ==
    /\ At(a, "create_schema")
    /\ schema' = [schema EXCEPT ![job[a].t] = IF @ = "none" THEN "empty" ELSE @]
    /\ Goto(a, "upgrade")
    /\ UNCHANGED <<status, verified, token, todo>>

\* The migrations, one transaction; nothing is left to do the second time.
Upgrade(a) ==
    /\ At(a, "upgrade")
    /\ schema' = [schema EXCEPT ![job[a].t] = "migrated"]
    /\ Goto(a, "activate")
    /\ UNCHANGED <<status, verified, token, todo>>

\* Mutant: the compensation does not look whether the tenant is active.
RollbackBlind(a) ==
    /\ job[a].pc \in {"create_schema", "upgrade"}
    /\ status' = [status EXCEPT ![job[a].t] = "provisioning"]
    /\ Finish(a)
    /\ UNCHANGED <<schema, verified, token, todo>>

\* Mutant: the compensation marks the tenant as failed.
RollbackFailed(a) ==
    /\ job[a].pc \in {"create_schema", "upgrade"}
    /\ status' = [status EXCEPT ![job[a].t] = "failed"]
    /\ Finish(a)
    /\ UNCHANGED <<schema, verified, token, todo>>

\* Creating the schema or migrating it fails, as it does when two of them run
\* for the same tenant.  The tenant has a user, so its schema stays.
Rollback(a) ==
    /\ job[a].pc \in {"create_schema", "upgrade"}
    /\ status' = [status EXCEPT ![job[a].t] = IF @ = "active" THEN @ ELSE "provisioning"]
    /\ Finish(a)
    /\ UNCHANGED <<schema, verified, token, todo>>

\* Mutant: active as soon as there is a schema.
ActivateEarly(a) ==
    /\ job[a].pc \in {"upgrade", "activate"}
    /\ status' = [status EXCEPT ![job[a].t] = "active"]
    /\ Finish(a)
    /\ UNCHANGED <<schema, verified, token, todo>>

Activate(a) ==
    /\ At(a, "activate")
    /\ status' = [status EXCEPT ![job[a].t] = "active"]
    /\ Finish(a)
    /\ UNCHANGED <<schema, verified, token, todo>>

-----------------------------------------------------------------------------
(* The worker. *)

\* Mutant: the worker provisions every company that is not active.
PollUnready ==
    /\ job[Worker] = Idle
    /\ todo = {}
    /\ todo' = {t \in Tenants : status[t] \in {"pending_verification", "provisioning"}}
    /\ UNCHANGED <<status, schema, verified, token, job>>

\* Mutant: a tenant that has a schema is taken for provisioned.
PollSchemaless ==
    /\ job[Worker] = Idle
    /\ todo = {}
    /\ todo' = {t \in Tenants : status[t] = "provisioning" /\ schema[t] = "none"}
    /\ UNCHANGED <<status, schema, verified, token, job>>

\* provision_pending reads the list, then takes the tenants one by one.
Poll ==
    /\ job[Worker] = Idle
    /\ todo = {}
    /\ todo' = {t \in Tenants : status[t] = "provisioning"}
    /\ UNCHANGED <<status, schema, verified, token, job>>

Take(t) ==
    /\ job[Worker] = Idle
    /\ t \in todo
    /\ todo' = todo \ {t}
    /\ job' = [job EXCEPT ![Worker] = Job("create_schema", t, None, status[t])]
    /\ UNCHANGED <<status, schema, verified, token>>

\* A lost client, a crash or a restart; what has been committed stays.
Stop(a) ==
    /\ job[a] # Idle
    /\ Finish(a)
    /\ todo' = IF a = Worker THEN {} ELSE todo
    /\ UNCHANGED <<status, schema, verified, token>>

-----------------------------------------------------------------------------

ProvisionStep(a) == CreateSchema(a) \/ Upgrade(a) \/ Activate(a)

Next ==
    \/ \E t \in Tenants, k \in Tokens : Signup(t, k) \/ Resend(t, k)
    \/ \E k \in Tokens : Expire(k)
    \/ \E r \in Reqs : CommitVerify(r) \/ \E k \in Tokens : LoadVerify(r, k)
    \/ \E a \in Actors : ProvisionStep(a) \/ Rollback(a) \/ Stop(a)
    \/ Poll \/ \E t \in Tenants : Take(t)

\* The worker's loop goes on, and does not for ever fail or stop at the same
\* place for the same tenant.
Fairness ==
    /\ WF_vars(Poll)
    /\ \A t \in Tenants :
          /\ SF_vars(Take(t))
          /\ SF_vars(job[Worker].t = t /\ CreateSchema(Worker))
          /\ SF_vars(job[Worker].t = t /\ Upgrade(Worker))
          /\ SF_vars(job[Worker].t = t /\ Activate(Worker))

Spec == Init /\ [][Next]_vars /\ Fairness

-----------------------------------------------------------------------------
(* Properties. *)

Statuses  == {"none", "pending_verification", "provisioning", "active"}
TokenType == [of : Tenants \cup {None}, state : {"none", "live", "expired", "consumed"}]
JobType   == [pc : {"idle", "verify", "create_schema", "upgrade", "activate"},
              t : Tenants \cup {None}, k : Tokens \cup {None}, seen : Statuses]

\* The type of the state.
TypeOK ==
    /\ status \in [Tenants -> Statuses]
    /\ schema \in [Tenants -> {"none", "empty", "migrated"}]
    /\ verified \subseteq Tenants
    /\ token \in [Tokens -> TokenType]
    /\ job \in [Actors -> JobType]
    /\ todo \subseteq Tenants

\* A company that lets its users log in (auth_service.py:306) has all of its
\* tables, whoever provisioned it and whatever failed meanwhile.
ActiveHasSchema == \A t \in Tenants : status[t] = "active" => schema[t] = "migrated"

\* CHANGELOG.md:11: no schema before the address is verified, and a verified
\* address never leaves the company waiting for its verification.
SchemaAfterVerify ==
    \A t \in Tenants :
        /\ schema[t] # "none" => t \in verified
        /\ t \in verified => status[t] # "pending_verification"

\* A failed provisioning does not take an active company back
\* (provisioner.py:95-99): only a verification that read the company before it
\* was provisioned does.
TakenBackByVerifyOnly ==
    [][\A t \in Tenants : status[t] = "active" /\ status'[t] # "active" =>
           \E r \in Reqs : At(r, "verify") /\ job[r].t = t
                           /\ job[r].seen = "pending_verification" /\ ~At(r, "verify")']_vars

\* A verified company becomes active for good, also when the verification
\* stopped half way (worker.py:60-70).
VerifiedBecomesActive ==
    \A t \in Tenants : t \in verified ~> [](status[t] = "active")

-----------------------------------------------------------------------------
(* What Onboarding promises. *)

PhaseOf(t) ==
    IF status[t] = "none" THEN "none"
    ELSE IF t \notin verified THEN "registered"
    ELSE IF status[t] = "active" THEN "ready" ELSE "verified"

LateFor(t) == {r \in Reqs : At(r, "verify") /\ job[r].t = t /\ job[r].seen = "pending_verification"}

Phases == [t \in Tenants |-> PhaseOf(t)]
Late   == [t \in Tenants |-> LateFor(t)]

Promise == INSTANCE Onboarding
    WITH Companies <- Tenants, Verifications <- Reqs, phase <- Phases, late <- Late

\* The three commits of a verification, the migrations, the compensations, the
\* worker and every stop between them (auth_service.py:170-241,
\* provisioner.py:38-99) are steps of Onboarding or change nothing of it.
OnboardingKept == Promise!Spec
=============================================================================
