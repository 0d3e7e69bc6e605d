# Nexus CRM: specifications, model checking and proofs

Nexus CRM is a multi-tenant CRM: a FastAPI process, a worker, PostgreSQL with
one `catalog` schema for the platform and one schema per tenant, Redis for
sessions and limits, and a React client. This directory holds TLA+ modules of
the parts whose correctness depends on the order in which concurrent requests,
the worker, the clock and failures take effect, the TLC configurations that
check them on small instances, and TLAPS proofs for every size.

Paths below are relative to `src/`; `app/` stands for `src/backend/app/`.

## 1. The system

### Components

| component | code | state | operations | modelled by |
|---|---|---|---|---|
| users and invitations | `app/modules/identity/user_service.py`, `invite_service.py`, `rbac/deps.py` | `catalog.users` (role, status, mfa_status), `catalog.invites`, `catalog.email_identities`, `tenants.seat_cap`, the tenant row lock | deactivate, change_role, invite, accept; get/patch tenant | `Membership`, which implements `Seats` |
| onboarding and provisioning | `identity/auth_service.py` 107-271, `tenancy/provisioner.py`, `app/worker.py` 52-99 | `tenants.status`, the tenant's PostgreSQL schema, `email_verify_tokens`, `users.email_verified_at` | signup, resend, verify, provision, rollback, the worker's poll | `Provisioning`, which implements `Onboarding` |
| pipeline | `app/modules/pipeline/service.py`, `alembic/tenant/versions/003_tenant.py` | `pipelines`, `stages`, `deals`, `deal_stage_events` | create/update/archive pipeline, add/update/reorder/delete stage, create/update/move/close/archive deal, board, forecast, history | `Pipeline`, which implements `History`; `StageOrder` (positions) |
| login, second factor, reset | `auth_service.py` 273-601, `session_service.py`, `mfa_service.py` | sessions and challenges in Redis, TOTP secret, backup codes, reset tokens | login, complete_mfa, enroll, logout, reset | `Login` |
| emailing | `app/modules/emailing/outbox.py`, `worker.py` 23-49 | `catalog.email_outbox` | enqueue, fetch_due, mark_sent, mark_failed, the worker's batch | `Outbox` |
| arco | `app/modules/arco/service.py` | data-subject requests | submit, manual intake, respond, close | `Arco` |
| contacts | `app/modules/contacts/service.py` | accounts, contacts | create, change, relink, consent, assign, archive, lists with a cursor | `Contacts` |
| audit, consent | `app/modules/audit`, `consent` | append-only rows | append, list | `Arco` (append, in the transaction of its caller) |
| rbac, core, routers, engine | `app/modules/rbac`, `app/core`, `app/db` | none, or Redis counters (rate limit) | guards, conversion of requests | the guard that Membership needs |
| frontend | `frontend/src` | what the browser shows | a client of the API | no |

### How they interact

A request has one database session (`app/db/engine.py:24`), shared by the
dependency that authenticates it (`rbac/deps.py`) and by the handler. An object that
a handler keeps in a variable is not read again unless told to
(`expire_on_commit=False`; a query of a row whose object is still there returns that object
as it is, without `populate_existing`). The identity map holds its objects weakly: those of the
dependency, which returns a dict, are gone when the handler begins, and what the handler
queries, it reads. The session writes at flush the attributes whose value differs from
the one loaded. PostgreSQL runs at READ COMMITTED, so
every statement sees what has been committed before it.

Requests meet each other only in the database and in Redis. The worker meets them
in the database: `tenants.status = 'provisioning'` and rows of `email_outbox` are
its queues (the Redis list `nexus:jobs` has a consumer, `worker.py:89`, and nothing
in the code that fills it).

### What is hard here

* **Decisions on stale rows.** Rows are loaded before the lock that should protect
  the decision (deactivations and role changes), or there is no lock at all (pipelines, the
  start of an enrolment).
* **Partial writes.** Only changed columns are written, so two requests can each
  contribute half of a row.
* **Two-statement checks.** Seats are two counts; a move is an INSERT and an UPDATE.
* **Two commits in one operation.** Verification commits, provisions, commits again,
  and may stop, fail or be repeated in between; the worker picks up what is left.
* **The clock.** Invitations and tokens expire while they are being used.
* **Effects that cannot be undone.** Mail goes out inside transactions that may
  still be rolled back, in batches with one commit at the end.
* **Waiting.** Requests queue for the tenant row; the tenant row and a user's are locked in
  both orders; messages queue behind each other; reorders wait for each other's rows.
* **Two stores.** Sessions live in Redis and their users in PostgreSQL; a session is a
  key and an entry in an index, and no transaction spans any two of them.
* **Dates that are not the order.** `now()` is the start of the transaction, and lists,
  the history and the audit trail are read in its order, not in that of the commits.

PROJECT.json lists each hazard at its line with the properties that watch it.

## 2. Modules

Each module has a bounded number of request slots (`Reqs`). A request is an
action that loads what the code reads first (`Load...`), actions for further reads
(`Check...`, `Count...`), and one for its writes and its commit (`Commit...`,
`Insert...`). `Abort` (or `Stop`) ends a request at any of these points with
its transaction rolled back: a failing statement, a lost client, a restart. Reads that
follow each other with no other read or write between them are one action
unless the properties tell their order apart.

### Membership

State: `role`, `status`, `mfa` are columns of `catalog.users`; `elsewhere` the
addresses of users of other tenants; `invite` the invitations; `lock` the holder of
the tenant row; `req` the requests. `staleRole` and `slips` are history variables:
a commit acted on a role that was no longer current; how many acceptances
committed after the expiry of their invitation.

| action | code |
|---|---|
| LoadDeactivate, CheckDeactivate, CommitDeactivate | `user_service.py` 81-104 |
| LoadChangeRole, CheckChangeRole, CommitChangeRole | 106-143 |
| LoadInvite, CheckInvite, CountActive, InsertInvite | `invite_service.py` 65-140, 200-215 |
| LoadAccept, CommitAccept | 142-198 |
| LoadEnroll, LockEnroll, CommitEnroll | `rbac/deps.py` 46-74, `auth_service.py` 416-450 |
| BreakDeadlock | PostgreSQL's deadlock detection |
| Expire, SignupElsewhere, Abort | the clock, other tenants, failures |

`Flush(seen, new, current)` is the unit of work: a column set to the value that was
loaded is not part of the UPDATE. The check of the address in CheckInvite and the
acquisition of the lock are one step, because both need the lock. Acceptances
insert a user, whose foreign key takes a key-share lock on the tenant row: they
wait for requests that hold it FOR UPDATE, and do not exclude each other. So does the audit event
of an enrolment, which by then holds the row of its user FOR UPDATE (`HoldsRow`); and requests
that hold the tenant row wait for that row, to update the user or, through
`invites.invited_by`, to insert an invitation. `Deadlocked` is the cycle of the two,
`BreakDeadlock` ends one of its requests. complete_mfa and confirm_password_reset lock the same two
rows in the order of an enrolment, which stands for them here.

`Seats` is what all this promises an administrator, with no requests, no lock and no two
counts: an invitation is offered as if its address, the users and the invitations were looked
at in one moment; it brings one user, once. It allows one thing a reader of README.md:55
would not: an offer that has lapsed may still be taken. `Membership` instances it as
`Promise`, with `status` for its seats and `OfferOf` for its offers, and
`SeatsKept == Promise!Spec` is checked and proved.

### Pipeline

State: `pipeline` (absent, active, archived), `isDefault`, `home` (the
pipeline of each stage ever made), `live` (stages not deleted), `deal`, `events`,
`req`. No row is locked by the code; the locks that an UPDATE takes matter in
one place, the change of the default pipeline, where `ClearDefault` waits for the
rows it saw, passes over those no longer default and holds the rest (`Held`) until
the commit. `overtaken` is history: the requests that archive a pipeline which became the default
after they had read it. `OneDefaultIdx` is the partial unique index, `StageFree` the
foreign key `deals.stage_id`, which archived deals keep using although the
service only looks for active ones. Operations that are a single guarded UPDATE
(set_status, archive_deal, create_pipeline without default) are single actions.

`events` holds the history of each deal in the order of the commits. A reader gets it in the
order of `occurred_at`, which is `now()`, the start of the transaction; and the event of a move
says where it came from by what the request read after that start, without a lock. An event is
therefore dated by `began`, how many events of its deal were committed when its transaction
began (`BeginMove` chooses it: the request authenticates its user before it reads the
deal); `Below(d, j, i)` says that every reader finds event j below event i.

`History` is what the histories promise: a deal is created with its first event, each later
event leads on from where the last event had brought the deal at some time while its request was
at work, and the deal is where its last event says until it is archived. `Pipeline` instances it
as `Promise` (`StageOf` and `IsArchived` are the refinement mapping) and
`HistoryKept == Promise!Spec` is checked and proved.

### Provisioning

State: `status`, `schema` (none, empty, migrated), `verified`, `token`, `job`
(what each request and the worker are doing) and `todo` (the list the worker has
read). Requests and the worker share the steps of the provisioner: CreateSchema
(committed), Upgrade (Alembic, one transaction), Activate, and Rollback when one of the
first two fails. `Stop` ends a request or the worker's turn anywhere.

`Onboarding` is what all this promises a company, in three phases and nothing else:
registered, verified, ready. `Provisioning` instances it as `Promise`; `Phases` and `Late`
are the refinement mapping: a company is *verified* from the commit that consumes its token
until it is active, whatever its schema is like, and `Late` holds the verifications that read
it before it was verified. They are the exception the abstract specification has to
allow: one of them may take a ready company back to *verified*, once.
`OnboardingKept == Promise!Spec` is checked as a property and proved.

### Outbox

State: `row` (a message is absent, posted by a running request, stored, or dropped
with its request; `sent`, `attempts`), `mail` (how often it has gone out; 2 stands for
more), `job` (each worker's place, batch, what is left of it, the message just tried and the
marks written so far). `lost` and `shared` are history: messages with a delivery
that left no mark, and messages two workers had read at the same time.

| action | code |
|---|---|
| PostSent, PostFailed | `enqueue`, `outbox.py` 48-87: insert, deliver at once, mark |
| EndPost | the commit of the request that called it, or its failure |
| Fetch | `fetch_due`, `outbox.py` 90-121, `worker.py` 23-26 |
| Send | `worker.py` 27-48: decrypt and deliver; a failure may come after the delivery |
| Mark | `mark_sent`, `mark_failed`, `outbox.py` 124-149; waits for rows marked by another worker |
| Commit | `worker.py` 49 |
| Raise | `raw_token_from_payload`, outside the `try`: the batch ends |
| Crash | any other end of the batch; `run` starts another, `worker.py` 84-99 |

The marks of a batch are part of `job` until its commit makes them part of `row`. The
branch for a missing token (`worker.py` 28-30) is left out: a token is removed only
together with setting `sent_at`, and such rows are not read.

### Login

One user, since users share nothing here. State: `pw` (who set the password), `factor`
(status, secret, whose backup codes, which are left), `lock` (the holder of the user's row),
`token` (reset tokens), and in Redis `sess`, `index` and `chal`; `req`. Sessions, challenges,
passwords and secrets bear the name of the request that made them, so a request
runs once. `late` and `over` are history: logins that a revocation may have passed over, and
resets that overlapped with another and enrolments confirmed while a start that had read the
row as pending was under way.

| action | code |
|---|---|
| LoadLogin, CreateChallenge | `auth_service.py` 273-329, `session_service.py` 100-111 |
| PutSession, IndexSession, Commit | `session_service.py` 27-53, then the rest of login, complete_mfa, confirm_totp_enroll |
| LoadChallenge, VerifyCode, RefuseCode, DropChallenge | 343-389, `mfa_service.py` 42-76 |
| LoadStart, SaveStart | 402-414: the row is read, tested and later written, without a lock |
| LoadConfirm, LockConfirm, RefuseConfirm | 416-429: the row is read and tested under its lock |
| RequestReset, LoadReset, ConsumeTokens, SavePassword | 452-521 |
| ReadIndex, DeleteSessions, DeleteIndex | `revoke_for_user`, `session_service.py` 88-98 |
| EndSession, ExpireChallenge, ExpireToken, Abort | logout, the clock, failures |

Which codes are wrong and how many failures are too many is left to chance:
RefuseCode may delete the challenge or not, and every login may be turned away. What the
model shows beside its properties, and a reader of the code should know: a challenge issued
under the old password outlives a reset and still opens a session (`late` covers it); a
session that enters the index between SMEMBERS and DEL is in no index afterwards, so later
resets do not find it either; a start that overlaps a confirmation replaces the secret of a user
who is already enrolled, whose authenticator then gives wrong codes; one reset token
serves two overlapping resets. Two confirmations do not interfere: the second one finds the user
enrolled and is refused.

### Arco

State: `status` of each row, `req`, `trail` (the events committed; an event bears the
name of its request). A change is one transaction: `Begin` (its first statement, which
dates the event), `Load`, then the UPDATE with its event and commit. `seen` holds the events
that were there when the transaction began, and stands for the order of dates: two events
overlap when neither was there when the other's transaction began.

### Contacts

State: `account`, `contact`, `clock` (`now()` of the transactions that insert contacts), `req`,
`list` (the list one reader is going through) and `there` (history: what has belonged to
the list since its first page). `gone`, kept with a contact, is history as well: the
accounts archived when the request began that linked it. Texts, consent and owner are one
field, `profile`; record_consent, assign_contact and the changes of update_contact that leave
`account_id` alone are EditContact. `(created_at, id)` is a total order, so the model takes
dates to be distinct. list_accounts, list_deals (`pipeline/service.py` 575-626) and
`AuditService.list` use the same keyset statement.
An archived account keeps its contacts, and they can still be changed: the code wants
an active account only for a new link.

### StageOrder

State: `position` (0: no row), `deleted`, `holder` (the reorder that has written the row), `req`.
An addition is the INSERT, which computes MAX + 1 of what is committed, and its commit. A reorder
compares the list with the stages, then updates row after row in the order of the list, waits
where another one holds the row, passes over a row that is gone. PostgreSQL's
deadlock detection is an action. `stale` and `torn` are history: requests at work whose reading
a commit has outdated, and whether one of them has been committed since the last
reorder that nothing outdated.

## 3. What is checked

| run | instance | distinct states | shows |
|---|---|---|---|
| Membership_roles | 2 users, any roles, 1 invitation, 2 requests | 132,542 | TypeOK; AdminRemains; MfaFollowsRole |
| Membership_seats | 3 addresses, 2 invitations (of administrators), 2 seats, 2 requests | 229,972 | SeatsUpToSlips; OneEmailOneTenant; SeatsKept (refinement); RequestsEnd (liveness) |
| Membership_adminless | as roles | | violation of NeverAdminless |
| Login_sessions | 1 user, 4 requests, 1 token, 1 backup code | 407,892 | TypeOK; OldSessionsEnd; BackupOnce; EnrolmentStands; TokenOnce |
| Provisioning_onboarding | 1 tenant, 2 tokens, 2 requests, the worker | 8,738 | TypeOK; ActiveHasSchema; SchemaAfterVerify; TakenBackByVerifyOnly; OnboardingKept (refinement); VerifiedBecomesActive (liveness) |
| Outbox_drain | 3 messages, the third unreadable, 2 workers, batches of 2, 2 attempts | 242,672 | TypeOK; SentOnce; AttemptsUpToWorkers; EndsUnlessBlocked (liveness) |
| Arco_requests | 1 row, 5 requests | 267,150 | TypeOK; TrailTellsStatus; ReopenedByOverlap |
| Contacts_lists | 1 account, 2 contacts, 2 requests, pages of 1 row | 440,867 | TypeOK; LinkPredatesArchival; ListIsComplete; ListDescends; ArchivedStays |
| Pipeline_deals | 2 pipelines, 2 stages, 1 deal, 2 requests | 644,872 | TypeOK; DealStageInPipeline; LastEventIsStage; DefaultKept |
| Pipeline_archive | same | | violation of ArchiveRefused |
| StageOrder_positions | 3 stages, 1 at the beginning, 2 requests | 61,901 | TypeOK; PositionsDistinct; LastStageByOverlap; ReordersEnd (liveness) |
| History_deal | 1 pipeline, 2 stages, 1 deal, 2 requests, 3 moves | 368,135 | MovesChain; HistoryKept (refinement) |

(Distinct states are counted up to the symmetry of the run.)

**Why these sizes.** Every race in the code is between two requests on one tenant
(or a request and the worker), so two slots where requests repeat; the third request that
changes the environment between them is an atomic action (Expire, SignupElsewhere, DropDefault,
SetStatus, ArchiveDeal). Where a request runs once because it gives its name to what it
makes, there are as many as the longest story needs: in Login a login, the enrolment or challenge
that rests on it, and two that interfere; in Arco a row's filing and four changes. Three moves
after a creation let one event lie between an event and the one it goes on from.
Two administrators are what it takes to lose both; two
seats are the Starter plan; two invitations what it takes to reuse a seat; an invited
administrator has a second factor to enrol, and is one who may lock the tenant row meanwhile; two
pipelines tell "the stage's own pipeline" apart, two stages let a deal move and
a stage be deleted, three let reorders cross. Two tokens per tenant give a resend and the
verification that comes late. Three messages with batches of two are more than a batch holds: two
that can be read fill one, and the unreadable third gets into the next as soon as one of them has ended; read in another
order than the oldest first, the outbox would come to a stop that EndsUnlessBlocked does not
allow. The
second worker is a second process of the same service, or the one that takes over while
the first is still at work; a limit of two attempts, for `_MAX_ATTEMPTS` = 8, tells the last
attempt from the others. Two contacts with pages of one row make a list of two pages, with a row
that appears, goes or is the cursor in between. The proofs of section 4 drop the sizes.

**Bounds.** Identities of rows that may be created are finite sets (in Membership
`IdentitiesLeft` keeps one for each invitation in flight), `MaxEvents` bounds the moves of a deal
in Pipeline (those in flight may exceed it by one each), `MaxClock` the dated transactions of
Contacts. The TLC runs are the models with these bounds and nothing else; no state constraint
is used. `CHECK_DEADLOCK FALSE` because the system may really come to rest: a tenant with no
administrator and no request, or a state in which the bounded identities are used up.
Symmetry is used in runs without liveness only
(HistoryKept has no fairness, and its formula treats all deals, stages and requests alike).

**Fairness.** Membership: a request that has been read takes its steps
(`SF_vars(Step(r))`): the event loop runs every coroutine that is ready, and
PostgreSQL serves the queue of a row lock in order of arrival, so a waiting request
is not overtaken for ever; strong fairness because the lock is taken and given
back in between. Requests that wait for each other are found by PostgreSQL after
`deadlock_timeout` (weak fairness of BreakDeadlock); without it RequestsEnd is false. Nothing is
assumed of arrivals, the clock or failures. Provisioning:
the worker's `while True` polls again after every error (`worker.py:84-99`) and does not
fail or stop for ever at the same place for the same tenant; nothing is assumed of
requests, which may stop anywhere, for ever. It also assumes that the loop reaches
`provision_pending`, which an unreadable message prevents (see below). Outbox: a worker that
can take a step takes one (weak fairness of `Turn`: the loop of `run` goes on after every error and
every restart, and an error that must come, comes), and of the batches that a worker reads without
end it brings some to an end without end, be it the error of an unreadable message
(`EndBatch`): it does not crash in all of them from some time on. Nothing is assumed of requests, of the
SMTP server or of the number of crashes. StageOrder: strong fairness of the UPDATEs of a reorder,
because the queue of a row lock is served in order of arrival and the row may be taken
and given back in between; weak fairness of its commit and of deadlock detection. Without
the detection ReordersEnd is false: two reorders in opposite orders wait for each other.

### Where the code differs from what its documents say

Two of these have a run that finds the counterexample; of the others a passing property names the
exact exception, and says that there is no other way.

* A tenant can lose its last administrator (`user_service.py:28`, CHANGELOG.md:14; run
  Membership_adminless). A deactivation loads Beto, a *gerente*; another request promotes
  Beto, and then Ana, the other administrator, is deactivated, which the count of two allows; the first
  request goes by the role it loaded (lines 88 and 121), counts nobody and deactivates Beto. The count
  itself is made under the lock of the tenant row: of two administrators who demote or deactivate each
  other the second is refused. `AdminRemains` says that the stale role is the only way.
* A pipeline is archived with an open deal (docs/API.md:101; run Pipeline_archive): the check and
  the write are separate statements, without a lock.
* A manager without second factor (README.md:111): two role changes of one
  user, both loaded before either commits; the second sets `mfa_status` to what it
  had loaded, so it is not written. `MfaFollowsRole` excepts a stale role only.
* Three seats of two (README.md:55): an acceptance outlives its invitation.
  `SeatsUpToSlips` says that this is the only way, and by how much.
* A pipeline without stages (docs/API.md:101): two deletions that each counted two stages.
  `LastStageByOverlap`.
* The event of a move that did not happen (docs/API.md:105): the UPDATE of
  `move_stage` passes over a deal archived meanwhile and, unlike that of `set_status` or
  `update_deal`, is not asked for its row count. `LastEventIsStage` holds of deals that are not
  archived, and `History` lets the event of an archived deal come in without moving it.
* A message that cannot be decrypted stops the outbox (README.md:115): `worker.py:27` is
  outside the `try`, so no attempt is counted and the next turn starts with the same
  message; what comes behind it is not sent, what comes before it in the batch is sent again
  at every turn, without an attempt being counted, and `provision_pending` (line 94) is not
  reached. `EndsUnlessBlocked` says that nothing else keeps a message from its end.
* A reset token is used twice (`backend/tests/api/test_login_mfa_ac3_ac4.py:209`, "single use",
  tested in sequence): two resets that overlap both find it unconsumed. `TokenOnce` says that it
  takes the overlap.
* A closed data-subject request can be open for answers again (`arco/service.py:192`): an answer
  loaded before the closure and committed after it. `ReopenedByOverlap` says that it takes one.

## 4. What is proved

The proof modules hold for every value of the constants that satisfies the
named assumptions of their modules (finite sets where cardinalities are taken,
`None` outside the sets it is added to, a seat cap that the initial staff
respects). Each theorem is `Spec => []P`, `Spec => [][A]_vars` or a refinement, by the usual route: an inductive invariant,
proved to hold initially and to be kept by every action, one step per action.

* **MembershipProofs.** `Base` = TypeOK, the types of a request's arguments at each
  of its places (ArgsOK), accepted or pending invitations have an address and a role
  (InvitesOK), at most one acceptance per invitation (AcceptsOK), and the tenant row is
  held exactly by the request at a holding place (LockOK).
  - SeatsBounded needs `SeatInv`: between the two counts and the insert the holder's
    count of active users is at least the present one (acceptances wait for the lock
    and only they add users), so what it inserts fits.
  - AdminSafe needs `AdminInv`: at a checked place either the role seen is stale or
    another administrator is active, because only lock holders take one away.
  - MfaSafe and EmailSafe: the columns a request has seen against the present
    ones; addresses of accepted invitations.
  - SeatsPromise, the refinement, needs these and `OfferInv`: from the look at the address
    to the insert nobody else brings that address in or invites it, because the lock is
    held. `StepKept` has one step per action: the insert of an invitation is an Offer, an
    acceptance a Take, everything else a Lapse, a Leave or nothing.
* **PipelineProofs.** `DealInv` = TypeOK, the arguments of requests (the stage a
  request will write belongs to the pipeline of its deal, which never changes), live
  stages have a home, and the two properties of deals. For DefaultKeptSafe, an action property,
  `OvertakenInv`: a request that archives the default pipeline is in `overtaken`, because it
  read a pipeline that was not; a request that makes a pipeline the default and clears the last
  one sets its own or undoes the clearing.
  `HistInv`: what a request at work has read is in the history, not before the place where it
  began, and every event leads on in this way from an earlier one. From it follow
  MovesChainSafe, TopSafe (the event that every reader finds on top of the history of a
  deal that is not archived tells its stage) and HistoryKeptSafe, the refinement. That a
  history only grows while a request is at work is what makes HistInv inductive.
* **ProvisioningProofs.** `Inv`: jobs past the migration belong to tenants with a
  migrated schema, whoever works on `create_schema` or later does so for a verified
  tenant, a schema exists for verified tenants only. TakenBackSafe is an action
  property from the same invariant.
  `OnboardingSafe` is the refinement: the initial states map to initial states, and every step of
  Provisioning is a step of Onboarding or leaves its variables alone, one step of the proof per
  action (`StepKept`), with `Inv` for what a job may rely on.
* **OutboxProofs.** `OutboxInv` says where the trace of a delivery is at any time: in the
  row, with the worker that is about to commit it, or in `lost` (MailTraced); that a
  message of two batches is in `shared` (SharedKnown), as is one in a batch whose row is
  already sent (SentShared). Without these three SentOnce is not inductive. For
  AttemptsUpToWorkers, recorded attempts plus the number of workers that hold the message stay
  below the limit plus the number of workers (AttemptsLeft): a commit adds an attempt and takes
  a holder away.
  SendsWhatIsDueSafe: what a worker is about to send is still due, however old its batch, unless
  another worker had read it (`BatchDue`). TurnCountsSafe, an action property: the commit of a
  batch records each of its messages as sent or adds an attempt (`BatchWorked`). It is the part
  of EndsUnlessBlocked that needs no fairness: after MaxAttempts committed batches a message has ended.
* **LoginProofs.** `Typed` (TypeOK and what a request does at each of its places), and one
  invariant for each property. `SessInv`: what is not late and rests on an old password has no
  session and no login under way; what is not late is in the index, or about to be; a
  revocation that has read the index has found it. `CodeInv`: whoever has taken a code holds the
  lock until the code is gone from the row. `EnrolInv`: who confirms and has verified its code holds
  the lock and sees the row pending and the secret unchanged, so that no other is confirmed before it
  or after; the secret of an enrolled user changes only by a start that was under way. `TokenInv`: the
  tokens a reset has locked are consumed by nobody else,
  and a second reset of the same token overlapped it.
* **ArcoProofs.** `Lasting`: an event that began after all others of its row is the one whose
  UPDATE came last; `Closures`: an answer that is loaded while its row is closed overlaps
  the closure.
* **ContactsProofs.** `Course` keeps that the account a request is about to link was active after it
  began; `Listing` that every row still due is older than the cursor, which need not be
  there any more. ArchivedStaysSafe is an action property.
* **StageOrderProofs.** `Reliance` is what a request may count on while nothing outdates its
  reading: the position of an addition is above all others, a reorder holds the rows it has
  passed, which are all the stages when it is done, a deletion leaves another stage. The proof
  uses that a finite set of stages has one with the highest position
  (well-founded induction over subsets) and that a list as long as the set it enumerates
  has no repetition.
  DeadlockByOrdersSafe: reorders wait for each other in a circle, the case PostgreSQL ends with an
  error, only if two of them were given different orders; a repeated request cannot be the
  cause. It follows from `ListsOnce` (no list names a stage twice): of those with one order, the
  reorder that has passed the most rows waits for nobody in the circle.
  ReorderTakesSafe, an action property: a reorder that nothing outdates, other reorders included,
  puts all stages where its list has them when it commits; no board shows a mixture of two lists.

The properties defined in the proof modules themselves (TopTellsStage, SendsWhatIsDue, TurnCounts,
DeadlockByOrders, ReorderTakes) hold on the instances of the runs as well.

Only model-checked: the liveness properties (RequestsEnd, VerifiedBecomesActive,
EndsUnlessBlocked, ReordersEnd; TLAPS proves no liveness under fairness and no ENABLED)
and the violations, which need one counterexample only. No data type is recursive here, so no
induction over data is missing.

## 5. Not modelled, and what comes next

Not modelled on purpose: text, formatting and validation of inputs (the routers and
Pydantic models), the React client (it keeps nothing that the API does not check), the
internals of SQLAlchemy, PostgreSQL, Redis and Alembic beyond what the code relies on;
the branch of the provisioner for tenants without users, which only tests
reach.

Of the components that are modelled partly: reading and renaming a tenant; the counters of failed
attempts (any attempt may be one too many); update_stage and update_deal, which write
names, values and probabilities that no decision rests on; the board and the forecast, which are
sums over what the pipeline holds; the consent that a sign-up records, one insert.
Three hazards have no property: Alembic's module globals, which the code does not control,
the date of a consent that overlaps another, by which nothing is decided, and the message of a
request that is rolled back after it has been sent: the model has it, and nothing promises that it
does not happen.

What would come next: what Outbox and Login promise as abstract specifications of their own,
the composition of Contacts and Pipeline (a deal's contact and account, which update_deal checks as update_contact does),
and roles and deactivation in Login (a change of role keeps the sessions, which read the
role from the database at each request).
