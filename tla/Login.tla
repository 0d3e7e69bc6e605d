-------------------------------- MODULE Login --------------------------------
(***************************************************************************)
(* Signing in: the password, the second factor and its enrolment, the      *)
(* sessions that Redis keeps with an index per user, and the reset of the  *)
(* password, which is to end them.  There is one user, since users share   *)
(* nothing here.                                                           *)
(*                                                                         *)
(* A request runs once; a session, a challenge, a password and a secret    *)
(* are named by the request that made them.  Counting wrong codes is left  *)
(* to chance: any attempt may be the last one that its challenge allows,   *)
(* and any login may be turned away.                                       *)
(***************************************************************************)
EXTENDS FiniteSets

CONSTANTS
    Reqs,    \* requests
    Tokens,  \* tokens that requests for a reset send out
    Codes,   \* backup codes of one enrolment
    None     \* absence of a request, a token or a code

ASSUME NoneAssumption == None \notin Reqs \cup Tokens \cup Codes

VARIABLES
    pw,      \* users.password_hash: who set it
    factor,  \* users.mfa_status, totp_secret_encrypted, backup_code_hashes
    lock,    \* the request that holds the user's row
    token,   \* password_reset_tokens
    sess,    \* the keys sess:...
    index,   \* the set user_sess:...
    chal,    \* the keys mfa:...
    req,     \* the requests
    late,    \* history: requests that a revocation may have passed over
    over     \* history: resets that overlapped with another, and enrolments
             \* confirmed while a start that had read the row was under way

vars == <<pw, factor, lock, token, sess, index, chal, req, late, over>>

\* The second factor; "by" is the enrolment its backup codes come from.
Factor(status, secret, by, left) ==
    [status |-> status, secret |-> secret, by |-> by, left |-> left]

\* A request: what it does, where it is, the password its session rests on, what
\* it was given (a challenge, a session or a token), the secret it has loaded, the
\* backup code it takes and whose it is, the tokens it has locked and the sessions
\* it has found.
Request(op, pc, ver, src, secret) ==
    [op |-> op, pc |-> pc, ver |-> ver, src |-> src, secret |-> secret,
     code |-> None, by |-> None, held |-> {}, found |-> {}]

Fresh == Request("none", "idle", None, None, None)

Goto(r, pc)  == req' = [req EXCEPT ![r].pc = pc]
Ended(r)     == req[r].pc \in {"done", "failed"}
Running(r)   == req[r].pc # "idle" /\ ~Ended(r)
Unused(t)    == token[t] \in {"live", "expired"}
Live(r)      == sess[r] = "live" /\ req[r].pc = "done"
Resets       == {r \in Reqs : req[r].op = "reset"}

Init ==
    /\ pw = None
    /\ factor \in {Factor("not_required", None, None, {}), Factor("pending", None, None, {}),
                   Factor("enrolled", None, None, Codes)}
    /\ lock = None
    /\ token = [t \in Tokens |-> "absent"]
    /\ sess = [r \in Reqs |-> "none"]
    /\ index = {}
    /\ chal = [r \in Reqs |-> "none"]
    /\ req = [r \in Reqs |-> Fresh]
    /\ late = {}
    /\ over = {}

-----------------------------------------------------------------------------
(* What a revocation may pass over. *)

\* A revocation that has read the index and not yet committed the password.
Revoking == \E q \in Reqs : req[q].pc \in {"kill", "unindex", "save"}

\* A login that is under way and whose session is not in the index yet.
Pending(r) ==
    \/ req[r].pc \in {"ask", "verify", "confirm", "put", "index"}
    \/ chal[r] = "live"

\* A request that rests on what another has made begins.
NoteLate(r, src) == late' = IF Revoking \/ src \in late THEN late \cup {r} ELSE late

\* A reset begins while others are running.
NoteOver(r) ==
    LET met == {q \in Resets \ {r} : Running(q)}
    IN  over' = IF met = {} THEN over ELSE over \cup met \cup {r}

\* A start has read the row, and is to overwrite the secret.
Starting == \E q \in Reqs : req[q].pc = "start"

-----------------------------------------------------------------------------
(* Login. *)

\* The row is read; the password is verified against what was read.
LoadLogin(r) ==
    /\ req[r] = Fresh
    /\ LET next == IF factor.status = "enrolled" THEN "ask" ELSE "put"
       IN  req' = [req EXCEPT ![r] = Request("login", next, pw, None, None)]
    /\ NoteLate(r, None)
    /\ UNCHANGED <<pw, factor, lock, token, sess, index, chal, over>>

CreateChallenge(r) ==
    /\ req[r].pc = "ask"
    /\ chal' = [chal EXCEPT ![r] = "live"]
    /\ Goto(r, "done")
    /\ UNCHANGED <<pw, factor, lock, token, sess, index, late, over>>

\* Creating a session: SET, then SADD.
PutSession(r) ==
    /\ req[r].pc = "put"
    /\ sess' = [sess EXCEPT ![r] = "live"]
    /\ Goto(r, "index")
    /\ UNCHANGED <<pw, factor, lock, token, index, chal, late, over>>

\* Mutant: the session is not entered in the index.
SkipIndex(r) ==
    /\ req[r].pc = "index"
    /\ Goto(r, IF req[r].op = "complete" THEN "drop" ELSE "commit")
    /\ UNCHANGED <<pw, factor, lock, token, sess, index, chal, late, over>>

IndexSession(r) ==
    /\ req[r].pc = "index"
    /\ index' = index \cup {r}
    /\ Goto(r, IF req[r].op = "complete" THEN "drop" ELSE "commit")
    /\ UNCHANGED <<pw, factor, lock, token, sess, chal, late, over>>

-----------------------------------------------------------------------------
(* The second factor. *)

LoadChallenge(r, c) ==
    /\ req[r] = Fresh
    /\ chal[c] = "live"
    /\ req' = [req EXCEPT ![r] =
           Request("complete", "verify", req[c].ver, c, None)]
    /\ NoteLate(r, c)
    /\ UNCHANGED <<pw, factor, lock, token, sess, index, chal, over>>

\* Mutant: the row is read without FOR UPDATE.
VerifyUnlocked(r, code) ==
    /\ req[r].pc = "verify"
    /\ code \in factor.left \cup {None}
    /\ req' = [req EXCEPT ![r].pc = "put", ![r].code = code, ![r].by = factor.by]
    /\ UNCHANGED <<pw, factor, lock, token, sess, index, chal, late, over>>

\* The row is locked and read; a code of the authenticator (None) or a backup
\* code is right.
VerifyCode(r, code) ==
    /\ req[r].pc = "verify"
    /\ lock = None
    /\ code \in factor.left \cup {None}
    /\ lock' = r
    /\ req' = [req EXCEPT ![r].pc = "put", ![r].code = code, ![r].by = factor.by]
    /\ UNCHANGED <<pw, factor, token, sess, index, chal, late, over>>

\* The code is wrong: the failure is recorded and counted, and the challenge
\* deleted if it was one too many.
RefuseCode(r) ==
    /\ req[r].pc = "verify"
    /\ lock = None
    /\ chal' \in {chal, [chal EXCEPT ![req[r].src] = "gone"]}
    /\ Goto(r, "failed")
    /\ UNCHANGED <<pw, factor, lock, token, sess, index, late, over>>

DropChallenge(r) ==
    /\ req[r].pc = "drop"
    /\ chal' = [chal EXCEPT ![req[r].src] = "gone"]
    /\ Goto(r, "commit")
    /\ UNCHANGED <<pw, factor, lock, token, sess, index, late, over>>

\* Starting an enrolment: the row is read, without a lock, and must be pending.
LoadStart(r, s) ==
    /\ req[r] = Fresh
    /\ Live(s)
    /\ factor.status = "pending"
    /\ req' = [req EXCEPT ![r] = Request("start", "start", None, s, None)]
    /\ UNCHANGED <<pw, factor, lock, token, sess, index, chal, late, over>>

\* The UPDATE of the secret waits for the row, and tests nothing.
SaveStart(r) ==
    /\ req[r].pc = "start"
    /\ lock = None
    /\ factor' = [factor EXCEPT !.secret = r]
    /\ Goto(r, "done")
    /\ UNCHANGED <<pw, lock, token, sess, index, chal, late, over>>

\* Confirming an enrolment: the request is authenticated.
LoadConfirm(r, s) ==
    /\ req[r] = Fresh
    /\ Live(s)
    /\ req' = [req EXCEPT ![r] = Request("confirm", "confirm", req[s].ver, s, None)]
    /\ NoteLate(r, s)
    /\ UNCHANGED <<pw, factor, lock, token, sess, index, chal, over>>

\* Mutant: it is not tested that the enrolment is still pending.
LockAnyStatus(r) ==
    /\ req[r].pc = "confirm"
    /\ lock = None
    /\ factor.secret # None
    /\ lock' = r
    /\ req' = [req EXCEPT ![r].pc = "put", ![r].secret = factor.secret]
    /\ UNCHANGED <<pw, factor, token, sess, index, chal, late, over>>

\* The row is locked and read; it must still be pending, and the code is verified
\* against the secret read here.
LockConfirm(r) ==
    /\ req[r].pc = "confirm"
    /\ lock = None
    /\ factor.status = "pending"
    /\ factor.secret # None
    /\ lock' = r
    /\ req' = [req EXCEPT ![r].pc = "put", ![r].secret = factor.secret]
    /\ UNCHANGED <<pw, factor, token, sess, index, chal, late, over>>

\* The row is locked and read, and there is nothing to confirm, or the code is
\* wrong; the lock goes with the transaction.
RefuseConfirm(r) ==
    /\ req[r].pc = "confirm"
    /\ lock = None
    /\ Goto(r, "failed")
    /\ UNCHANGED <<pw, factor, lock, token, sess, index, chal, late, over>>

\* The commit after a session is created, with what it changes of the factor.
Commit(r) ==
    /\ req[r].pc = "commit"
    /\ \/ req[r].op = "login" /\ UNCHANGED factor
       \/ /\ req[r].op = "complete"
          /\ factor' = [factor EXCEPT !.left = @ \ {req[r].code}]
       \/ /\ req[r].op = "confirm"
          /\ factor' = Factor("enrolled", factor.secret, r, Codes)
    /\ over' = IF req[r].op = "confirm" /\ Starting THEN over \cup {r} ELSE over
    /\ lock' = IF lock = r THEN None ELSE lock
    /\ Goto(r, "done")
    /\ UNCHANGED <<pw, token, sess, index, chal, late>>

-----------------------------------------------------------------------------
(* The reset of the password. *)

RequestReset(t) ==
    /\ token[t] = "absent"
    /\ token' = [token EXCEPT ![t] = "live"]
    /\ UNCHANGED <<pw, factor, lock, sess, index, chal, req, late, over>>

LoadReset(r, t) ==
    /\ req[r] = Fresh
    /\ token[t] = "live"
    /\ req' = [req EXCEPT ![r] = Request("reset", "consume", None, t, None)]
    /\ NoteOver(r)
    /\ UNCHANGED <<pw, factor, lock, token, sess, index, chal, late>>

\* The UPDATE of all tokens of the user that are not consumed; it waits for
\* another one of the same rows, and then finds nothing left to do and goes on.
ConsumeTokens(r) ==
    /\ req[r].pc = "consume"
    /\ \A q \in Resets : Running(q) => req[q].held = {}
    /\ req' = [req EXCEPT ![r].pc = "members", ![r].held = {t \in Tokens : Unused(t)}]
    /\ UNCHANGED <<pw, factor, lock, token, sess, index, chal, late, over>>

\* The password is hashed, then the index read.
ReadIndex(r) ==
    /\ req[r].pc = "members"
    /\ req' = [req EXCEPT ![r].pc = "kill", ![r].found = index]
    /\ late' = late \cup {q \in Reqs : Pending(q)}
    /\ UNCHANGED <<pw, factor, lock, token, sess, index, chal, over>>

DeleteSessions(r) ==
    /\ req[r].pc = "kill"
    /\ sess' = [s \in Reqs |-> IF s \in req[r].found THEN "gone" ELSE sess[s]]
    /\ Goto(r, "unindex")
    /\ UNCHANGED <<pw, factor, lock, token, index, chal, late, over>>

DeleteIndex(r) ==
    /\ req[r].pc = "unindex"
    /\ index' = {}
    /\ Goto(r, "save")
    /\ UNCHANGED <<pw, factor, lock, token, sess, chal, late, over>>

\* Mutant: the tokens are not consumed.
SaveOnly(r) ==
    /\ req[r].pc = "save"
    /\ lock = None
    /\ pw' = r
    /\ Goto(r, "done")
    /\ UNCHANGED <<factor, lock, token, sess, index, chal, late, over>>

\* The UPDATE of the user, which waits for the row, and the commit.
SavePassword(r) ==
    /\ req[r].pc = "save"
    /\ lock = None
    /\ pw' = r
    /\ token' = [t \in Tokens |-> IF t \in req[r].held THEN "used" ELSE token[t]]
    /\ Goto(r, "done")
    /\ UNCHANGED <<factor, lock, sess, index, chal, late, over>>

-----------------------------------------------------------------------------
(* The end of things. *)

\* A session is logged out, or found too old, which takes it out of the index;
\* or it was not used for too long, which does not.
EndSession(s) ==
    /\ sess[s] = "live"
    /\ sess' = [sess EXCEPT ![s] = "gone"]
    /\ index' \in {index, index \ {s}}
    /\ UNCHANGED <<pw, factor, lock, token, chal, req, late, over>>

\* Mutant: an expired challenge is left with a state of its own.
ExpireChallengeOnly(c) ==
    /\ chal[c] = "live"
    /\ chal' = [chal EXCEPT ![c] = "expired"]
    /\ UNCHANGED <<pw, factor, lock, token, sess, index, req, late, over>>

ExpireChallenge(c) ==
    /\ chal[c] = "live"
    /\ chal' = [chal EXCEPT ![c] = "gone"]
    /\ UNCHANGED <<pw, factor, lock, token, sess, index, req, late, over>>

ExpireToken(t) ==
    /\ token[t] = "live"
    /\ token' = [token EXCEPT ![t] = "expired"]
    /\ UNCHANGED <<pw, factor, lock, sess, index, chal, req, late, over>>

\* A request fails or is cut off: what it has done in Redis stays.
Abort(r) ==
    /\ Running(r)
    /\ Goto(r, "failed")
    /\ lock' = IF lock = r THEN None ELSE lock
    /\ UNCHANGED <<pw, factor, token, sess, index, chal, late, over>>

-----------------------------------------------------------------------------

Step(r) ==
    \/ CreateChallenge(r) \/ PutSession(r) \/ IndexSession(r) \/ RefuseCode(r)
    \/ DropChallenge(r) \/ SaveStart(r) \/ LockConfirm(r) \/ RefuseConfirm(r)
    \/ Commit(r) \/ ConsumeTokens(r) \/ ReadIndex(r) \/ DeleteSessions(r) \/ DeleteIndex(r)
    \/ SavePassword(r)
    \/ \E code \in Codes \cup {None} : VerifyCode(r, code)

Next ==
    \/ \E r \in Reqs : LoadLogin(r) \/ Step(r) \/ Abort(r) \/ EndSession(r) \/ ExpireChallenge(r)
    \/ \E r, s \in Reqs : LoadChallenge(r, s) \/ LoadStart(r, s) \/ LoadConfirm(r, s)
    \/ \E r \in Reqs, t \in Tokens : LoadReset(r, t)
    \/ \E t \in Tokens : RequestReset(t) \/ ExpireToken(t)

Spec == Init /\ [][Next]_vars

-----------------------------------------------------------------------------
(* Properties. *)

RequestType ==
    [op : {"none", "login", "complete", "start", "confirm", "reset"},
     pc : {"idle", "ask", "verify", "start", "confirm", "put", "index", "drop", "commit",
           "consume", "members", "kill", "unindex", "save", "done", "failed"},
     ver : Reqs \cup {None}, src : Reqs \cup Tokens \cup {None},
     secret : Reqs \cup {None}, code : Codes \cup {None}, by : Reqs \cup {None},
     held : SUBSET Tokens, found : SUBSET Reqs]

\* The type of the state.
TypeOK ==
    /\ pw \in Reqs \cup {None}
    /\ factor \in [status : {"not_required", "pending", "enrolled"},
                   secret : Reqs \cup {None}, by : Reqs \cup {None}, left : SUBSET Codes]
    /\ lock \in Reqs \cup {None}
    /\ token \in [Tokens -> {"absent", "live", "expired", "used"}]
    /\ sess \in [Reqs -> {"none", "live", "gone"}]
    /\ index \subseteq Reqs
    /\ chal \in [Reqs -> {"none", "live", "gone"}]
    /\ req \in [Reqs -> RequestType]
    /\ late \subseteq Reqs
    /\ over \subseteq Reqs

\* A session opened with a password that is no longer the user's is gone, unless
\* its login was not in the index yet when a revocation read it, or began before
\* that reset was committed (session_service.py:88-98, auth_service.py:509-522).
OldSessionsEnd == \A s \in Reqs : Live(s) /\ req[s].ver # pw => s \in late

\* A backup code opens one session (auth_service.py:349-351, mfa_service.py:68-76).
BackupOnce ==
    \A r, q \in Reqs :
        /\ req[r].op = "complete" /\ req[r].pc = "done" /\ req[r].code # None
        /\ req[q].op = "complete" /\ req[q].pc = "done"
        /\ req[q].code = req[r].code /\ req[q].by = req[r].by
        => q = r

\* A confirmed enrolment is for good: no other is ever confirmed, and its backup codes
\* are the user's.  So is the secret that its code was verified against, unless a
\* start that had read the row as pending was under way when it was confirmed: that
\* one overwrites the secret of an enrolled user (auth_service.py:402-450).
EnrolmentStands ==
    \A r \in Reqs :
        req[r].op = "confirm" /\ req[r].pc = "done" =>
            /\ factor.status = "enrolled"
            /\ factor.by = r
            /\ r \notin over => factor.secret = req[r].secret

\* A token resets the password once, unless two requests use it at the same time
\* (auth_service.py:485-522).
TokenOnce ==
    \A r, q \in Resets :
        req[r].pc = "done" /\ req[q].pc = "done" /\ req[r].src = req[q].src /\ r # q
            => {r, q} \subseteq over
=============================================================================
