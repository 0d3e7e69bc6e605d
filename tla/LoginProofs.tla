----------------------------- MODULE LoginProofs -----------------------------
(***************************************************************************)
(* Proofs of the properties of Login, for any requests, tokens and codes.  *)
(***************************************************************************)
EXTENDS Login, TLAPS

PCs == {"idle", "ask", "verify", "start", "confirm", "put", "index", "drop", "commit",
        "consume", "members", "kill", "unindex", "save", "done", "failed"}

\* What a request does, by the place where it is.
OpAt(q) ==
    /\ req[q].op = "none" <=> req[q].pc = "idle"
    /\ req[q].pc = "ask" => req[q].op = "login"
    /\ req[q].pc \in {"verify", "drop"} => req[q].op = "complete"
    /\ req[q].pc = "start" => req[q].op = "start"
    /\ req[q].pc = "confirm" => req[q].op = "confirm"
    /\ req[q].pc \in {"put", "index", "commit"} => req[q].op \in {"login", "complete", "confirm"}
    /\ req[q].pc \in {"consume", "members", "kill", "unindex", "save"} => req[q].op = "reset"

Typed == TypeOK /\ \A q \in Reqs : OpAt(q)

-----------------------------------------------------------------------------
(* Sessions. *)

\* What is not late, and could still be used, rests on the present password.
Current(q) ==
    req[q].pc # "failed" /\ q \notin late /\ req[q].ver # pw => sess[q] # "live" /\ ~Pending(q)

\* What is not late is in the index once it is complete.
Indexed(q) ==
    req[q].pc # "failed" /\ q \notin late /\ sess[q] = "live" => q \in index \/ req[q].pc = "index"

\* A revocation that has read the index has found all that is not late.
Found(r, q) ==
    req[r].pc = "kill" /\ req[q].pc # "failed" /\ q \notin late
        => ~Pending(q) /\ (sess[q] = "live" => q \in req[r].found)

\* One that has deleted the sessions leaves only what is late.
Cleared(r, q) ==
    req[r].pc \in {"unindex", "save"} /\ req[q].pc # "failed" /\ q \notin late
        => ~Pending(q) /\ sess[q] # "live"

Unmade(q) ==
    /\ req[q].pc \in {"idle", "ask", "verify", "confirm", "put"} => sess[q] # "live"
    /\ chal[q] = "live" => req[q].pc = "done"

SessInv ==
    /\ \A q \in Reqs : Current(q) /\ Indexed(q) /\ Unmade(q)
    /\ \A r, q \in Reqs : Found(r, q) /\ Cleared(r, q)

-----------------------------------------------------------------------------
(* Backup codes. *)

\* The row is held by a request that is about to change the factor.
Holds(q) == req[q].op \in {"complete", "confirm"} /\ req[q].pc \in {"put", "index", "drop", "commit"}
Takes(q) == req[q].op = "complete" /\ req[q].pc \in {"put", "index", "drop", "commit"} /\ req[q].code # None
Took(q)  == req[q].op = "complete" /\ req[q].pc = "done" /\ req[q].code # None

CodeInv ==
    /\ \A q \in Reqs : Holds(q) <=> lock = q
    /\ \A q \in Reqs : Takes(q) => req[q].code \in factor.left /\ req[q].by = factor.by
    /\ \A q \in Reqs : Took(q) /\ req[q].by = factor.by => req[q].code \notin factor.left
    /\ \A q, r \in Reqs : (Took(q) \/ Takes(q)) /\ req[q].by = r => req[r].pc = "done"
    /\ \A r \in Reqs : factor.by = r => req[r].pc = "done"
    /\ BackupOnce

-----------------------------------------------------------------------------
(* Enrolments. *)

Confirmed(q) == req[q].op = "confirm" /\ req[q].pc = "done"

\* A confirmation that has the row, and has found it pending.
Proving(q) == req[q].op = "confirm" /\ req[q].pc \in {"put", "index", "commit"}

Proven(q) == lock = q /\ factor.status = "pending" /\ factor.secret = req[q].secret

EnrolInv ==
    /\ \A q \in Reqs : Proving(q) => Proven(q)
    /\ \A q \in Reqs \ over : Confirmed(q) => ~Starting
    /\ EnrolmentStands

-----------------------------------------------------------------------------
(* Resets. *)

TokenInv ==
    /\ \A r \in Resets : req[r].src \in Tokens
    /\ \A r \in Resets : token[req[r].src] # "absent"
    /\ \A r \in Resets : req[r].pc \in {"members", "kill", "unindex", "save"} =>
           req[r].src \in req[r].held \/ token[req[r].src] = "used"
    /\ \A r \in Resets : req[r].pc = "done" => token[req[r].src] = "used"
    /\ \A r, q \in Resets : Running(r) /\ Running(q) /\ r # q => r \in over
    /\ \A r, q \in Resets :
           req[r].pc = "done" /\ Running(q) /\ req[r].src = req[q].src => {r, q} \subseteq over
    /\ TokenOnce
-----------------------------------------------------------------------------
(* What a step does to the requests. *)

USE NoneAssumption

\* A request moves on; its fields and the other requests stay.
Moves(r, p) ==
    /\ req' \in [Reqs -> RequestType]
    /\ \A q \in Reqs \ {r} : req'[q] = req[q]
    /\ req'[r].pc = p
    /\ req'[r].op = req[r].op
    /\ req'[r].ver = req[r].ver
    /\ req'[r].src = req[r].src
    /\ req'[r].secret = req[r].secret
    /\ req'[r].code = req[r].code
    /\ req'[r].by = req[r].by
    /\ req'[r].held = req[r].held
    /\ req'[r].found = req[r].found

LEMMA MoveFacts ==
    ASSUME req \in [Reqs -> RequestType], NEW r \in Reqs, NEW p \in PCs, Goto(r, p)
    PROVE  Moves(r, p)
<1>1. req[r] \in RequestType /\ DOMAIN req = Reqs
  OBVIOUS
<1>2. req'[r] = [req[r] EXCEPT !.pc = p]
  BY <1>1 DEF Goto
<1>3. [req[r] EXCEPT !.pc = p] \in RequestType
  BY <1>1 DEF RequestType, PCs
<1>4. \A q \in Reqs \ {r} : req'[q] = req[q]
  BY <1>1 DEF Goto
<1>5. req' \in [Reqs -> RequestType]
  BY <1>2, <1>3, <1>4 DEF Goto
<1>6. QED
  BY <1>1, <1>2, <1>4, <1>5 DEF RequestType, Moves

\* What a new request is.
LEMMA RequestFacts ==
    ASSUME NEW op \in {"login", "complete", "start", "confirm", "reset"}, NEW p \in PCs,
           NEW ver \in Reqs \cup {None}, NEW src \in Reqs \cup Tokens \cup {None},
           NEW secret \in Reqs \cup {None}
    PROVE  Request(op, p, ver, src, secret) \in RequestType
  BY DEF Request, RequestType, PCs

\* A request begins.
Begins(r, op, p, ver, src, secret) ==
    /\ req' \in [Reqs -> RequestType]
    /\ \A q \in Reqs \ {r} : req'[q] = req[q]
    /\ req[r].pc = "idle"
    /\ req'[r].op = op
    /\ req'[r].pc = p
    /\ req'[r].ver = ver
    /\ req'[r].src = src
    /\ req'[r].secret = secret
    /\ req'[r].code = None
    /\ req'[r].by = None
    /\ req'[r].held = {}
    /\ req'[r].found = {}

LEMMA BeginFacts ==
    ASSUME req \in [Reqs -> RequestType], NEW r \in Reqs, req[r] = Fresh,
           NEW op \in {"login", "complete", "start", "confirm", "reset"}, NEW p \in PCs,
           NEW ver \in Reqs \cup {None}, NEW src \in Reqs \cup Tokens \cup {None},
           NEW secret \in Reqs \cup {None},
           req' = [req EXCEPT ![r] = Request(op, p, ver, src, secret)]
    PROVE  Begins(r, op, p, ver, src, secret)
<1>1. req[r].pc = "idle"
  BY DEF Fresh, Request
<1>2. Request(op, p, ver, src, secret) \in RequestType
  BY RequestFacts
<1>3. req' \in [Reqs -> RequestType]
  BY <1>2
<1>4. req'[r] = Request(op, p, ver, src, secret)
  OBVIOUS
<1>5. \A q \in Reqs \ {r} : req'[q] = req[q]
  OBVIOUS
<1>6. /\ req'[r].op = op /\ req'[r].pc = p /\ req'[r].ver = ver /\ req'[r].src = src
      /\ req'[r].secret = secret /\ req'[r].code = None /\ req'[r].by = None
      /\ req'[r].held = {} /\ req'[r].found = {}
  BY <1>4 DEF Request
<1>7. QED
  BY <1>1, <1>3, <1>5, <1>6 DEF Begins

-----------------------------------------------------------------------------
(* The effect of each action on the requests. *)

LEMMA LoginBegins ==
    ASSUME TypeOK, NEW r \in Reqs, LoadLogin(r)
    PROVE  Begins(r, "login", IF factor.status = "enrolled" THEN "ask" ELSE "put", pw, None, None)
  BY BeginFacts DEF TypeOK, LoadLogin, PCs

LEMMA CompleteBegins ==
    ASSUME TypeOK, NEW r \in Reqs, NEW c \in Reqs, LoadChallenge(r, c)
    PROVE  Begins(r, "complete", "verify", req[c].ver, c, None)
<1>1. req[c].ver \in Reqs \cup {None}
  BY DEF TypeOK, RequestType
<1>2. QED
  BY <1>1, BeginFacts DEF TypeOK, LoadChallenge, PCs

LEMMA StartBegins ==
    ASSUME TypeOK, NEW r \in Reqs, NEW s \in Reqs, LoadStart(r, s)
    PROVE  Begins(r, "start", "start", None, s, None)
  BY BeginFacts DEF TypeOK, LoadStart, PCs

LEMMA ConfirmBegins ==
    ASSUME TypeOK, NEW r \in Reqs, NEW s \in Reqs, LoadConfirm(r, s)
    PROVE  Begins(r, "confirm", "confirm", req[s].ver, s, None)
<1>1. req[s].ver \in Reqs \cup {None}
  BY DEF TypeOK, RequestType
<1>2. QED
  BY <1>1, BeginFacts DEF TypeOK, LoadConfirm, PCs

LEMMA ResetBegins ==
    ASSUME TypeOK, NEW r \in Reqs, NEW t \in Tokens, LoadReset(r, t)
    PROVE  Begins(r, "reset", "consume", None, t, None)
  BY BeginFacts DEF TypeOK, LoadReset, PCs

\* Where a session has been indexed.
AfterIndex(r) == IF req[r].op = "complete" THEN "drop" ELSE "commit"

LEMMA StepMoves ==
    ASSUME TypeOK, NEW r \in Reqs
    PROVE  /\ CreateChallenge(r) => Moves(r, "done")
           /\ PutSession(r) => Moves(r, "index")
           /\ IndexSession(r) => Moves(r, AfterIndex(r))
           /\ RefuseCode(r) => Moves(r, "failed")
           /\ DropChallenge(r) => Moves(r, "commit")
           /\ SaveStart(r) => Moves(r, "done")
           /\ RefuseConfirm(r) => Moves(r, "failed")
           /\ Commit(r) => Moves(r, "done")
           /\ DeleteSessions(r) => Moves(r, "unindex")
           /\ DeleteIndex(r) => Moves(r, "save")
           /\ SavePassword(r) => Moves(r, "done")
           /\ Abort(r) => Moves(r, "failed")
<1>1. req \in [Reqs -> RequestType]
  BY DEF TypeOK
<1>2. \A p \in PCs : Goto(r, p) => Moves(r, p)
  BY <1>1, MoveFacts
<1>3. {"done", "index", "failed", "commit", "put", "unindex", "save", "drop"} \subseteq PCs
  BY DEF PCs
<1>4. AfterIndex(r) \in PCs
  BY DEF AfterIndex, PCs
<1>5. IndexSession(r) => Moves(r, AfterIndex(r))
  BY <1>2, <1>4 DEF IndexSession, AfterIndex
<1>6. QED
  BY <1>2, <1>3, <1>5
     DEF CreateChallenge, PutSession, RefuseCode, DropChallenge, SaveStart, RefuseConfirm,
         Commit, DeleteSessions, DeleteIndex, SavePassword, Abort

\* A refused confirmation leaves as little as one that is cut off.
LEMMA RefuseAborts ==
    ASSUME NEW r \in Reqs, RefuseConfirm(r)
    PROVE  Abort(r)
  BY DEF RefuseConfirm, Abort, Running, Ended

LEMMA ConfirmLocks ==
    ASSUME TypeOK, NEW r \in Reqs, LockConfirm(r)
    PROVE  /\ req' \in [Reqs -> RequestType]
           /\ \A q \in Reqs \ {r} : req'[q] = req[q]
           /\ req'[r].pc = "put" /\ req'[r].op = req[r].op
           /\ req'[r].ver = req[r].ver /\ req'[r].src = req[r].src
           /\ req'[r].secret = factor.secret /\ req'[r].code = req[r].code
           /\ req'[r].by = req[r].by /\ req'[r].held = req[r].held
           /\ req'[r].found = req[r].found
<1>1. req[r] \in RequestType /\ DOMAIN req = Reqs /\ factor.secret \in Reqs \cup {None}
  BY DEF TypeOK
<1>2. req'[r] = [req[r] EXCEPT !.pc = "put", !.secret = factor.secret]
  BY <1>1 DEF LockConfirm
<1>3. [req[r] EXCEPT !.pc = "put", !.secret = factor.secret] \in RequestType
  <2>1. ASSUME NEW u \in RequestType, NEW x \in Reqs \cup {None}
        PROVE  [u EXCEPT !.pc = "put", !.secret = x] \in RequestType
    BY DEF RequestType
  <2>2. QED
    BY <1>1, <2>1
<1>4. \A q \in Reqs \ {r} : req'[q] = req[q]
  BY <1>1 DEF LockConfirm
<1>5. req' \in [Reqs -> RequestType]
  BY <1>2, <1>3, <1>4 DEF LockConfirm, TypeOK
<1>6. QED
  BY <1>1, <1>2, <1>4, <1>5 DEF RequestType

LEMMA VerifyMoves ==
    ASSUME TypeOK, NEW r \in Reqs, NEW code \in Codes \cup {None}, VerifyCode(r, code)
    PROVE  /\ req' \in [Reqs -> RequestType]
           /\ \A q \in Reqs \ {r} : req'[q] = req[q]
           /\ req'[r].pc = "put" /\ req'[r].op = req[r].op
           /\ req'[r].ver = req[r].ver /\ req'[r].src = req[r].src
           /\ req'[r].secret = req[r].secret /\ req'[r].code = code
           /\ req'[r].by = factor.by
<1>1. req[r] \in RequestType /\ DOMAIN req = Reqs /\ factor.by \in Reqs \cup {None}
  BY DEF TypeOK
<1>2. req'[r] = [req[r] EXCEPT !.pc = "put", !.code = code, !.by = factor.by]
  BY <1>1 DEF VerifyCode
<1>3. [req[r] EXCEPT !.pc = "put", !.code = code, !.by = factor.by] \in RequestType
  <2>1. ASSUME NEW u \in RequestType, NEW c \in Codes \cup {None}, NEW b \in Reqs \cup {None}
        PROVE  [u EXCEPT !.pc = "put", !.code = c, !.by = b] \in RequestType
    BY DEF RequestType
  <2>2. QED
    BY <1>1, <2>1
<1>4. \A q \in Reqs \ {r} : req'[q] = req[q]
  BY <1>1 DEF VerifyCode
<1>5. req' \in [Reqs -> RequestType]
  BY <1>2, <1>3, <1>4 DEF VerifyCode, TypeOK
<1>6. QED
  BY <1>1, <1>2, <1>4, <1>5 DEF RequestType

LEMMA ConsumeMoves ==
    ASSUME TypeOK, NEW r \in Reqs, ConsumeTokens(r)
    PROVE  /\ req' \in [Reqs -> RequestType]
           /\ \A q \in Reqs \ {r} : req'[q] = req[q]
           /\ req'[r].pc = "members" /\ req'[r].op = req[r].op
           /\ req'[r].ver = req[r].ver /\ req'[r].src = req[r].src
           /\ req'[r].secret = req[r].secret /\ req'[r].code = req[r].code
           /\ req'[r].by = req[r].by /\ req'[r].held = {t \in Tokens : Unused(t)}
<1> DEFINE T == {t \in Tokens : Unused(t)}
<1>1. req[r] \in RequestType /\ DOMAIN req = Reqs /\ T \subseteq Tokens
  BY DEF TypeOK
<1>2. req'[r] = [req[r] EXCEPT !.pc = "members", !.held = T]
  BY <1>1 DEF ConsumeTokens
<1>3. [req[r] EXCEPT !.pc = "members", !.held = T] \in RequestType
  <2>1. ASSUME NEW u \in RequestType, NEW S \in SUBSET Tokens
        PROVE  [u EXCEPT !.pc = "members", !.held = S] \in RequestType
    BY DEF RequestType
  <2>2. QED
    BY <1>1, <2>1
<1>4. \A q \in Reqs \ {r} : req'[q] = req[q]
  BY <1>1 DEF ConsumeTokens
<1>5. req' \in [Reqs -> RequestType]
  BY <1>2, <1>3, <1>4 DEF ConsumeTokens, TypeOK
<1>6. QED
  BY <1>1, <1>2, <1>4, <1>5 DEF RequestType

LEMMA ReadMoves ==
    ASSUME TypeOK, NEW r \in Reqs, ReadIndex(r)
    PROVE  /\ req' \in [Reqs -> RequestType]
           /\ \A q \in Reqs \ {r} : req'[q] = req[q]
           /\ req'[r].pc = "kill" /\ req'[r].op = req[r].op
           /\ req'[r].ver = req[r].ver /\ req'[r].src = req[r].src
           /\ req'[r].secret = req[r].secret /\ req'[r].code = req[r].code
           /\ req'[r].by = req[r].by /\ req'[r].held = req[r].held
           /\ req'[r].found = index
<1>1. req[r] \in RequestType /\ DOMAIN req = Reqs /\ index \in SUBSET Reqs
  BY DEF TypeOK
<1>2. req'[r] = [req[r] EXCEPT !.pc = "kill", !.found = index]
  BY <1>1 DEF ReadIndex
<1>3. [req[r] EXCEPT !.pc = "kill", !.found = index] \in RequestType
  <2>1. ASSUME NEW u \in RequestType, NEW S \in SUBSET Reqs
        PROVE  [u EXCEPT !.pc = "kill", !.found = S] \in RequestType
    BY DEF RequestType
  <2>2. QED
    BY <1>1, <2>1
<1>4. \A q \in Reqs \ {r} : req'[q] = req[q]
  BY <1>1 DEF ReadIndex
<1>5. req' \in [Reqs -> RequestType]
  BY <1>2, <1>3, <1>4 DEF ReadIndex, TypeOK
<1>6. QED
  BY <1>1, <1>2, <1>4, <1>5 DEF RequestType

-----------------------------------------------------------------------------
(* Types. *)

LEMMA TypedInit == Init => Typed
<1> SUFFICES ASSUME Init PROVE Typed
  OBVIOUS
<1>1. Fresh \in RequestType /\ Fresh.op = "none" /\ Fresh.pc = "idle"
  BY DEF Fresh, Request, RequestType
<1>2. req \in [Reqs -> RequestType] /\ \A q \in Reqs : req[q] = Fresh
  BY <1>1 DEF Init
<1>3. \A q \in Reqs : OpAt(q)
  BY <1>1, <1>2 DEF OpAt
<1>4. TypeOK
  BY <1>2 DEF Init, TypeOK, Factor
<1>5. QED
  BY <1>3, <1>4 DEF Typed

\* A reset that meets another is noted, and so is the other.
LEMMA OverFacts ==
    ASSUME NEW r \in Reqs, over \subseteq Reqs, NoteOver(r)
    PROVE  /\ over' \subseteq Reqs
           /\ over \subseteq over'
           /\ \A q \in Resets \ {r} : Running(q) => {q, r} \subseteq over'
  BY DEF NoteOver, Resets

\* The places of requests stay in step with what they do.
LEMMA OpStep ==
    ASSUME Typed, NEW r \in Reqs, \A q \in Reqs \ {r} : req'[q] = req[q],
           \/ \E p \in {"done", "failed"} :
                 req'[r].op = req[r].op /\ req'[r].pc = p /\ req[r].pc # "idle"
           \/ /\ req'[r].op = req[r].op
              /\ req[r].pc \in {"put", "index", "verify", "confirm", "drop"}
              /\ req'[r].pc \in {"put", "index", "commit"}
           \/ /\ req'[r].op = "complete" /\ req'[r].pc \in {"verify", "drop"}
           \/ /\ req'[r].op = req[r].op
              /\ req[r].pc \in {"consume", "members", "kill", "unindex"}
              /\ req'[r].pc \in {"members", "kill", "unindex", "save"}
           \/ /\ req'[r].op = "login" /\ req'[r].pc \in {"ask", "put"}
           \/ /\ req'[r].op = req'[r].pc /\ req'[r].pc \in {"start", "confirm"}
           \/ /\ req'[r].op = "reset" /\ req'[r].pc = "consume"
    PROVE  \A q \in Reqs : OpAt(q)'
<1>1. \A q \in Reqs \ {r} : OpAt(q)'
  BY DEF Typed, OpAt
<1>2. OpAt(r)
  BY DEF Typed
<1>3. OpAt(r)'
  BY <1>2 DEF OpAt
<1>4. QED
  BY <1>1, <1>3

LEMMA TypedStep == Typed /\ [Next]_vars => Typed'
<1> SUFFICES ASSUME Typed, [Next]_vars PROVE Typed'
  OBVIOUS
<1> USE DEF Typed
<1>1. ASSUME NEW r \in Reqs, LoadLogin(r) PROVE Typed'
  <2>1. req' \in [Reqs -> RequestType] /\ \A q \in Reqs : OpAt(q)'
    BY <1>1, LoginBegins, OpStep DEF Begins
  <2>2. QED
    BY <1>1, <2>1 DEF TypeOK, LoadLogin, NoteLate, Factor
<1>2. ASSUME NEW r \in Reqs, NEW c \in Reqs, LoadChallenge(r, c) PROVE Typed'
  <2>1. req' \in [Reqs -> RequestType] /\ \A q \in Reqs : OpAt(q)'
    BY <1>2, CompleteBegins, OpStep DEF Begins
  <2>2. QED
    BY <1>2, <2>1 DEF TypeOK, LoadChallenge, NoteLate, Factor
<1>3. ASSUME NEW r \in Reqs, NEW s \in Reqs, LoadStart(r, s) PROVE Typed'
  <2>1. req' \in [Reqs -> RequestType] /\ \A q \in Reqs : OpAt(q)'
    BY <1>3, StartBegins, OpStep DEF Begins
  <2>2. QED
    BY <1>3, <2>1 DEF TypeOK, LoadStart
<1>4. ASSUME NEW r \in Reqs, NEW s \in Reqs, LoadConfirm(r, s) PROVE Typed'
  <2>1. req' \in [Reqs -> RequestType] /\ \A q \in Reqs : OpAt(q)'
    BY <1>4, ConfirmBegins, OpStep DEF Begins
  <2>2. QED
    BY <1>4, <2>1 DEF TypeOK, LoadConfirm, NoteLate
<1>5. ASSUME NEW r \in Reqs, NEW t \in Tokens, LoadReset(r, t) PROVE Typed'
  <2>1. req' \in [Reqs -> RequestType] /\ \A q \in Reqs : OpAt(q)'
    BY <1>5, ResetBegins, OpStep DEF Begins
  <2>2. over' \subseteq Reqs
    <3>1. over \subseteq Reqs /\ NoteOver(r)
      BY <1>5 DEF TypeOK, LoadReset
    <3>2. QED
      BY <3>1, OverFacts
  <2>3. QED
    BY <1>5, <2>1, <2>2 DEF TypeOK, LoadReset, NoteLate
<1>6. ASSUME NEW r \in Reqs, CreateChallenge(r) PROVE Typed'
  <2>1. req' \in [Reqs -> RequestType] /\ \A q \in Reqs : OpAt(q)'
    BY <1>6, StepMoves, OpStep DEF Moves, CreateChallenge
  <2>2. QED
    BY <1>6, <2>1 DEF TypeOK, CreateChallenge, NoteLate, Factor
<1>7. ASSUME NEW r \in Reqs, PutSession(r) PROVE Typed'
  <2>1. req' \in [Reqs -> RequestType] /\ \A q \in Reqs : OpAt(q)'
    BY <1>7, StepMoves, OpStep DEF Moves, PutSession
  <2>2. QED
    BY <1>7, <2>1 DEF TypeOK, PutSession, NoteLate, Factor
<1>8. ASSUME NEW r \in Reqs, IndexSession(r) PROVE Typed'
  <2>1. req' \in [Reqs -> RequestType] /\ \A q \in Reqs : OpAt(q)'
    BY <1>8, StepMoves, OpStep DEF Moves, AfterIndex, IndexSession
  <2>2. QED
    BY <1>8, <2>1 DEF TypeOK, IndexSession, NoteLate, Factor
<1>9. ASSUME NEW r \in Reqs, RefuseCode(r) PROVE Typed'
  <2>1. req' \in [Reqs -> RequestType] /\ \A q \in Reqs : OpAt(q)'
    BY <1>9, StepMoves, OpStep DEF Moves, RefuseCode
  <2>2. QED
    BY <1>9, <2>1 DEF TypeOK, RefuseCode, NoteLate, Factor
<1>10. ASSUME NEW r \in Reqs, DropChallenge(r) PROVE Typed'
  <2>1. req' \in [Reqs -> RequestType] /\ \A q \in Reqs : OpAt(q)'
    BY <1>10, StepMoves, OpStep DEF Moves, DropChallenge
  <2>2. QED
    BY <1>10, <2>1 DEF TypeOK, DropChallenge, NoteLate, Factor
<1>11. ASSUME NEW r \in Reqs, SaveStart(r) PROVE Typed'
  <2>1. req' \in [Reqs -> RequestType] /\ \A q \in Reqs : OpAt(q)'
    BY <1>11, StepMoves, OpStep DEF Moves, SaveStart
  <2>2. QED
    BY <1>11, <2>1 DEF TypeOK, SaveStart, NoteLate, Factor
<1>12. ASSUME NEW r \in Reqs, LockConfirm(r) PROVE Typed'
  <2>1. req' \in [Reqs -> RequestType] /\ \A q \in Reqs : OpAt(q)'
    BY <1>12, ConfirmLocks, OpStep DEF Moves, LockConfirm
  <2>2. QED
    BY <1>12, <2>1 DEF TypeOK, LockConfirm, NoteLate, Factor
<1>13. ASSUME NEW r \in Reqs, Commit(r) PROVE Typed'
  <2>1. req' \in [Reqs -> RequestType] /\ \A q \in Reqs : OpAt(q)'
    BY <1>13, StepMoves, OpStep DEF Moves, Factor, Commit
  <2>2. QED
    BY <1>13, <2>1 DEF TypeOK, Commit, NoteLate, Factor
<1>14. ASSUME NEW r \in Reqs, DeleteSessions(r) PROVE Typed'
  <2>1. req' \in [Reqs -> RequestType] /\ \A q \in Reqs : OpAt(q)'
    BY <1>14, StepMoves, OpStep DEF Moves, DeleteSessions
  <2>2. QED
    BY <1>14, <2>1 DEF TypeOK, DeleteSessions, NoteLate, Factor
<1>15. ASSUME NEW r \in Reqs, DeleteIndex(r) PROVE Typed'
  <2>1. req' \in [Reqs -> RequestType] /\ \A q \in Reqs : OpAt(q)'
    BY <1>15, StepMoves, OpStep DEF Moves, DeleteIndex
  <2>2. QED
    BY <1>15, <2>1 DEF TypeOK, DeleteIndex, NoteLate, Factor
<1>16. ASSUME NEW r \in Reqs, SavePassword(r) PROVE Typed'
  <2>1. req' \in [Reqs -> RequestType] /\ \A q \in Reqs : OpAt(q)'
    BY <1>16, StepMoves, OpStep DEF Moves, SavePassword
  <2>2. QED
    BY <1>16, <2>1 DEF TypeOK, SavePassword, NoteLate, Factor
<1>17. ASSUME NEW r \in Reqs, Abort(r) PROVE Typed'
  <2>1. req' \in [Reqs -> RequestType] /\ \A q \in Reqs : OpAt(q)'
    BY <1>17, StepMoves, OpStep DEF Moves, Running, Ended, Abort
  <2>2. QED
    BY <1>17, <2>1 DEF TypeOK, Abort, NoteLate, Factor
<1>18. ASSUME NEW r \in Reqs, NEW code \in Codes \cup {None}, VerifyCode(r, code) PROVE Typed'
  <2>1. req' \in [Reqs -> RequestType] /\ \A q \in Reqs : OpAt(q)'
    BY <1>18, VerifyMoves, OpStep DEF VerifyCode
  <2>2. QED
    BY <1>18, <2>1 DEF TypeOK, VerifyCode, NoteLate, Factor
<1>19. ASSUME NEW r \in Reqs, ConsumeTokens(r) PROVE Typed'
  <2>1. req' \in [Reqs -> RequestType] /\ \A q \in Reqs : OpAt(q)'
    BY <1>19, ConsumeMoves, OpStep DEF ConsumeTokens
  <2>2. QED
    BY <1>19, <2>1 DEF TypeOK, ConsumeTokens, NoteLate, Factor
<1>20. ASSUME NEW r \in Reqs, ReadIndex(r) PROVE Typed'
  <2>1. req' \in [Reqs -> RequestType] /\ \A q \in Reqs : OpAt(q)'
    BY <1>20, ReadMoves, OpStep DEF ReadIndex
  <2>2. QED
    BY <1>20, <2>1 DEF TypeOK, ReadIndex, NoteLate, Factor
<1>21. ASSUME NEW s \in Reqs, EndSession(s) PROVE Typed'
  BY <1>21 DEF TypeOK, OpAt, EndSession
<1>22. ASSUME NEW s \in Reqs, ExpireChallenge(s) PROVE Typed'
  BY <1>22 DEF TypeOK, OpAt, ExpireChallenge
<1>23. ASSUME NEW t \in Tokens, RequestReset(t) PROVE Typed'
  BY <1>23 DEF TypeOK, OpAt, RequestReset
<1>24. ASSUME NEW t \in Tokens, ExpireToken(t) PROVE Typed'
  BY <1>24 DEF TypeOK, OpAt, ExpireToken
<1>25. CASE UNCHANGED vars
  BY <1>25 DEF TypeOK, OpAt, vars, RequestType, Unused
<1>26. ASSUME NEW r \in Reqs, RefuseConfirm(r) PROVE Typed'
  BY <1>17, <1>26, RefuseAborts
<1>27. QED
  BY <1>1, <1>2, <1>3, <1>4, <1>5, <1>6, <1>7, <1>8, <1>9, <1>10, <1>11, <1>12, <1>13, <1>14, <1>15, <1>16, <1>17, <1>18, <1>19, <1>20, <1>21, <1>22, <1>23, <1>24, <1>25, <1>26 DEF Next, Step

THEOREM TypeCorrect == Spec => []TypeOK
<1>1. Typed => TypeOK
  BY DEF Typed
<1>2. QED
  BY TypedInit, TypedStep, <1>1, PTL DEF Spec

-----------------------------------------------------------------------------
(* Enrolments. *)

LEMMA EnrolInit == Init => EnrolInv
<1> SUFFICES ASSUME Init PROVE EnrolInv
  OBVIOUS
<1>1. \A q \in Reqs : req[q].op = "none"
  BY DEF Init, Fresh, Request
<1>2. QED
  BY <1>1 DEF EnrolInv, EnrolmentStands, Proving, Confirmed

\* A step of one request that neither completes an enrolment nor changes one: whoever
\* holds the row keeps it, and a start begins only while the user is pending.
LEMMA EnrolMove ==
    ASSUME EnrolInv, NEW r \in Reqs, \A q \in Reqs \ {r} : req'[q] = req[q],
           factor'.status = factor.status, factor'.secret = factor.secret, factor'.by = factor.by,
           over \subseteq over', \A q \in Reqs \ {r} : lock = q => lock' = q,
           ~Confirmed(r)', Proving(r)' => Proven(r)',
           req'[r].pc = "start" => factor.status = "pending"
    PROVE  EnrolInv'
<1>1. \A q \in Reqs : Confirmed(q)' => Confirmed(q) /\ q # r /\ req'[q] = req[q]
  BY DEF Confirmed
<1>2. EnrolmentStands'
  BY <1>1 DEF EnrolInv, EnrolmentStands, Confirmed
<1>3. ASSUME NEW p \in Reqs \ over', Confirmed(p)' PROVE ~Starting'
  <2>1. ~Starting /\ factor.status = "enrolled"
    BY <1>1, <1>3 DEF EnrolInv, EnrolmentStands, Confirmed
  <2>2. QED
    BY <2>1 DEF Starting
<1>4. \A q \in Reqs : Proving(q)' => Proven(q)'
  BY DEF EnrolInv, Proving, Proven
<1>5. QED
  BY <1>2, <1>3, <1>4 DEF EnrolInv

LEMMA EnrolStep == Typed /\ EnrolInv /\ [Next]_vars => EnrolInv'
<1> SUFFICES ASSUME Typed, EnrolInv, [Next]_vars PROVE EnrolInv'
  OBVIOUS
<1>0. TypeOK /\ \A q \in Reqs : OpAt(q)
  BY DEF Typed
<1>1. ASSUME NEW r \in Reqs, LoadLogin(r) PROVE EnrolInv'
  <2>1. /\ \A q \in Reqs \ {r} : req'[q] = req[q]
        /\ ~Confirmed(r)' /\ (req'[r].pc = "start" => factor.status = "pending")
    BY <1>0, <1>1, LoginBegins DEF Moves, Begins, Confirmed, OpAt
  <2>2. Proving(r)' => Proven(r)'
    BY <1>0, <1>1, LoginBegins DEF EnrolInv, Moves, Begins, Proving, Proven, OpAt
  <2>3. factor' = factor /\ over \subseteq over' /\ \A q \in Reqs \ {r} : lock = q => lock' = q
    BY <1>0, <1>1 DEF LoadLogin
  <2>4. QED
    BY <2>1, <2>2, <2>3, EnrolMove
<1>2. ASSUME NEW r \in Reqs, NEW c \in Reqs, LoadChallenge(r, c) PROVE EnrolInv'
  <2>1. /\ \A q \in Reqs \ {r} : req'[q] = req[q]
        /\ ~Confirmed(r)' /\ (req'[r].pc = "start" => factor.status = "pending")
    BY <1>0, <1>2, CompleteBegins DEF Moves, Begins, Confirmed, OpAt
  <2>2. Proving(r)' => Proven(r)'
    BY <1>0, <1>2, CompleteBegins DEF EnrolInv, Moves, Begins, Proving, Proven, OpAt
  <2>3. factor' = factor /\ over \subseteq over' /\ \A q \in Reqs \ {r} : lock = q => lock' = q
    BY <1>0, <1>2 DEF LoadChallenge
  <2>4. QED
    BY <2>1, <2>2, <2>3, EnrolMove
<1>3. ASSUME NEW r \in Reqs, NEW s \in Reqs, LoadStart(r, s) PROVE EnrolInv'
  <2>1. /\ \A q \in Reqs \ {r} : req'[q] = req[q]
        /\ ~Confirmed(r)' /\ (req'[r].pc = "start" => factor.status = "pending")
    BY <1>0, <1>3, StartBegins DEF Moves, Begins, Confirmed, OpAt, LoadStart
  <2>2. Proving(r)' => Proven(r)'
    BY <1>0, <1>3, StartBegins DEF EnrolInv, Moves, Begins, Proving, Proven, OpAt, LoadStart
  <2>3. factor' = factor /\ over \subseteq over' /\ \A q \in Reqs \ {r} : lock = q => lock' = q
    BY <1>0, <1>3 DEF LoadStart
  <2>4. QED
    BY <2>1, <2>2, <2>3, EnrolMove
<1>4. ASSUME NEW r \in Reqs, NEW s \in Reqs, LoadConfirm(r, s) PROVE EnrolInv'
  <2>1. /\ \A q \in Reqs \ {r} : req'[q] = req[q]
        /\ ~Confirmed(r)' /\ (req'[r].pc = "start" => factor.status = "pending")
    BY <1>0, <1>4, ConfirmBegins DEF Moves, Begins, Confirmed, OpAt
  <2>2. Proving(r)' => Proven(r)'
    BY <1>0, <1>4, ConfirmBegins DEF EnrolInv, Moves, Begins, Proving, Proven, OpAt
  <2>3. factor' = factor /\ over \subseteq over' /\ \A q \in Reqs \ {r} : lock = q => lock' = q
    BY <1>0, <1>4 DEF LoadConfirm
  <2>4. QED
    BY <2>1, <2>2, <2>3, EnrolMove
<1>5. ASSUME NEW r \in Reqs, NEW t \in Tokens, LoadReset(r, t) PROVE EnrolInv'
  <2>1. /\ \A q \in Reqs \ {r} : req'[q] = req[q]
        /\ ~Confirmed(r)' /\ (req'[r].pc = "start" => factor.status = "pending")
    BY <1>0, <1>5, ResetBegins DEF Moves, Begins, Confirmed, OpAt
  <2>2. Proving(r)' => Proven(r)'
    BY <1>0, <1>5, ResetBegins DEF EnrolInv, Moves, Begins, Proving, Proven, OpAt
  <2>3. factor' = factor /\ over \subseteq over' /\ \A q \in Reqs \ {r} : lock = q => lock' = q
    BY <1>0, <1>5 DEF LoadReset, NoteOver
  <2>4. QED
    BY <2>1, <2>2, <2>3, EnrolMove
<1>6. ASSUME NEW r \in Reqs, CreateChallenge(r) PROVE EnrolInv'
  <2>1. /\ \A q \in Reqs \ {r} : req'[q] = req[q]
        /\ ~Confirmed(r)' /\ (req'[r].pc = "start" => factor.status = "pending")
    BY <1>0, <1>6, StepMoves DEF Moves, Begins, Confirmed, OpAt, CreateChallenge
  <2>2. Proving(r)' => Proven(r)'
    BY <1>0, <1>6, StepMoves DEF EnrolInv, Moves, Begins, Proving, Proven, OpAt, CreateChallenge
  <2>3. factor' = factor /\ over \subseteq over' /\ \A q \in Reqs \ {r} : lock = q => lock' = q
    BY <1>0, <1>6 DEF CreateChallenge
  <2>4. QED
    BY <2>1, <2>2, <2>3, EnrolMove
<1>7. ASSUME NEW r \in Reqs, PutSession(r) PROVE EnrolInv'
  <2>1. /\ \A q \in Reqs \ {r} : req'[q] = req[q]
        /\ ~Confirmed(r)' /\ (req'[r].pc = "start" => factor.status = "pending")
    BY <1>0, <1>7, StepMoves DEF Moves, Begins, Confirmed, OpAt, PutSession
  <2>2. Proving(r)' => Proven(r)'
    <3>1. req[r].pc = "put" /\ factor' = factor /\ lock' = lock
      BY <1>7 DEF PutSession
    <3>2. req'[r].op = req[r].op /\ req'[r].secret = req[r].secret
      BY <1>0, <1>7, StepMoves DEF Moves
    <3>3. QED
      BY <3>1, <3>2 DEF EnrolInv, Proving, Proven
  <2>3. factor' = factor /\ over \subseteq over' /\ \A q \in Reqs \ {r} : lock = q => lock' = q
    BY <1>0, <1>7 DEF PutSession
  <2>4. QED
    BY <2>1, <2>2, <2>3, EnrolMove
<1>8. ASSUME NEW r \in Reqs, IndexSession(r) PROVE EnrolInv'
  <2>1. /\ \A q \in Reqs \ {r} : req'[q] = req[q]
        /\ ~Confirmed(r)' /\ (req'[r].pc = "start" => factor.status = "pending")
    BY <1>0, <1>8, StepMoves DEF Moves, Begins, Confirmed, OpAt, AfterIndex, IndexSession
  <2>2. Proving(r)' => Proven(r)'
    BY <1>0, <1>8, StepMoves DEF EnrolInv, Moves, Begins, Proving, Proven, OpAt, AfterIndex, IndexSession
  <2>3. factor' = factor /\ over \subseteq over' /\ \A q \in Reqs \ {r} : lock = q => lock' = q
    BY <1>0, <1>8 DEF IndexSession
  <2>4. QED
    BY <2>1, <2>2, <2>3, EnrolMove
<1>9. ASSUME NEW r \in Reqs, RefuseCode(r) PROVE EnrolInv'
  <2>1. /\ \A q \in Reqs \ {r} : req'[q] = req[q]
        /\ ~Confirmed(r)' /\ (req'[r].pc = "start" => factor.status = "pending")
    BY <1>0, <1>9, StepMoves DEF Moves, Begins, Confirmed, OpAt, RefuseCode
  <2>2. Proving(r)' => Proven(r)'
    BY <1>0, <1>9, StepMoves DEF EnrolInv, Moves, Begins, Proving, Proven, OpAt, RefuseCode
  <2>3. factor' = factor /\ over \subseteq over' /\ \A q \in Reqs \ {r} : lock = q => lock' = q
    BY <1>0, <1>9 DEF RefuseCode
  <2>4. QED
    BY <2>1, <2>2, <2>3, EnrolMove
<1>10. ASSUME NEW r \in Reqs, DropChallenge(r) PROVE EnrolInv'
  <2>1. /\ \A q \in Reqs \ {r} : req'[q] = req[q]
        /\ ~Confirmed(r)' /\ (req'[r].pc = "start" => factor.status = "pending")
    BY <1>0, <1>10, StepMoves DEF Moves, Begins, Confirmed, OpAt, DropChallenge
  <2>2. Proving(r)' => Proven(r)'
    BY <1>0, <1>10, StepMoves DEF EnrolInv, Moves, Begins, Proving, Proven, OpAt, DropChallenge
  <2>3. factor' = factor /\ over \subseteq over' /\ \A q \in Reqs \ {r} : lock = q => lock' = q
    BY <1>0, <1>10 DEF DropChallenge
  <2>4. QED
    BY <2>1, <2>2, <2>3, EnrolMove
<1>11. ASSUME NEW r \in Reqs, LockConfirm(r) PROVE EnrolInv'
  <2>1. /\ \A q \in Reqs \ {r} : req'[q] = req[q]
        /\ ~Confirmed(r)' /\ (req'[r].pc = "start" => factor.status = "pending")
    BY <1>0, <1>11, ConfirmLocks DEF Moves, Begins, Confirmed, OpAt, LockConfirm
  <2>2. Proving(r)' => Proven(r)'
    BY <1>0, <1>11, ConfirmLocks DEF EnrolInv, Moves, Begins, Proving, Proven, OpAt, LockConfirm
  <2>3. factor' = factor /\ over \subseteq over' /\ \A q \in Reqs \ {r} : lock = q => lock' = q
    BY <1>0, <1>11 DEF LockConfirm
  <2>4. QED
    BY <2>1, <2>2, <2>3, EnrolMove
<1>12. ASSUME NEW r \in Reqs, RefuseConfirm(r) PROVE EnrolInv'
  <2>1. /\ \A q \in Reqs \ {r} : req'[q] = req[q]
        /\ ~Confirmed(r)' /\ (req'[r].pc = "start" => factor.status = "pending")
    BY <1>0, <1>12, StepMoves DEF Moves, Begins, Confirmed, OpAt, RefuseConfirm
  <2>2. Proving(r)' => Proven(r)'
    BY <1>0, <1>12, StepMoves DEF EnrolInv, Moves, Begins, Proving, Proven, OpAt, RefuseConfirm
  <2>3. factor' = factor /\ over \subseteq over' /\ \A q \in Reqs \ {r} : lock = q => lock' = q
    BY <1>0, <1>12 DEF RefuseConfirm
  <2>4. QED
    BY <2>1, <2>2, <2>3, EnrolMove
<1>13. ASSUME NEW r \in Reqs, ConsumeTokens(r) PROVE EnrolInv'
  <2>1. /\ \A q \in Reqs \ {r} : req'[q] = req[q]
        /\ ~Confirmed(r)' /\ (req'[r].pc = "start" => factor.status = "pending")
    BY <1>0, <1>13, ConsumeMoves DEF Moves, Begins, Confirmed, OpAt, ConsumeTokens
  <2>2. Proving(r)' => Proven(r)'
    BY <1>0, <1>13, ConsumeMoves DEF EnrolInv, Moves, Begins, Proving, Proven, OpAt, ConsumeTokens
  <2>3. factor' = factor /\ over \subseteq over' /\ \A q \in Reqs \ {r} : lock = q => lock' = q
    BY <1>0, <1>13 DEF ConsumeTokens
  <2>4. QED
    BY <2>1, <2>2, <2>3, EnrolMove
<1>14. ASSUME NEW r \in Reqs, ReadIndex(r) PROVE EnrolInv'
  <2>1. /\ \A q \in Reqs \ {r} : req'[q] = req[q]
        /\ ~Confirmed(r)' /\ (req'[r].pc = "start" => factor.status = "pending")
    BY <1>0, <1>14, ReadMoves DEF Moves, Begins, Confirmed, OpAt, ReadIndex
  <2>2. Proving(r)' => Proven(r)'
    BY <1>0, <1>14, ReadMoves DEF EnrolInv, Moves, Begins, Proving, Proven, OpAt, ReadIndex
  <2>3. factor' = factor /\ over \subseteq over' /\ \A q \in Reqs \ {r} : lock = q => lock' = q
    BY <1>0, <1>14 DEF ReadIndex
  <2>4. QED
    BY <2>1, <2>2, <2>3, EnrolMove
<1>15. ASSUME NEW r \in Reqs, DeleteSessions(r) PROVE EnrolInv'
  <2>1. /\ \A q \in Reqs \ {r} : req'[q] = req[q]
        /\ ~Confirmed(r)' /\ (req'[r].pc = "start" => factor.status = "pending")
    BY <1>0, <1>15, StepMoves DEF Moves, Begins, Confirmed, OpAt, DeleteSessions
  <2>2. Proving(r)' => Proven(r)'
    BY <1>0, <1>15, StepMoves DEF EnrolInv, Moves, Begins, Proving, Proven, OpAt, DeleteSessions
  <2>3. factor' = factor /\ over \subseteq over' /\ \A q \in Reqs \ {r} : lock = q => lock' = q
    BY <1>0, <1>15 DEF DeleteSessions
  <2>4. QED
    BY <2>1, <2>2, <2>3, EnrolMove
<1>16. ASSUME NEW r \in Reqs, DeleteIndex(r) PROVE EnrolInv'
  <2>1. /\ \A q \in Reqs \ {r} : req'[q] = req[q]
        /\ ~Confirmed(r)' /\ (req'[r].pc = "start" => factor.status = "pending")
    BY <1>0, <1>16, StepMoves DEF Moves, Begins, Confirmed, OpAt, DeleteIndex
  <2>2. Proving(r)' => Proven(r)'
    BY <1>0, <1>16, StepMoves DEF EnrolInv, Moves, Begins, Proving, Proven, OpAt, DeleteIndex
  <2>3. factor' = factor /\ over \subseteq over' /\ \A q \in Reqs \ {r} : lock = q => lock' = q
    BY <1>0, <1>16 DEF DeleteIndex
  <2>4. QED
    BY <2>1, <2>2, <2>3, EnrolMove
<1>17. ASSUME NEW r \in Reqs, SavePassword(r) PROVE EnrolInv'
  <2>1. /\ \A q \in Reqs \ {r} : req'[q] = req[q]
        /\ ~Confirmed(r)' /\ (req'[r].pc = "start" => factor.status = "pending")
    BY <1>0, <1>17, StepMoves DEF Moves, Begins, Confirmed, OpAt, SavePassword
  <2>2. Proving(r)' => Proven(r)'
    BY <1>0, <1>17, StepMoves DEF EnrolInv, Moves, Begins, Proving, Proven, OpAt, SavePassword
  <2>3. factor' = factor /\ over \subseteq over' /\ \A q \in Reqs \ {r} : lock = q => lock' = q
    BY <1>0, <1>17 DEF SavePassword
  <2>4. QED
    BY <2>1, <2>2, <2>3, EnrolMove
<1>18. ASSUME NEW r \in Reqs, Abort(r) PROVE EnrolInv'
  <2>1. /\ \A q \in Reqs \ {r} : req'[q] = req[q]
        /\ ~Confirmed(r)' /\ (req'[r].pc = "start" => factor.status = "pending")
    BY <1>0, <1>18, StepMoves DEF Moves, Begins, Confirmed, OpAt, Running, Ended, Abort
  <2>2. Proving(r)' => Proven(r)'
    BY <1>0, <1>18, StepMoves DEF EnrolInv, Moves, Begins, Proving, Proven, OpAt, Running, Ended, Abort
  <2>3. factor' = factor /\ over \subseteq over' /\ \A q \in Reqs \ {r} : lock = q => lock' = q
    BY <1>0, <1>18 DEF Abort
  <2>4. QED
    BY <2>1, <2>2, <2>3, EnrolMove
<1>19. ASSUME NEW r \in Reqs, NEW code \in Codes \cup {None}, VerifyCode(r, code) PROVE EnrolInv'
  <2>1. /\ \A q \in Reqs \ {r} : req'[q] = req[q]
        /\ ~Confirmed(r)' /\ (req'[r].pc = "start" => factor.status = "pending")
    BY <1>0, <1>19, VerifyMoves DEF Moves, Begins, Confirmed, OpAt, VerifyCode
  <2>2. Proving(r)' => Proven(r)'
    BY <1>0, <1>19, VerifyMoves DEF EnrolInv, Moves, Begins, Proving, Proven, OpAt, VerifyCode
  <2>3. factor' = factor /\ over \subseteq over' /\ \A q \in Reqs \ {r} : lock = q => lock' = q
    BY <1>0, <1>19 DEF VerifyCode
  <2>4. QED
    BY <2>1, <2>2, <2>3, EnrolMove
<1>20. ASSUME NEW r \in Reqs, SaveStart(r) PROVE EnrolInv'
  <2>1. Moves(r, "done") /\ req[r].pc = "start" /\ req[r].op = "start"
    BY <1>0, <1>20, StepMoves DEF SaveStart, OpAt
  <2>2. factor'.status = factor.status /\ factor'.by = factor.by /\ over' = over /\ lock = None
    BY <1>0, <1>20 DEF SaveStart, TypeOK
  <2>3. \A q \in Reqs : /\ ~Proving(q)'
                        /\ Confirmed(q)' => Confirmed(q) /\ req'[q] = req[q] /\ q \in over
    <3>1. \A q \in Reqs : Confirmed(q) => q \in over
      BY <2>1 DEF EnrolInv, Starting
    <3>2. \A q \in Reqs : ~Proving(q)
      BY <2>2 DEF EnrolInv, Proven
    <3>3. QED
      BY <2>1, <3>1, <3>2 DEF Moves, Proving, Confirmed
  <2>4. EnrolmentStands'
    BY <2>2, <2>3 DEF EnrolInv, EnrolmentStands, Confirmed
  <2>5. QED
    BY <2>2, <2>3, <2>4 DEF EnrolInv
<1>21. ASSUME NEW r \in Reqs, Commit(r) PROVE EnrolInv'
  <2>1. /\ Moves(r, "done") /\ req[r].pc = "commit"
        /\ req[r].op \in {"login", "complete", "confirm"}
    BY <1>0, <1>21, StepMoves DEF Commit, OpAt
  <2>2. \A q \in Reqs \ {r} : req'[q] = req[q] /\ (lock = q => lock' = q)
    BY <1>21, <2>1 DEF Moves, Commit
  <2>3. CASE req[r].op # "confirm"
    <3>1. factor'.status = factor.status /\ factor'.secret = factor.secret /\ factor'.by = factor.by
      BY <1>0, <1>21, <2>3 DEF Commit, TypeOK
    <3>2. ~Confirmed(r)' /\ ~Proving(r)' /\ req'[r].pc # "start" /\ over' = over
      BY <1>21, <2>1, <2>3 DEF Moves, Confirmed, Proving, Commit
    <3>3. QED
      BY <2>2, <3>1, <3>2, EnrolMove
  <2>4. CASE req[r].op = "confirm"
    <3>1. lock = r /\ factor.status = "pending" /\ factor.secret = req[r].secret
      BY <2>1, <2>4 DEF EnrolInv, Proving, Proven
    <3>2. factor'.status = "enrolled" /\ factor'.by = r /\ factor'.secret = factor.secret
      BY <1>21, <2>4 DEF Commit, Factor
    <3>3. \A q \in Reqs : ~Proving(q)' /\ (Confirmed(q)' => q = r)
      <4>1. \A q \in Reqs \ {r} : ~Proving(q) /\ ~Confirmed(q)
        BY <3>1 DEF EnrolInv, EnrolmentStands, Proven, Confirmed
      <4>2. QED
        BY <2>1, <2>2, <4>1 DEF Moves, Proving, Confirmed
    <3>4. r \notin over' => ~Starting'
      BY <1>21, <2>1, <2>2, <2>4 DEF Commit, Moves, Starting
    <3>5. req'[r].secret = factor'.secret
      BY <2>1, <3>1, <3>2 DEF Moves
    <3>6. EnrolmentStands'
      BY <3>2, <3>3, <3>5 DEF EnrolmentStands, Confirmed
    <3>7. QED
      BY <3>3, <3>4, <3>6 DEF EnrolInv
  <2>5. QED
    BY <2>3, <2>4
<1>22. ASSUME NEW s \in Reqs, EndSession(s) PROVE EnrolInv'
  BY <1>22 DEF EnrolInv, EnrolmentStands, Proving, Proven, Confirmed, Starting, EndSession
<1>23. ASSUME NEW s \in Reqs, ExpireChallenge(s) PROVE EnrolInv'
  BY <1>23 DEF EnrolInv, EnrolmentStands, Proving, Proven, Confirmed, Starting, ExpireChallenge
<1>24. ASSUME NEW t \in Tokens, RequestReset(t) PROVE EnrolInv'
  BY <1>24 DEF EnrolInv, EnrolmentStands, Proving, Proven, Confirmed, Starting, RequestReset
<1>25. ASSUME NEW t \in Tokens, ExpireToken(t) PROVE EnrolInv'
  BY <1>25 DEF EnrolInv, EnrolmentStands, Proving, Proven, Confirmed, Starting, ExpireToken
<1>26. CASE UNCHANGED vars
  BY <1>26 DEF EnrolInv, EnrolmentStands, Proving, Proven, Confirmed, Starting, vars
<1>27. QED
  BY <1>1, <1>2, <1>3, <1>4, <1>5, <1>6, <1>7, <1>8, <1>9, <1>10, <1>11, <1>12, <1>13, <1>14, <1>15, <1>16, <1>17, <1>18, <1>19, <1>20, <1>21, <1>22, <1>23, <1>24, <1>25, <1>26 DEF Next, Step

\* A confirmed enrolment is the only one and its backup codes are for good; so is its
\* secret, unless a start that had read the row as pending was still under way.
THEOREM EnrolmentStandsSafe == Spec => []EnrolmentStands
<1>1. EnrolInv => EnrolmentStands
  BY DEF EnrolInv
<1>2. Typed /\ EnrolInv /\ [Next]_vars => Typed' /\ EnrolInv'
  BY TypedStep, EnrolStep
<1>3. QED
  BY TypedInit, EnrolInit, <1>1, <1>2, PTL DEF Spec

-----------------------------------------------------------------------------
(* Resets. *)

LEMMA TokenInit == Init => TokenInv
<1> SUFFICES ASSUME Init PROVE TokenInv
  OBVIOUS
<1>1. Resets = {}
  BY DEF Init, Fresh, Request, Resets
<1>2. QED
  BY <1>1 DEF TokenInv, TokenOnce

\* Tokens once consumed stay so, and none is taken back.
TokensGoOn ==
    /\ \A t \in Tokens : token[t] # "absent" => token'[t] # "absent"
    /\ \A t \in Tokens : token[t] = "used" => token'[t] = "used"

\* The places between the UPDATE of the tokens and the commit.
Consumed(q) == req[q].pc \in {"members", "kill", "unindex", "save"}

\* Any step that lets no reset begin, consume or commit.
LEMMA TokenMoves ==
    ASSUME Typed, TokenInv, TokensGoOn, over \subseteq over',
           \A q \in Reqs : \/ req'[q].op = "reset" /\ req[q].op = "reset"
                           \/ req'[q].op # "reset" /\ req[q].op # "reset",
           \A q \in Resets : /\ req'[q].src = req[q].src
                             /\ Consumed(q)' => Consumed(q) /\ req'[q].held = req[q].held
                             /\ Running(q)' => Running(q)
                             /\ req'[q].pc = "done" => req[q].pc = "done"
    PROVE  TokenInv'
<1>1. Resets' = Resets
  BY DEF Resets
<1>2. \A r \in Resets : req'[r].src \in Tokens /\ req'[r].src = req[r].src
  BY DEF TokenInv
<1>3. \A r \in Resets : token'[req'[r].src] # "absent"
  BY <1>2 DEF TokenInv, TokensGoOn
<1>4. \A r \in Resets : Consumed(r)' => req'[r].src \in req'[r].held \/ token'[req'[r].src] = "used"
  BY <1>2 DEF TokenInv, TokensGoOn, Consumed
<1>5. \A r \in Resets : req'[r].pc = "done" => token'[req'[r].src] = "used"
  BY <1>2 DEF TokenInv, TokensGoOn
<1>6. \A r, q \in Resets : Running(r)' /\ Running(q)' /\ r # q => r \in over'
  BY DEF TokenInv
<1>7. \A r, q \in Resets :
          req'[r].pc = "done" /\ Running(q)' /\ req'[r].src = req'[q].src => {r, q} \subseteq over'
  BY <1>2 DEF TokenInv
<1>8. TokenOnce'
  BY <1>1, <1>2 DEF TokenInv, TokenOnce
<1>9. QED
  BY <1>1, <1>2, <1>3, <1>4, <1>5, <1>6, <1>7, <1>8 DEF TokenInv, Consumed

\* The same for a step of one request.
LEMMA TokenMove ==
    ASSUME Typed, TokenInv, TokensGoOn, over \subseteq over', NEW r \in Reqs,
           \A q \in Reqs \ {r} : req'[q] = req[q],
           \/ req'[r].op # "reset" /\ req[r].op # "reset"
           \/ /\ req'[r].op = req[r].op /\ req'[r].src = req[r].src /\ req'[r].held = req[r].held
              /\ Consumed(r)' => Consumed(r)
              /\ Running(r) /\ req'[r].pc # "done"
    PROVE  TokenInv'
<1>1. \A q \in Reqs : \/ req'[q].op = "reset" /\ req[q].op = "reset"
                      \/ req'[q].op # "reset" /\ req[q].op # "reset"
  OBVIOUS
<1>2. \A q \in Resets : /\ req'[q].src = req[q].src
                        /\ Consumed(q)' => Consumed(q) /\ req'[q].held = req[q].held
                        /\ Running(q)' => Running(q)
                        /\ req'[q].pc = "done" => req[q].pc = "done"
  BY DEF Resets, Consumed, Running, Ended
<1>3. QED
  BY <1>1, <1>2, TokenMoves

LEMMA TokenStep == Typed /\ TokenInv /\ [Next]_vars => TokenInv'
<1> SUFFICES ASSUME Typed, TokenInv, [Next]_vars PROVE TokenInv'
  OBVIOUS
<1>0. TypeOK /\ \A q \in Reqs : OpAt(q)
  BY DEF Typed
<1>00. token' = token => TokensGoOn
  BY DEF TokensGoOn
<1>1. ASSUME NEW r \in Reqs, LoadLogin(r) PROVE TokenInv'
  <2>1. \A q \in Reqs \ {r} : req'[q] = req[q]
    BY <1>0, <1>1, LoginBegins DEF Moves, Begins
  <2>2. /\ req'[r].op # "reset" /\ req[r].op # "reset"
    BY <1>0, <1>1, LoginBegins DEF Moves, Begins, Running, Ended, Consumed, OpAt, LoadLogin
  <2>3. over \subseteq over' /\ token' = token
    BY <1>1 DEF LoadLogin
  <2>4. QED
    BY <1>00, <2>1, <2>2, <2>3, TokenMove
<1>2. ASSUME NEW r \in Reqs, NEW c \in Reqs, LoadChallenge(r, c) PROVE TokenInv'
  <2>1. \A q \in Reqs \ {r} : req'[q] = req[q]
    BY <1>0, <1>2, CompleteBegins DEF Moves, Begins
  <2>2. /\ req'[r].op # "reset" /\ req[r].op # "reset"
    BY <1>0, <1>2, CompleteBegins DEF Moves, Begins, Running, Ended, Consumed, OpAt, LoadChallenge
  <2>3. over \subseteq over' /\ token' = token
    BY <1>2 DEF LoadChallenge
  <2>4. QED
    BY <1>00, <2>1, <2>2, <2>3, TokenMove
<1>3. ASSUME NEW r \in Reqs, NEW s \in Reqs, LoadStart(r, s) PROVE TokenInv'
  <2>1. \A q \in Reqs \ {r} : req'[q] = req[q]
    BY <1>0, <1>3, StartBegins DEF Moves, Begins
  <2>2. /\ req'[r].op # "reset" /\ req[r].op # "reset"
    BY <1>0, <1>3, StartBegins DEF Moves, Begins, Running, Ended, Consumed, OpAt, LoadStart
  <2>3. over \subseteq over' /\ token' = token
    BY <1>3 DEF LoadStart
  <2>4. QED
    BY <1>00, <2>1, <2>2, <2>3, TokenMove
<1>4. ASSUME NEW r \in Reqs, NEW s \in Reqs, LoadConfirm(r, s) PROVE TokenInv'
  <2>1. \A q \in Reqs \ {r} : req'[q] = req[q]
    BY <1>0, <1>4, ConfirmBegins DEF Moves, Begins
  <2>2. /\ req'[r].op # "reset" /\ req[r].op # "reset"
    BY <1>0, <1>4, ConfirmBegins DEF Moves, Begins, Running, Ended, Consumed, OpAt, LoadConfirm
  <2>3. over \subseteq over' /\ token' = token
    BY <1>4 DEF LoadConfirm
  <2>4. QED
    BY <1>00, <2>1, <2>2, <2>3, TokenMove
<1>5. ASSUME NEW r \in Reqs, NEW t \in Tokens, LoadReset(r, t) PROVE TokenInv'
  <2>1. /\ \A q \in Reqs \ {r} : req'[q] = req[q]
        /\ req[r].pc = "idle" /\ req'[r].op = "reset" /\ req'[r].pc = "consume" /\ req'[r].src = t
    BY <1>0, <1>5, ResetBegins DEF Begins
  <2>2. token[t] = "live" /\ token' = token /\ NoteOver(r)
    BY <1>5 DEF LoadReset
  <2>3. /\ over \subseteq over'
        /\ \A q \in Resets \ {r} : Running(q) => {q, r} \subseteq over'
    <3>1. over \subseteq Reqs
      BY <1>0 DEF TypeOK
    <3>2. QED
      BY <2>2, <3>1, OverFacts
  <2>4. \A q \in Resets' : q = r \/ (q \in Resets /\ q # r /\ req'[q] = req[q])
    BY <2>1 DEF Resets
  <2>5. \A q \in Resets : Running(q) => req[q].pc # "done"
    BY DEF Running, Ended
  <2>6. \A q \in Resets : req[q].pc = "done" => req[q].src # t
    BY <2>2 DEF TokenInv
  <2>7. \A q \in Resets' : req'[q].src \in Tokens /\ token'[req'[q].src] # "absent"
    BY <2>1, <2>2, <2>4 DEF TokenInv
  <2>8. \A q \in Resets' :
            /\ Consumed(q)' => req'[q].src \in req'[q].held \/ token'[req'[q].src] = "used"
            /\ req'[q].pc = "done" => token'[req'[q].src] = "used"
    BY <2>1, <2>2, <2>4 DEF TokenInv, Consumed
  <2>9. \A q \in Resets' : q # r => (Running(q)' <=> Running(q))
    BY <2>4 DEF Running, Ended
  <2>10. \A p, q \in Resets' : Running(p)' /\ Running(q)' /\ p # q => p \in over'
    <3> SUFFICES ASSUME NEW p \in Resets', NEW q \in Resets', Running(p)', Running(q)', p # q
                 PROVE  p \in over'
      OBVIOUS
    <3>1. CASE p = r
      BY <2>3, <2>4, <2>9, <3>1
    <3>2. CASE q = r
      BY <2>3, <2>4, <2>9, <3>2
    <3>3. CASE p # r /\ q # r
      BY <2>3, <2>4, <2>9, <3>3 DEF TokenInv
    <3>4. QED
      BY <3>1, <3>2, <3>3
  <2>11. \A p, q \in Resets' :
             req'[p].pc = "done" /\ Running(q)' /\ req'[p].src = req'[q].src => {p, q} \subseteq over'
    <3> SUFFICES ASSUME NEW p \in Resets', NEW q \in Resets',
                        req'[p].pc = "done", Running(q)', req'[p].src = req'[q].src
                 PROVE  {p, q} \subseteq over'
      OBVIOUS
    <3>1. p # r /\ p \in Resets /\ req[p].pc = "done" /\ req'[p].src = req[p].src
      BY <2>1, <2>4
    <3>2. q # r
      BY <2>1, <2>6, <3>1
    <3>3. QED
      BY <2>3, <2>4, <2>9, <3>1, <3>2 DEF TokenInv
  <2>12. TokenOnce'
    BY <2>1, <2>3, <2>4, <2>6 DEF TokenInv, TokenOnce
  <2>13. QED
    BY <2>7, <2>8, <2>10, <2>11, <2>12 DEF TokenInv, Consumed
<1>6. ASSUME NEW r \in Reqs, CreateChallenge(r) PROVE TokenInv'
  <2>1. \A q \in Reqs \ {r} : req'[q] = req[q]
    BY <1>0, <1>6, StepMoves DEF Moves, Begins
  <2>2. /\ req'[r].op # "reset" /\ req[r].op # "reset"
    BY <1>0, <1>6, StepMoves DEF Moves, Begins, Running, Ended, Consumed, OpAt, CreateChallenge
  <2>3. over \subseteq over' /\ token' = token
    BY <1>6 DEF CreateChallenge
  <2>4. QED
    BY <1>00, <2>1, <2>2, <2>3, TokenMove
<1>7. ASSUME NEW r \in Reqs, PutSession(r) PROVE TokenInv'
  <2>1. \A q \in Reqs \ {r} : req'[q] = req[q]
    BY <1>0, <1>7, StepMoves DEF Moves, Begins
  <2>2. /\ req'[r].op # "reset" /\ req[r].op # "reset"
    BY <1>0, <1>7, StepMoves DEF Moves, Begins, Running, Ended, Consumed, OpAt, PutSession
  <2>3. over \subseteq over' /\ token' = token
    BY <1>7 DEF PutSession
  <2>4. QED
    BY <1>00, <2>1, <2>2, <2>3, TokenMove
<1>8. ASSUME NEW r \in Reqs, IndexSession(r) PROVE TokenInv'
  <2>1. \A q \in Reqs \ {r} : req'[q] = req[q]
    BY <1>0, <1>8, StepMoves DEF Moves, Begins
  <2>2. /\ req'[r].op # "reset" /\ req[r].op # "reset"
    BY <1>0, <1>8, StepMoves DEF Moves, Begins, Running, Ended, Consumed, OpAt, AfterIndex, IndexSession
  <2>3. over \subseteq over' /\ token' = token
    BY <1>8 DEF IndexSession
  <2>4. QED
    BY <1>00, <2>1, <2>2, <2>3, TokenMove
<1>9. ASSUME NEW r \in Reqs, RefuseCode(r) PROVE TokenInv'
  <2>1. \A q \in Reqs \ {r} : req'[q] = req[q]
    BY <1>0, <1>9, StepMoves DEF Moves, Begins
  <2>2. /\ req'[r].op # "reset" /\ req[r].op # "reset"
    BY <1>0, <1>9, StepMoves DEF Moves, Begins, Running, Ended, Consumed, OpAt, RefuseCode
  <2>3. over \subseteq over' /\ token' = token
    BY <1>9 DEF RefuseCode
  <2>4. QED
    BY <1>00, <2>1, <2>2, <2>3, TokenMove
<1>10. ASSUME NEW r \in Reqs, DropChallenge(r) PROVE TokenInv'
  <2>1. \A q \in Reqs \ {r} : req'[q] = req[q]
    BY <1>0, <1>10, StepMoves DEF Moves, Begins
  <2>2. /\ req'[r].op # "reset" /\ req[r].op # "reset"
    BY <1>0, <1>10, StepMoves DEF Moves, Begins, Running, Ended, Consumed, OpAt, DropChallenge
  <2>3. over \subseteq over' /\ token' = token
    BY <1>10 DEF DropChallenge
  <2>4. QED
    BY <1>00, <2>1, <2>2, <2>3, TokenMove
<1>11. ASSUME NEW r \in Reqs, SaveStart(r) PROVE TokenInv'
  <2>1. \A q \in Reqs \ {r} : req'[q] = req[q]
    BY <1>0, <1>11, StepMoves DEF Moves, Begins
  <2>2. /\ req'[r].op # "reset" /\ req[r].op # "reset"
    BY <1>0, <1>11, StepMoves DEF Moves, Begins, Running, Ended, Consumed, OpAt, SaveStart
  <2>3. over \subseteq over' /\ token' = token
    BY <1>11 DEF SaveStart
  <2>4. QED
    BY <1>00, <2>1, <2>2, <2>3, TokenMove
<1>12. ASSUME NEW r \in Reqs, LockConfirm(r) PROVE TokenInv'
  <2>1. \A q \in Reqs \ {r} : req'[q] = req[q]
    BY <1>0, <1>12, ConfirmLocks DEF Moves, Begins
  <2>2. /\ req'[r].op # "reset" /\ req[r].op # "reset"
    BY <1>0, <1>12, ConfirmLocks DEF Moves, Begins, Running, Ended, Consumed, OpAt, LockConfirm
  <2>3. over \subseteq over' /\ token' = token
    BY <1>12 DEF LockConfirm
  <2>4. QED
    BY <1>00, <2>1, <2>2, <2>3, TokenMove
<1>13. ASSUME NEW r \in Reqs, Commit(r) PROVE TokenInv'
  <2>1. \A q \in Reqs \ {r} : req'[q] = req[q]
    BY <1>0, <1>13, StepMoves DEF Moves, Begins
  <2>2. /\ req'[r].op # "reset" /\ req[r].op # "reset"
    BY <1>0, <1>13, StepMoves DEF Moves, Begins, Running, Ended, Consumed, OpAt, Commit
  <2>3. over \subseteq over' /\ token' = token
    BY <1>13 DEF Commit
  <2>4. QED
    BY <1>00, <2>1, <2>2, <2>3, TokenMove
<1>14. ASSUME NEW r \in Reqs, DeleteSessions(r) PROVE TokenInv'
  <2>1. \A q \in Reqs \ {r} : req'[q] = req[q]
    BY <1>0, <1>14, StepMoves DEF Moves, Begins
  <2>2. /\ req'[r].op = req[r].op /\ req'[r].src = req[r].src /\ req'[r].held = req[r].held
        /\ Consumed(r)' => Consumed(r)
        /\ Running(r) /\ req'[r].pc # "done"
    BY <1>0, <1>14, StepMoves DEF Moves, Begins, Running, Ended, Consumed, OpAt, DeleteSessions
  <2>3. over \subseteq over' /\ token' = token
    BY <1>14 DEF DeleteSessions
  <2>4. QED
    BY <1>00, <2>1, <2>2, <2>3, TokenMove
<1>15. ASSUME NEW r \in Reqs, DeleteIndex(r) PROVE TokenInv'
  <2>1. \A q \in Reqs \ {r} : req'[q] = req[q]
    BY <1>0, <1>15, StepMoves DEF Moves, Begins
  <2>2. /\ req'[r].op = req[r].op /\ req'[r].src = req[r].src /\ req'[r].held = req[r].held
        /\ Consumed(r)' => Consumed(r)
        /\ Running(r) /\ req'[r].pc # "done"
    BY <1>0, <1>15, StepMoves DEF Moves, Begins, Running, Ended, Consumed, OpAt, DeleteIndex
  <2>3. over \subseteq over' /\ token' = token
    BY <1>15 DEF DeleteIndex
  <2>4. QED
    BY <1>00, <2>1, <2>2, <2>3, TokenMove
<1>16. ASSUME NEW r \in Reqs, Abort(r) PROVE TokenInv'
  <2>1. /\ \A q \in Reqs \ {r} : req'[q] = req[q]
        /\ req'[r].op = req[r].op /\ req'[r].src = req[r].src /\ req'[r].held = req[r].held
        /\ req'[r].pc = "failed" /\ Running(r) /\ over' = over /\ token' = token
    BY <1>0, <1>16, StepMoves DEF Moves, Abort
  <2>2. Consumed(r)' => Consumed(r)
    BY <2>1 DEF Consumed
  <2>3. QED
    BY <1>00, <2>1, <2>2, TokenMove
<1>17. ASSUME NEW r \in Reqs, NEW code \in Codes \cup {None}, VerifyCode(r, code) PROVE TokenInv'
  <2>1. \A q \in Reqs \ {r} : req'[q] = req[q]
    BY <1>0, <1>17, VerifyMoves DEF Moves, Begins
  <2>2. /\ req'[r].op # "reset" /\ req[r].op # "reset"
    BY <1>0, <1>17, VerifyMoves DEF Moves, Begins, Running, Ended, Consumed, OpAt, VerifyCode
  <2>3. over \subseteq over' /\ token' = token
    BY <1>17 DEF VerifyCode
  <2>4. QED
    BY <1>00, <2>1, <2>2, <2>3, TokenMove
<1>18. ASSUME NEW r \in Reqs, ReadIndex(r) PROVE TokenInv'
  <2>1. \A q \in Reqs \ {r} : req'[q] = req[q]
    BY <1>0, <1>18, ReadMoves DEF Moves, Begins
  <2>2. /\ req'[r].op = req[r].op /\ req'[r].src = req[r].src /\ req'[r].held = req[r].held
        /\ Consumed(r)' => Consumed(r)
        /\ Running(r) /\ req'[r].pc # "done"
    BY <1>0, <1>18, ReadMoves DEF Moves, Begins, Running, Ended, Consumed, OpAt, ReadIndex
  <2>3. over \subseteq over' /\ token' = token
    BY <1>18 DEF ReadIndex
  <2>4. QED
    BY <1>00, <2>1, <2>2, <2>3, TokenMove
<1>19. ASSUME NEW r \in Reqs, ConsumeTokens(r) PROVE TokenInv'
  <2>1. /\ \A q \in Reqs \ {r} : req'[q] = req[q]
        /\ req'[r].op = req[r].op /\ req'[r].src = req[r].src
        /\ req'[r].held = {t \in Tokens : Unused(t)} /\ req'[r].pc = "members"
        /\ req[r].pc = "consume" /\ req[r].op = "reset" /\ over' = over /\ token' = token
    BY <1>0, <1>19, ConsumeMoves DEF ConsumeTokens, OpAt
  <2>2. Resets' = Resets /\ r \in Resets
    BY <2>1 DEF Resets
  <2>3. \A q \in Resets : /\ req'[q].src = req[q].src
                          /\ Running(q)' => Running(q)
                          /\ req'[q].pc = "done" => req[q].pc = "done"
    BY <2>1 DEF Running, Ended, Resets
  <2>4. req[r].src \in req'[r].held \/ token[req[r].src] = "used"
    <3>1. req[r].src \in Tokens /\ token[req[r].src] # "absent"
      BY <2>2 DEF TokenInv
    <3>2. token[req[r].src] \in {"absent", "live", "expired", "used"}
      BY <1>0, <3>1 DEF TypeOK
    <3>3. QED
      BY <2>1, <3>1, <3>2 DEF Unused
  <2>5. \A q \in Resets : q # r /\ Consumed(q)' => req[q].src \in req'[q].held \/ token[req[q].src] = "used"
    BY <2>1 DEF TokenInv, Consumed, Resets
  <2>6. \A p, q \in Resets : Running(p)' /\ Running(q)' /\ p # q => p \in over
    BY <2>3 DEF TokenInv
  <2>7. \A p, q \in Resets :
            req'[p].pc = "done" /\ Running(q)' /\ req'[p].src = req'[q].src => {p, q} \subseteq over
    BY <2>3 DEF TokenInv
  <2>8. TokenOnce'
    BY <2>1, <2>2, <2>3 DEF TokenInv, TokenOnce
  <2>9. \A q \in Resets : /\ req'[q].src \in Tokens
                          /\ token[req'[q].src] # "absent"
                          /\ req'[q].pc = "done" => token[req'[q].src] = "used"
    BY <2>3 DEF TokenInv
  <2>10. \A q \in Resets : Consumed(q)' => req'[q].src \in req'[q].held \/ token[req'[q].src] = "used"
    BY <2>3, <2>4, <2>5
  <2>11. QED
    BY <2>1, <2>2, <2>6, <2>7, <2>8, <2>9, <2>10 DEF TokenInv, Consumed
<1>20. ASSUME NEW r \in Reqs, SavePassword(r) PROVE TokenInv'
  <2>1. /\ \A q \in Reqs \ {r} : req'[q] = req[q]
        /\ req'[r].op = req[r].op /\ req'[r].src = req[r].src /\ req'[r].held = req[r].held
        /\ req'[r].pc = "done" /\ req[r].pc = "save" /\ req[r].op = "reset" /\ over' = over
    BY <1>0, <1>20, StepMoves DEF Moves, SavePassword, OpAt
  <2>2. Resets' = Resets /\ r \in Resets
    BY <2>1 DEF Resets
  <2>3. \A t \in Tokens : token'[t] = IF t \in req[r].held THEN "used" ELSE token[t]
    BY <1>20 DEF SavePassword
  <2>4. TokensGoOn
    BY <2>3 DEF TokensGoOn
  <2>5. req[r].src \in Tokens /\ token'[req[r].src] = "used"
    BY <2>1, <2>2, <2>3 DEF TokenInv
  <2>6. \A q \in Resets : /\ req'[q].src = req[q].src /\ req[q].src \in Tokens
                          /\ Running(q)' => Running(q) /\ q # r
                          /\ req'[q].pc = "done" => req[q].pc = "done" \/ q = r
                          /\ Consumed(q)' => Consumed(q) /\ req'[q].held = req[q].held
    BY <2>1, <2>2 DEF Running, Ended, Consumed, TokenInv, Resets
  <2>7. Running(r) /\ req[r].pc # "done"
    BY <2>1 DEF Running, Ended
  <2>8. \A q \in Resets : /\ token'[req'[q].src] # "absent"
                          /\ Consumed(q)' => req'[q].src \in req'[q].held \/ token'[req'[q].src] = "used"
                          /\ req'[q].pc = "done" => token'[req'[q].src] = "used"
    BY <2>4, <2>5, <2>6 DEF TokenInv, TokensGoOn, Consumed
  <2>9. \A p, q \in Resets : Running(p)' /\ Running(q)' /\ p # q => p \in over
    BY <2>6 DEF TokenInv
  <2>10. \A p, q \in Resets :
             req'[p].pc = "done" /\ Running(q)' /\ req'[p].src = req'[q].src => {p, q} \subseteq over
    BY <2>2, <2>6, <2>7 DEF TokenInv
  <2>11. TokenOnce'
    <3> SUFFICES ASSUME NEW p \in Resets, NEW q \in Resets, req'[p].pc = "done", req'[q].pc = "done",
                        req'[p].src = req'[q].src, p # q
                 PROVE  {p, q} \subseteq over'
      BY <2>2 DEF TokenOnce
    <3>1. CASE p # r /\ q # r
      BY <2>1, <2>6, <3>1 DEF TokenInv, TokenOnce
    <3>2. CASE p = r
      BY <2>1, <2>2, <2>6, <2>7, <3>2 DEF TokenInv
    <3>3. CASE q = r
      BY <2>1, <2>2, <2>6, <2>7, <3>3 DEF TokenInv
    <3>4. QED
      BY <3>1, <3>2, <3>3
  <2>12. QED
    BY <2>1, <2>2, <2>6, <2>8, <2>9, <2>10, <2>11 DEF TokenInv, Consumed
<1>21. ASSUME NEW s \in Reqs, EndSession(s) PROVE TokenInv'
  <2>1. TokensGoOn
    BY <1>0, <1>21 DEF TokensGoOn, TypeOK, EndSession
  <2>2. req' = req /\ over' = over
    BY <1>21 DEF EndSession
  <2>3. QED
    BY <2>1, <2>2, TokenMoves DEF Resets, Consumed, Running, Ended
<1>22. ASSUME NEW s \in Reqs, ExpireChallenge(s) PROVE TokenInv'
  <2>1. TokensGoOn
    BY <1>0, <1>22 DEF TokensGoOn, TypeOK, ExpireChallenge
  <2>2. req' = req /\ over' = over
    BY <1>22 DEF ExpireChallenge
  <2>3. QED
    BY <2>1, <2>2, TokenMoves DEF Resets, Consumed, Running, Ended
<1>23. ASSUME NEW t \in Tokens, RequestReset(t) PROVE TokenInv'
  <2>1. TokensGoOn
    BY <1>0, <1>23 DEF TokensGoOn, TypeOK, RequestReset
  <2>2. req' = req /\ over' = over
    BY <1>23 DEF RequestReset
  <2>3. QED
    BY <2>1, <2>2, TokenMoves DEF Resets, Consumed, Running, Ended
<1>24. ASSUME NEW t \in Tokens, ExpireToken(t) PROVE TokenInv'
  <2>1. TokensGoOn
    BY <1>0, <1>24 DEF TokensGoOn, TypeOK, ExpireToken
  <2>2. req' = req /\ over' = over
    BY <1>24 DEF ExpireToken
  <2>3. QED
    BY <2>1, <2>2, TokenMoves DEF Resets, Consumed, Running, Ended
<1>25. CASE UNCHANGED vars
  BY <1>25 DEF TokenInv, TokenOnce, Resets, Running, Ended, vars
<1>26. ASSUME NEW r \in Reqs, RefuseConfirm(r) PROVE TokenInv'
  BY <1>16, <1>26, RefuseAborts
<1>27. QED
  BY <1>1, <1>2, <1>3, <1>4, <1>5, <1>6, <1>7, <1>8, <1>9, <1>10, <1>11, <1>12, <1>13, <1>14, <1>15, <1>16, <1>17, <1>18, <1>19, <1>20, <1>21, <1>22, <1>23, <1>24, <1>25, <1>26 DEF Next, Step

\* A token resets the password once, unless two requests use it at once.
THEOREM TokenOnceSafe == Spec => []TokenOnce
<1>1. TokenInv => TokenOnce
  BY DEF TokenInv
<1>2. Typed /\ TokenInv /\ [Next]_vars => Typed' /\ TokenInv'
  BY TypedStep, TokenStep
<1>3. QED
  BY TypedInit, TokenInit, <1>1, <1>2, PTL DEF Spec

-----------------------------------------------------------------------------
(* Backup codes. *)

LEMMA CodeInit == Init => CodeInv
<1> SUFFICES ASSUME Init PROVE CodeInv
  OBVIOUS
<1>1. \A q \in Reqs : req[q].pc = "idle" /\ req[q].op = "none"

  BY DEF Init, Fresh, Request
<1>2. lock = None /\ factor.by = None
  BY DEF Init, Factor
<1>3. QED
  BY <1>1, <1>2 DEF CodeInv, BackupOnce, Holds, Takes, Took

\* Any step that leaves the codes, and what requests take, alone.
LEMMA CodeMove ==
    ASSUME Typed, CodeInv, NEW r \in Reqs, \A q \in Reqs \ {r} : req'[q] = req[q],
           factor'.left = factor.left, factor'.by = factor.by,
           \A q \in Reqs \ {r} : lock' = q <=> lock = q,
           Holds(r)' <=> lock' = r,
           Takes(r)' => Takes(r) /\ req'[r].code = req[r].code /\ req'[r].by = req[r].by,
           ~Took(r)', req[r].pc # "done"
    PROVE  CodeInv'
<1>1. \A q \in Reqs : Holds(q)' <=> lock' = q
  BY DEF CodeInv, Holds
<1>2. \A q \in Reqs : /\ Takes(q)' => Takes(q) /\ req'[q].code = req[q].code /\ req'[q].by = req[q].by
                      /\ Took(q)' => Took(q) /\ req'[q].code = req[q].code /\ req'[q].by = req[q].by
                      /\ req[q].pc = "done" => req'[q].pc = "done"
  BY DEF Takes, Took
<1>3. \A q \in Reqs : Takes(q)' => req'[q].code \in factor'.left /\ req'[q].by = factor'.by
  BY <1>2 DEF CodeInv
<1>4. \A q \in Reqs : Took(q)' /\ req'[q].by = factor'.by => req'[q].code \notin factor'.left
  BY <1>2 DEF CodeInv
<1>5. \A q, x \in Reqs : (Took(q)' \/ Takes(q)') /\ req'[q].by = x => req'[x].pc = "done"
  BY <1>2 DEF CodeInv
<1>6. \A x \in Reqs : factor'.by = x => req'[x].pc = "done"
  BY <1>2 DEF CodeInv
<1>7. BackupOnce'
  <2>1. ASSUME NEW p \in Reqs, NEW q \in Reqs, Took(p)', req'[q].op = "complete", req'[q].pc = "done",
               req'[q].code = req'[p].code, req'[q].by = req'[p].by
        PROVE  q = p
    <3>1. Took(q)'
      BY <2>1 DEF Took
    <3>2. QED
      BY <1>2, <2>1, <3>1 DEF CodeInv, BackupOnce, Took
  <2>2. QED
    BY <2>1 DEF BackupOnce, Took
<1>8. QED
  BY <1>1, <1>3, <1>4, <1>5, <1>6, <1>7 DEF CodeInv

LEMMA CodeStep == Typed /\ CodeInv /\ [Next]_vars => CodeInv'
<1> SUFFICES ASSUME Typed, CodeInv, [Next]_vars PROVE CodeInv'
  OBVIOUS
<1>0. TypeOK /\ \A q \in Reqs : OpAt(q) /\ (Holds(q) <=> lock = q)
  BY DEF Typed, CodeInv
<1>1. ASSUME NEW r \in Reqs, LoadLogin(r) PROVE CodeInv'
  <2>1. \A q \in Reqs \ {r} : req'[q] = req[q]
    BY <1>0, <1>1, LoginBegins DEF Moves, Begins
  <2>2. /\ Holds(r)' <=> Holds(r)
        /\ Takes(r)' => Takes(r) /\ req'[r].code = req[r].code /\ req'[r].by = req[r].by
        /\ ~Took(r)' /\ req[r].pc # "done"
    <3>1. /\ req[r].pc = "idle"
          /\ req'[r].op = "login" /\ req'[r].pc \in {"ask", "put"}
      BY <1>0, <1>1, LoginBegins DEF Begins
    <3>2. QED
      BY <3>1 DEF Holds, Takes, Took
  <2>3. /\ factor'.left = factor.left /\ factor'.by = factor.by
        /\ \A q \in Reqs \ {r} : lock' = q <=> lock = q
        /\ Holds(r)' <=> lock' = r
    BY <1>0, <1>1, <2>2 DEF LoadLogin
  <2>4. QED
    BY <2>1, <2>2, <2>3, CodeMove
<1>2. ASSUME NEW r \in Reqs, NEW c \in Reqs, LoadChallenge(r, c) PROVE CodeInv'
  <2>1. \A q \in Reqs \ {r} : req'[q] = req[q]
    BY <1>0, <1>2, CompleteBegins DEF Moves, Begins
  <2>2. /\ Holds(r)' <=> Holds(r)
        /\ Takes(r)' => Takes(r) /\ req'[r].code = req[r].code /\ req'[r].by = req[r].by
        /\ ~Took(r)' /\ req[r].pc # "done"
    <3>1. /\ req[r].pc = "idle"
          /\ req'[r].op = "complete" /\ req'[r].pc \in {"verify"}
      BY <1>0, <1>2, CompleteBegins DEF Begins
    <3>2. QED
      BY <3>1 DEF Holds, Takes, Took
  <2>3. /\ factor'.left = factor.left /\ factor'.by = factor.by
        /\ \A q \in Reqs \ {r} : lock' = q <=> lock = q
        /\ Holds(r)' <=> lock' = r
    BY <1>0, <1>2, <2>2 DEF LoadChallenge
  <2>4. QED
    BY <2>1, <2>2, <2>3, CodeMove
<1>3. ASSUME NEW r \in Reqs, NEW s \in Reqs, LoadStart(r, s) PROVE CodeInv'
  <2>1. \A q \in Reqs \ {r} : req'[q] = req[q]
    BY <1>0, <1>3, StartBegins DEF Moves, Begins
  <2>2. /\ Holds(r)' <=> Holds(r)
        /\ Takes(r)' => Takes(r) /\ req'[r].code = req[r].code /\ req'[r].by = req[r].by
        /\ ~Took(r)' /\ req[r].pc # "done"
    <3>1. /\ req[r].pc = "idle"
          /\ req'[r].op = "start" /\ req'[r].pc \in {"start"}
      BY <1>0, <1>3, StartBegins DEF Begins
    <3>2. QED
      BY <3>1 DEF Holds, Takes, Took
  <2>3. /\ factor'.left = factor.left /\ factor'.by = factor.by
        /\ \A q \in Reqs \ {r} : lock' = q <=> lock = q
        /\ Holds(r)' <=> lock' = r
    BY <1>0, <1>3, <2>2 DEF LoadStart
  <2>4. QED
    BY <2>1, <2>2, <2>3, CodeMove
<1>4. ASSUME NEW r \in Reqs, NEW s \in Reqs, LoadConfirm(r, s) PROVE CodeInv'
  <2>1. \A q \in Reqs \ {r} : req'[q] = req[q]
    BY <1>0, <1>4, ConfirmBegins DEF Moves, Begins
  <2>2. /\ Holds(r)' <=> Holds(r)
        /\ Takes(r)' => Takes(r) /\ req'[r].code = req[r].code /\ req'[r].by = req[r].by
        /\ ~Took(r)' /\ req[r].pc # "done"
    <3>1. /\ req[r].pc = "idle"
          /\ req'[r].op = "confirm" /\ req'[r].pc \in {"confirm"}
      BY <1>0, <1>4, ConfirmBegins DEF Begins
    <3>2. QED
      BY <3>1 DEF Holds, Takes, Took
  <2>3. /\ factor'.left = factor.left /\ factor'.by = factor.by
        /\ \A q \in Reqs \ {r} : lock' = q <=> lock = q
        /\ Holds(r)' <=> lock' = r
    BY <1>0, <1>4, <2>2 DEF LoadConfirm
  <2>4. QED
    BY <2>1, <2>2, <2>3, CodeMove
<1>5. ASSUME NEW r \in Reqs, NEW t \in Tokens, LoadReset(r, t) PROVE CodeInv'
  <2>1. \A q \in Reqs \ {r} : req'[q] = req[q]
    BY <1>0, <1>5, ResetBegins DEF Moves, Begins
  <2>2. /\ Holds(r)' <=> Holds(r)
        /\ Takes(r)' => Takes(r) /\ req'[r].code = req[r].code /\ req'[r].by = req[r].by
        /\ ~Took(r)' /\ req[r].pc # "done"
    <3>1. /\ req[r].pc = "idle"
          /\ req'[r].op = "reset" /\ req'[r].pc \in {"consume"}
      BY <1>0, <1>5, ResetBegins DEF Begins
    <3>2. QED
      BY <3>1 DEF Holds, Takes, Took
  <2>3. /\ factor'.left = factor.left /\ factor'.by = factor.by
        /\ \A q \in Reqs \ {r} : lock' = q <=> lock = q
        /\ Holds(r)' <=> lock' = r
    BY <1>0, <1>5, <2>2 DEF LoadReset
  <2>4. QED
    BY <2>1, <2>2, <2>3, CodeMove
<1>6. ASSUME NEW r \in Reqs, CreateChallenge(r) PROVE CodeInv'
  <2>1. \A q \in Reqs \ {r} : req'[q] = req[q]
    BY <1>0, <1>6, StepMoves DEF Moves, Begins
  <2>2. /\ Holds(r)' <=> Holds(r)
        /\ Takes(r)' => Takes(r) /\ req'[r].code = req[r].code /\ req'[r].by = req[r].by
        /\ ~Took(r)' /\ req[r].pc # "done"
    BY <1>0, <1>6, StepMoves
       DEF Moves, Begins, OpAt, Holds, Takes, Took, CreateChallenge
  <2>3. /\ factor'.left = factor.left /\ factor'.by = factor.by
        /\ \A q \in Reqs \ {r} : lock' = q <=> lock = q
        /\ Holds(r)' <=> lock' = r
    BY <1>0, <1>6, <2>2 DEF CreateChallenge
  <2>4. QED
    BY <2>1, <2>2, <2>3, CodeMove
<1>7. ASSUME NEW r \in Reqs, PutSession(r) PROVE CodeInv'
  <2>1. \A q \in Reqs \ {r} : req'[q] = req[q]
    BY <1>0, <1>7, StepMoves DEF Moves, Begins
  <2>2. /\ Holds(r)' <=> Holds(r)
        /\ Takes(r)' => Takes(r) /\ req'[r].code = req[r].code /\ req'[r].by = req[r].by
        /\ ~Took(r)' /\ req[r].pc # "done"
    BY <1>0, <1>7, StepMoves
       DEF Moves, Begins, OpAt, Holds, Takes, Took, PutSession
  <2>3. /\ factor'.left = factor.left /\ factor'.by = factor.by
        /\ \A q \in Reqs \ {r} : lock' = q <=> lock = q
        /\ Holds(r)' <=> lock' = r
    BY <1>0, <1>7, <2>2 DEF PutSession
  <2>4. QED
    BY <2>1, <2>2, <2>3, CodeMove
<1>8. ASSUME NEW r \in Reqs, IndexSession(r) PROVE CodeInv'
  <2>1. \A q \in Reqs \ {r} : req'[q] = req[q]
    BY <1>0, <1>8, StepMoves DEF Moves, Begins
  <2>2. /\ Holds(r)' <=> Holds(r)
        /\ Takes(r)' => Takes(r) /\ req'[r].code = req[r].code /\ req'[r].by = req[r].by
        /\ ~Took(r)' /\ req[r].pc # "done"
    BY <1>0, <1>8, StepMoves
       DEF Moves, Begins, OpAt, Holds, Takes, Took, AfterIndex, IndexSession
  <2>3. /\ factor'.left = factor.left /\ factor'.by = factor.by
        /\ \A q \in Reqs \ {r} : lock' = q <=> lock = q
        /\ Holds(r)' <=> lock' = r
    BY <1>0, <1>8, <2>2 DEF IndexSession
  <2>4. QED
    BY <2>1, <2>2, <2>3, CodeMove
<1>9. ASSUME NEW r \in Reqs, RefuseCode(r) PROVE CodeInv'
  <2>1. \A q \in Reqs \ {r} : req'[q] = req[q]
    BY <1>0, <1>9, StepMoves DEF Moves, Begins
  <2>2. /\ Holds(r)' <=> Holds(r)
        /\ Takes(r)' => Takes(r) /\ req'[r].code = req[r].code /\ req'[r].by = req[r].by
        /\ ~Took(r)' /\ req[r].pc # "done"
    BY <1>0, <1>9, StepMoves
       DEF Moves, Begins, OpAt, Holds, Takes, Took, RefuseCode
  <2>3. /\ factor'.left = factor.left /\ factor'.by = factor.by
        /\ \A q \in Reqs \ {r} : lock' = q <=> lock = q
        /\ Holds(r)' <=> lock' = r
    BY <1>0, <1>9, <2>2 DEF RefuseCode
  <2>4. QED
    BY <2>1, <2>2, <2>3, CodeMove
<1>10. ASSUME NEW r \in Reqs, DropChallenge(r) PROVE CodeInv'
  <2>1. \A q \in Reqs \ {r} : req'[q] = req[q]
    BY <1>0, <1>10, StepMoves DEF Moves, Begins
  <2>2. /\ Holds(r)' <=> Holds(r)
        /\ Takes(r)' => Takes(r) /\ req'[r].code = req[r].code /\ req'[r].by = req[r].by
        /\ ~Took(r)' /\ req[r].pc # "done"
    BY <1>0, <1>10, StepMoves
       DEF Moves, Begins, OpAt, Holds, Takes, Took, DropChallenge
  <2>3. /\ factor'.left = factor.left /\ factor'.by = factor.by
        /\ \A q \in Reqs \ {r} : lock' = q <=> lock = q
        /\ Holds(r)' <=> lock' = r
    BY <1>0, <1>10, <2>2 DEF DropChallenge
  <2>4. QED
    BY <2>1, <2>2, <2>3, CodeMove
<1>11. ASSUME NEW r \in Reqs, SaveStart(r) PROVE CodeInv'
  <2>1. \A q \in Reqs \ {r} : req'[q] = req[q]
    BY <1>0, <1>11, StepMoves DEF Moves, Begins
  <2>2. /\ Holds(r)' <=> Holds(r)
        /\ Takes(r)' => Takes(r) /\ req'[r].code = req[r].code /\ req'[r].by = req[r].by
        /\ ~Took(r)' /\ req[r].pc # "done"
    BY <1>0, <1>11, StepMoves
       DEF Moves, Begins, OpAt, Holds, Takes, Took, SaveStart
  <2>3. /\ factor'.left = factor.left /\ factor'.by = factor.by
        /\ \A q \in Reqs \ {r} : lock' = q <=> lock = q
        /\ Holds(r)' <=> lock' = r
    BY <1>0, <1>11, <2>2 DEF SaveStart, TypeOK
  <2>4. QED
    BY <2>1, <2>2, <2>3, CodeMove
<1>12. ASSUME NEW r \in Reqs, LockConfirm(r) PROVE CodeInv'
  <2>1. \A q \in Reqs \ {r} : req'[q] = req[q]
    BY <1>0, <1>12, ConfirmLocks DEF Moves, Begins
  <2>2. /\ Holds(r)' <=> TRUE
        /\ Takes(r)' => Takes(r) /\ req'[r].code = req[r].code /\ req'[r].by = req[r].by
        /\ ~Took(r)' /\ req[r].pc # "done"
    <3>1. /\ req'[r].op = "confirm" /\ req'[r].pc = "put"
          /\ req[r].pc = "confirm"
      <4>1. req[r].pc = "confirm" /\ OpAt(r)
        BY <1>0, <1>12 DEF LockConfirm
      <4>2. req'[r].op = req[r].op /\ req'[r].pc = "put"
        BY <1>0, <1>12, ConfirmLocks
      <4>3. QED
        BY <4>1, <4>2 DEF OpAt
    <3>2. QED
      BY <3>1 DEF Holds, Takes, Took
  <2>3. /\ factor'.left = factor.left /\ factor'.by = factor.by
        /\ \A q \in Reqs \ {r} : lock' = q <=> lock = q
        /\ Holds(r)' <=> lock' = r
    BY <1>0, <1>12, <2>2 DEF LockConfirm
  <2>4. QED
    BY <2>1, <2>2, <2>3, CodeMove
<1>13. ASSUME NEW r \in Reqs, DeleteSessions(r) PROVE CodeInv'
  <2>1. \A q \in Reqs \ {r} : req'[q] = req[q]
    BY <1>0, <1>13, StepMoves DEF Moves, Begins
  <2>2. /\ Holds(r)' <=> Holds(r)
        /\ Takes(r)' => Takes(r) /\ req'[r].code = req[r].code /\ req'[r].by = req[r].by
        /\ ~Took(r)' /\ req[r].pc # "done"
    BY <1>0, <1>13, StepMoves
       DEF Moves, Begins, OpAt, Holds, Takes, Took, DeleteSessions
  <2>3. /\ factor'.left = factor.left /\ factor'.by = factor.by
        /\ \A q \in Reqs \ {r} : lock' = q <=> lock = q
        /\ Holds(r)' <=> lock' = r
    BY <1>0, <1>13, <2>2 DEF DeleteSessions
  <2>4. QED
    BY <2>1, <2>2, <2>3, CodeMove
<1>14. ASSUME NEW r \in Reqs, DeleteIndex(r) PROVE CodeInv'
  <2>1. \A q \in Reqs \ {r} : req'[q] = req[q]
    BY <1>0, <1>14, StepMoves DEF Moves, Begins
  <2>2. /\ Holds(r)' <=> Holds(r)
        /\ Takes(r)' => Takes(r) /\ req'[r].code = req[r].code /\ req'[r].by = req[r].by
        /\ ~Took(r)' /\ req[r].pc # "done"
    BY <1>0, <1>14, StepMoves
       DEF Moves, Begins, OpAt, Holds, Takes, Took, DeleteIndex
  <2>3. /\ factor'.left = factor.left /\ factor'.by = factor.by
        /\ \A q \in Reqs \ {r} : lock' = q <=> lock = q
        /\ Holds(r)' <=> lock' = r
    BY <1>0, <1>14, <2>2 DEF DeleteIndex
  <2>4. QED
    BY <2>1, <2>2, <2>3, CodeMove
<1>15. ASSUME NEW r \in Reqs, SavePassword(r) PROVE CodeInv'
  <2>1. \A q \in Reqs \ {r} : req'[q] = req[q]
    BY <1>0, <1>15, StepMoves DEF Moves, Begins
  <2>2. /\ Holds(r)' <=> Holds(r)
        /\ Takes(r)' => Takes(r) /\ req'[r].code = req[r].code /\ req'[r].by = req[r].by
        /\ ~Took(r)' /\ req[r].pc # "done"
    BY <1>0, <1>15, StepMoves
       DEF Moves, Begins, OpAt, Holds, Takes, Took, SavePassword
  <2>3. /\ factor'.left = factor.left /\ factor'.by = factor.by
        /\ \A q \in Reqs \ {r} : lock' = q <=> lock = q
        /\ Holds(r)' <=> lock' = r
    BY <1>0, <1>15, <2>2 DEF SavePassword
  <2>4. QED
    BY <2>1, <2>2, <2>3, CodeMove
<1>16. ASSUME NEW r \in Reqs, Abort(r) PROVE CodeInv'
  <2>1. \A q \in Reqs \ {r} : req'[q] = req[q]
    BY <1>0, <1>16, StepMoves DEF Moves, Begins
  <2>2. /\ Holds(r)' <=> FALSE
        /\ Takes(r)' => Takes(r) /\ req'[r].code = req[r].code /\ req'[r].by = req[r].by
        /\ ~Took(r)' /\ req[r].pc # "done"
    BY <1>0, <1>16, StepMoves
       DEF Moves, Begins, OpAt, Holds, Takes, Took, Running, Ended, Abort
  <2>3. /\ factor'.left = factor.left /\ factor'.by = factor.by
        /\ \A q \in Reqs \ {r} : lock' = q <=> lock = q
        /\ Holds(r)' <=> lock' = r
    BY <1>0, <1>16, <2>2 DEF Abort
  <2>4. QED
    BY <2>1, <2>2, <2>3, CodeMove
<1>17. ASSUME NEW r \in Reqs, ConsumeTokens(r) PROVE CodeInv'
  <2>1. \A q \in Reqs \ {r} : req'[q] = req[q]
    BY <1>0, <1>17, ConsumeMoves DEF Moves, Begins
  <2>2. /\ Holds(r)' <=> Holds(r)
        /\ Takes(r)' => Takes(r) /\ req'[r].code = req[r].code /\ req'[r].by = req[r].by
        /\ ~Took(r)' /\ req[r].pc # "done"
    BY <1>0, <1>17, ConsumeMoves
       DEF Moves, Begins, OpAt, Holds, Takes, Took, ConsumeTokens
  <2>3. /\ factor'.left = factor.left /\ factor'.by = factor.by
        /\ \A q \in Reqs \ {r} : lock' = q <=> lock = q
        /\ Holds(r)' <=> lock' = r
    BY <1>0, <1>17, <2>2 DEF ConsumeTokens
  <2>4. QED
    BY <2>1, <2>2, <2>3, CodeMove
<1>18. ASSUME NEW r \in Reqs, ReadIndex(r) PROVE CodeInv'
  <2>1. \A q \in Reqs \ {r} : req'[q] = req[q]
    BY <1>0, <1>18, ReadMoves DEF Moves, Begins
  <2>2. /\ Holds(r)' <=> Holds(r)
        /\ Takes(r)' => Takes(r) /\ req'[r].code = req[r].code /\ req'[r].by = req[r].by
        /\ ~Took(r)' /\ req[r].pc # "done"
    BY <1>0, <1>18, ReadMoves
       DEF Moves, Begins, OpAt, Holds, Takes, Took, ReadIndex
  <2>3. /\ factor'.left = factor.left /\ factor'.by = factor.by
        /\ \A q \in Reqs \ {r} : lock' = q <=> lock = q
        /\ Holds(r)' <=> lock' = r
    BY <1>0, <1>18, <2>2 DEF ReadIndex
  <2>4. QED
    BY <2>1, <2>2, <2>3, CodeMove
<1>19. ASSUME NEW r \in Reqs, NEW code \in Codes \cup {None}, VerifyCode(r, code) PROVE CodeInv'
  <2>a. /\ \A q \in Reqs \ {r} : req'[q] = req[q]
        /\ req'[r].pc = "put" /\ req'[r].op = req[r].op
        /\ req'[r].code = code /\ req'[r].by = factor.by
    BY <1>0, <1>19, VerifyMoves
  <2>b. req[r].pc = "verify" /\ req[r].op = "complete"
    BY <1>0, <1>19 DEF VerifyCode, OpAt
  <2>1. /\ \A q \in Reqs \ {r} : req'[q] = req[q]
        /\ req'[r].pc = "put" /\ req'[r].op = "complete"
        /\ req'[r].code = code /\ req'[r].by = factor.by /\ req[r].pc = "verify"
    BY <2>a, <2>b
  <2>2. factor' = factor /\ lock = None /\ lock' = r /\ code \in factor.left \cup {None}
    BY <1>19 DEF VerifyCode
  <2>3. \A q \in Reqs : Holds(q)' <=> lock' = q
    BY <1>0, <2>1, <2>2 DEF Holds
  <2>4. \A q \in Reqs : /\ Takes(q)' => (q = r /\ code # None) \/ (Takes(q) /\ req'[q] = req[q])
                        /\ Took(q)' => Took(q) /\ req'[q] = req[q]
                        /\ req[q].pc = "done" => req'[q].pc = "done"
    BY <2>1 DEF Takes, Took
  <2>5. \A q \in Reqs : Takes(q)' => req'[q].code \in factor.left /\ req'[q].by = factor.by
    BY <2>1, <2>2, <2>4 DEF CodeInv
  <2>6. \A q \in Reqs : Took(q)' /\ req'[q].by = factor.by => req'[q].code \notin factor.left
    BY <2>4 DEF CodeInv
  <2>7. \A q, x \in Reqs : (Took(q)' \/ Takes(q)') /\ req'[q].by = x => req'[x].pc = "done"
    BY <2>1, <2>4 DEF CodeInv
  <2>8. \A x \in Reqs : factor.by = x => req'[x].pc = "done"
    BY <2>4 DEF CodeInv
  <2>9. BackupOnce'
    BY <2>1 DEF CodeInv, BackupOnce
  <2>10. QED
    BY <2>2, <2>3, <2>5, <2>6, <2>7, <2>8, <2>9 DEF CodeInv
<1>20. ASSUME NEW r \in Reqs, Commit(r) PROVE CodeInv'
  <2>1. Moves(r, "done") /\ req[r].pc = "commit"
    BY <1>0, <1>20, StepMoves DEF Commit
  <2>2. lock' = IF lock = r THEN None ELSE lock
    BY <1>20 DEF Commit
  <2>3. \A q \in Reqs : Holds(q)' <=> lock' = q
    BY <1>0, <2>1, <2>2 DEF Moves, Holds
  <2>4. \A q \in Reqs : /\ Takes(q)' => Takes(q) /\ req'[q] = req[q] /\ q # r
                        /\ Took(q)' => Took(q) \/ q = r
                        /\ q # r => req'[q] = req[q]
                        /\ req[q].pc = "done" => req'[q].pc = "done"
    BY <2>1 DEF Moves, Takes, Took
  <2>5. req'[r].code = req[r].code /\ req'[r].by = req[r].by /\ req'[r].op = req[r].op /\ req'[r].pc = "done"
    BY <2>1 DEF Moves
  <2>6. \A q \in Reqs : Takes(q) => q = r \/ req[r].op = "login"
    BY <1>0, <2>1 DEF Holds, Takes, OpAt
  <2>7. CASE req[r].op = "login"
    <3>1. /\ \A q \in Reqs \ {r} : req'[q] = req[q]
          /\ factor' = factor /\ ~Took(r)' /\ ~Takes(r)' /\ req[r].pc # "done"
      BY <2>1, <2>4, <2>5, <2>7, <1>20 DEF Commit, Took, Takes
    <3>2. ~Holds(r) /\ lock # r
      BY <1>0, <2>7 DEF Holds
    <3>3. QED
      BY <2>2, <2>3, <3>1, <3>2, CodeMove
  <2>8. CASE req[r].op = "complete"
    <3>1. factor'.left = factor.left \ {req[r].code} /\ factor'.by = factor.by
      BY <2>8, <1>0, <1>20 DEF Commit, TypeOK
    <3>2. req[r].code # None => req[r].code \in factor.left /\ req[r].by = factor.by
      BY <2>1, <2>8 DEF CodeInv, Takes
    <3>3. \A q \in Reqs : ~Takes(q)'
      BY <2>4, <2>6, <2>8
    <3>4. \A q \in Reqs : Took(q)' /\ req'[q].by = factor'.by => req'[q].code \notin factor'.left
      BY <2>4, <2>5, <3>1 DEF CodeInv
    <3>5. Took(r)' => Takes(r)
      BY <2>1, <2>5 DEF Took, Takes
    <3>6. \A q, x \in Reqs : Took(q)' /\ req'[q].by = x => req'[x].pc = "done"
      BY <2>4, <2>5, <3>5 DEF CodeInv
    <3>7. \A q \in Reqs : Took(q) => q # r /\ ~(req[r].code # None /\ req[q].code = req[r].code /\ req[q].by = req[r].by)
      BY <2>1, <3>2 DEF CodeInv, Took
    <3>8. BackupOnce'
      <4>1. ASSUME NEW p \in Reqs, NEW q \in Reqs, Took(p)', Took(q)',
                   req'[q].code = req'[p].code, req'[q].by = req'[p].by, p # q
            PROVE  FALSE
        <5>1. CASE p # r /\ q # r
          BY <2>4, <4>1, <5>1 DEF CodeInv, BackupOnce, Took
        <5>2. CASE p = r
          BY <2>4, <2>5, <3>7, <4>1, <5>2 DEF Took
        <5>3. CASE q = r
          BY <2>4, <2>5, <3>7, <4>1, <5>3 DEF Took
        <5>4. QED
          BY <5>1, <5>2, <5>3
      <4>2. QED
        BY <4>1 DEF BackupOnce, Took
    <3>9. \A x \in Reqs : factor'.by = x => req'[x].pc = "done"
      BY <2>4, <3>1 DEF CodeInv
    <3>10. QED
      BY <2>3, <3>3, <3>4, <3>6, <3>8, <3>9 DEF CodeInv
  <2>9. CASE req[r].op = "confirm"
    <3>1. factor'.left = Codes /\ factor'.by = r
      BY <2>9, <1>20 DEF Commit, Factor
    <3>2. \A q \in Reqs : ~Takes(q)'
      BY <2>4, <2>6, <2>9
    <3>3. \A q \in Reqs : Took(q)' => Took(q) /\ req'[q] = req[q] /\ req[q].by # r
      BY <2>1, <2>4, <2>5, <2>9 DEF Took, CodeInv
    <3>4. BackupOnce'
      <4>1. ASSUME NEW p \in Reqs, NEW q \in Reqs, Took(p)', Took(q)',
                   req'[q].code = req'[p].code, req'[q].by = req'[p].by, p # q
            PROVE  FALSE
        BY <3>3, <4>1 DEF CodeInv, BackupOnce, Took
      <4>2. QED
        BY <4>1 DEF BackupOnce, Took
    <3>5. \A q, x \in Reqs : Took(q)' /\ req'[q].by = x => req'[x].pc = "done"
      BY <2>4, <3>3 DEF CodeInv
    <3>6. \A x \in Reqs : factor'.by = x => req'[x].pc = "done"
      BY <2>5, <3>1
    <3>7. QED
      BY <2>3, <3>1, <3>2, <3>3, <3>4, <3>5, <3>6 DEF CodeInv
  <2>10. QED
    BY <1>0, <2>1, <2>7, <2>8, <2>9 DEF OpAt
<1>21. ASSUME NEW s \in Reqs, EndSession(s) PROVE CodeInv'
  BY <1>21 DEF CodeInv, BackupOnce, Holds, Takes, Took, EndSession
<1>22. ASSUME NEW s \in Reqs, ExpireChallenge(s) PROVE CodeInv'
  BY <1>22 DEF CodeInv, BackupOnce, Holds, Takes, Took, ExpireChallenge
<1>23. ASSUME NEW t \in Tokens, RequestReset(t) PROVE CodeInv'
  BY <1>23 DEF CodeInv, BackupOnce, Holds, Takes, Took, RequestReset
<1>24. ASSUME NEW t \in Tokens, ExpireToken(t) PROVE CodeInv'
  BY <1>24 DEF CodeInv, BackupOnce, Holds, Takes, Took, ExpireToken
<1>25. CASE UNCHANGED vars
  BY <1>25 DEF CodeInv, BackupOnce, Holds, Takes, Took, vars
<1>26. ASSUME NEW r \in Reqs, RefuseConfirm(r) PROVE CodeInv'
  BY <1>16, <1>26, RefuseAborts
<1>27. QED
  BY <1>1, <1>2, <1>3, <1>4, <1>5, <1>6, <1>7, <1>8, <1>9, <1>10, <1>11, <1>12, <1>13, <1>14, <1>15, <1>16, <1>17, <1>18, <1>19, <1>20, <1>21, <1>22, <1>23, <1>24, <1>25, <1>26 DEF Next, Step

\* A backup code opens one session.
THEOREM BackupOnceSafe == Spec => []BackupOnce
<1>1. CodeInv => BackupOnce
  BY DEF CodeInv
<1>2. Typed /\ CodeInv /\ [Next]_vars => Typed' /\ CodeInv'
  BY TypedStep, CodeStep
<1>3. QED
  BY TypedInit, CodeInit, <1>1, <1>2, PTL DEF Spec

-----------------------------------------------------------------------------
(* Sessions. *)

LEMMA SessInit == Init => SessInv
<1> SUFFICES ASSUME Init PROVE SessInv
  OBVIOUS
<1>1. \A q \in Reqs : req[q].pc = "idle" /\ sess[q] = "none" /\ chal[q] = "none"
  BY DEF Init, Fresh, Request
<1>2. QED
  BY <1>1 DEF SessInv, Current, Indexed, Found, Cleared, Unmade, Pending

\* A step of one request, other than those of a reset that end what it finds.
LEMMA SessMove ==
    ASSUME Typed, SessInv, NEW r \in Reqs, \A q \in Reqs \ {r} : req'[q] = req[q],
           pw' = pw, late \subseteq late',
           \A q \in Reqs \ {r} : /\ sess'[q] = sess[q]
                                 /\ chal'[q] = "live" => chal[q] = "live"
                                 /\ q \in index => q \in index',
           req'[r].ver = req[r].ver,
           req'[r].found = req[r].found \/ req'[r].pc # "kill",
           Pending(r)' => Pending(r),
           req[r].pc # "failed",
           sess'[r] = "live" => sess[r] = "live" \/ Pending(r),
           Unmade(r)', Indexed(r)',
           req'[r].pc \notin {"kill", "unindex", "save"}
    PROVE  SessInv'
<1>1. \A q \in Reqs : req'[q].pc # "failed" /\ q \notin late' =>
          /\ req[q].pc # "failed" /\ q \notin late
          /\ Pending(q)' => Pending(q)
          /\ sess'[q] = "live" => sess[q] = "live" \/ Pending(q)
  BY DEF Pending
<1>2. \A q \in Reqs : req'[q].ver = req[q].ver
  OBVIOUS
<1>3. \A q \in Reqs : Current(q)'
  BY <1>1, <1>2 DEF SessInv, Current
<1>4. \A q \in Reqs : Indexed(q)' /\ Unmade(q)'
  BY DEF SessInv, Indexed, Unmade
<1>5. \A p \in Reqs : req'[p].pc \in {"kill", "unindex", "save"} => p # r /\ req'[p] = req[p]
  OBVIOUS
<1>6. \A p, q \in Reqs : Found(p, q)'
  <2> SUFFICES ASSUME NEW p \in Reqs, NEW q \in Reqs, req'[p].pc = "kill",
                      req'[q].pc # "failed", q \notin late'
               PROVE  ~Pending(q)' /\ (sess'[q] = "live" => q \in req'[p].found)
    BY DEF Found
  <2>1. req'[p] = req[p] /\ Found(p, q)
    BY <1>5 DEF SessInv
  <2>2. QED
    BY <1>1, <2>1 DEF Found
<1>7. \A p, q \in Reqs : Cleared(p, q)'
  <2> SUFFICES ASSUME NEW p \in Reqs, NEW q \in Reqs, req'[p].pc \in {"unindex", "save"},
                      req'[q].pc # "failed", q \notin late'
               PROVE  ~Pending(q)' /\ sess'[q] # "live"
    BY DEF Cleared
  <2>1. req'[p] = req[p] /\ Cleared(p, q)
    BY <1>5 DEF SessInv
  <2>2. QED
    BY <1>1, <2>1 DEF Cleared
<1>8. QED
  BY <1>3, <1>4, <1>6, <1>7 DEF SessInv

\* A request begins; if a revocation is under way, it is late or makes no session.
LEMMA SessBegins ==
    ASSUME Typed, SessInv, NEW r \in Reqs, \A q \in Reqs \ {r} : req'[q] = req[q],
           req[r].pc = "idle", req'[r].pc \notin {"idle", "index", "kill", "unindex", "save", "failed"},
           UNCHANGED <<pw, sess, index, chal>>, late \subseteq late', late' \subseteq late \cup {r},
           Pending(r)' /\ r \notin late' => ~Revoking /\ req'[r].ver = pw,
           req'[r].pc # "done"
    PROVE  SessInv'
<1>1. sess[r] # "live" /\ chal[r] # "live"
  BY DEF SessInv, Unmade
<1>2. \A q \in Reqs \ {r} : Pending(q)' <=> Pending(q)
  BY DEF Pending
<1>3. \A q \in Reqs : Current(q)'
  BY <1>1, <1>2 DEF SessInv, Current
<1>4. \A q \in Reqs : Indexed(q)' /\ Unmade(q)'
  BY <1>1 DEF SessInv, Indexed, Unmade
<1>5. \A p \in Reqs : req'[p].pc \in {"kill", "unindex", "save"} => p # r /\ req'[p] = req[p] /\ Revoking
  BY DEF Revoking
<1>6. \A p, q \in Reqs : Found(p, q)'
  <2> SUFFICES ASSUME NEW p \in Reqs, NEW q \in Reqs, req'[p].pc = "kill",
                      req'[q].pc # "failed", q \notin late'
               PROVE  ~Pending(q)' /\ (sess'[q] = "live" => q \in req'[p].found)
    BY DEF Found
  <2>1. req'[p] = req[p] /\ Found(p, q) /\ Revoking
    BY <1>5 DEF SessInv
  <2>2. CASE q = r
    BY <1>1, <2>1, <2>2
  <2>3. CASE q # r
    BY <1>2, <2>1, <2>3 DEF Found
  <2>4. QED
    BY <2>2, <2>3
<1>7. \A p, q \in Reqs : Cleared(p, q)'
  <2> SUFFICES ASSUME NEW p \in Reqs, NEW q \in Reqs, req'[p].pc \in {"unindex", "save"},
                      req'[q].pc # "failed", q \notin late'
               PROVE  ~Pending(q)' /\ sess'[q] # "live"
    BY DEF Cleared
  <2>1. req'[p] = req[p] /\ Cleared(p, q) /\ Revoking
    BY <1>5 DEF SessInv
  <2>2. CASE q = r
    BY <1>1, <2>1, <2>2
  <2>3. CASE q # r
    BY <1>2, <2>1, <2>3 DEF Cleared
  <2>4. QED
    BY <2>2, <2>3
<1>8. QED
  BY <1>3, <1>4, <1>6, <1>7 DEF SessInv

\* What a session rests on is current, or late.
LEMMA CurrentSource ==
    ASSUME SessInv, NEW c \in Reqs, req[c].pc = "done", sess[c] = "live" \/ chal[c] = "live"
    PROVE  c \in late \/ req[c].ver = pw
  BY DEF SessInv, Current, Pending

LEMMA SessStep == Typed /\ SessInv /\ [Next]_vars => SessInv'
<1> SUFFICES ASSUME Typed, SessInv, [Next]_vars PROVE SessInv'
  OBVIOUS
<1>0. TypeOK /\ \A q \in Reqs : OpAt(q)
  BY DEF Typed
<1>1. ASSUME NEW r \in Reqs, LoadLogin(r) PROVE SessInv'
  <2>1. /\ \A q \in Reqs \ {r} : req'[q] = req[q]
        /\ req[r].pc = "idle" /\ req'[r].pc \in {"ask", "put"}
    BY <1>0, <1>1, LoginBegins DEF Begins
  <2>2. UNCHANGED <<pw, sess, index, chal>>
    BY <1>1 DEF LoadLogin
  <2>3. late' = IF Revoking \/ None \in late THEN late \cup {r} ELSE late
    BY <1>1 DEF LoadLogin, NoteLate
  <2>4. req'[r].ver = pw
    BY <1>0, <1>1, LoginBegins DEF Begins
  <2>5. None \in late \/ pw = pw
    OBVIOUS
  <2>6. QED
    BY <2>1, <2>2, <2>3, <2>4, <2>5, SessBegins
<1>2. ASSUME NEW r \in Reqs, NEW c \in Reqs, LoadChallenge(r, c) PROVE SessInv'
  <2>1. /\ \A q \in Reqs \ {r} : req'[q] = req[q]
        /\ req[r].pc = "idle" /\ req'[r].pc \in {"verify"}
    BY <1>0, <1>2, CompleteBegins DEF Begins
  <2>2. UNCHANGED <<pw, sess, index, chal>>
    BY <1>2 DEF LoadChallenge
  <2>3. late' = IF Revoking \/ c \in late THEN late \cup {r} ELSE late
    BY <1>2 DEF LoadChallenge, NoteLate
  <2>4. req'[r].ver = req[c].ver
    BY <1>0, <1>2, CompleteBegins DEF Begins
  <2>5. c \in late \/ req[c].ver = pw
    <3>1. chal[c] = "live"
      BY <1>2 DEF LoadChallenge
    <3>2. req[c].pc = "done"
      BY <3>1 DEF SessInv, Unmade
    <3>3. QED
      BY <3>1, <3>2, CurrentSource
  <2>6. QED
    BY <2>1, <2>2, <2>3, <2>4, <2>5, SessBegins
<1>3. ASSUME NEW r \in Reqs, NEW s \in Reqs, LoadStart(r, s) PROVE SessInv'
  <2>1. /\ \A q \in Reqs \ {r} : req'[q] = req[q]
        /\ req[r].pc = "idle" /\ req'[r].pc \in {"start"}
    BY <1>0, <1>3, StartBegins DEF Begins
  <2>2. UNCHANGED <<pw, sess, index, chal>>
    BY <1>3 DEF LoadStart
  <2>3. late' = late /\ ~Pending(r)'
    <3>1. chal[r] # "live"
      BY <2>1 DEF SessInv, Unmade
    <3>2. QED
      BY <1>3, <2>1, <2>2, <3>1 DEF LoadStart, Pending
  <2>4. QED
    BY <2>1, <2>2, <2>3, SessBegins
<1>4. ASSUME NEW r \in Reqs, NEW s \in Reqs, LoadConfirm(r, s) PROVE SessInv'
  <2>1. /\ \A q \in Reqs \ {r} : req'[q] = req[q]
        /\ req[r].pc = "idle" /\ req'[r].pc \in {"confirm"}
    BY <1>0, <1>4, ConfirmBegins DEF Begins
  <2>2. UNCHANGED <<pw, sess, index, chal>>
    BY <1>4 DEF LoadConfirm
  <2>3. late' = IF Revoking \/ s \in late THEN late \cup {r} ELSE late
    BY <1>4 DEF LoadConfirm, NoteLate
  <2>4. req'[r].ver = req[s].ver
    BY <1>0, <1>4, ConfirmBegins DEF Begins
  <2>5. s \in late \/ req[s].ver = pw
    <3>1. sess[s] = "live" /\ req[s].pc = "done"
      BY <1>4 DEF LoadConfirm, Live
    <3>2. QED
      BY <3>1, CurrentSource
  <2>6. QED
    BY <2>1, <2>2, <2>3, <2>4, <2>5, SessBegins
<1>5. ASSUME NEW r \in Reqs, NEW t \in Tokens, LoadReset(r, t) PROVE SessInv'
  <2>1. /\ \A q \in Reqs \ {r} : req'[q] = req[q]
        /\ req[r].pc = "idle" /\ req'[r].pc \in {"consume"}
    BY <1>0, <1>5, ResetBegins DEF Begins
  <2>2. UNCHANGED <<pw, sess, index, chal>>
    BY <1>5 DEF LoadReset
  <2>3. late' = late /\ ~Pending(r)'
    <3>1. chal[r] # "live"
      BY <2>1 DEF SessInv, Unmade
    <3>2. QED
      BY <1>5, <2>1, <2>2, <3>1 DEF LoadReset, Pending
  <2>4. QED
    BY <2>1, <2>2, <2>3, SessBegins
<1>6. ASSUME NEW r \in Reqs, CreateChallenge(r) PROVE SessInv'
  <2>1. /\ \A q \in Reqs \ {r} : req'[q] = req[q]
        /\ req'[r].ver = req[r].ver
    BY <1>0, <1>6, StepMoves DEF Moves
  <2>2. /\ req'[r].pc \in {"done"}
        /\ req[r].pc # "failed"
    BY <1>0, <1>6, StepMoves DEF Moves, CreateChallenge
  <2>3. /\ pw' = pw /\ late' = late
        /\ \A q \in Reqs \ {r} : /\ sess'[q] = sess[q]
                                 /\ chal'[q] = "live" => chal[q] = "live"
                                 /\ q \in index => q \in index'
    BY <1>0, <1>6 DEF TypeOK, CreateChallenge
  <2>4. Pending(r)' => Pending(r)
    BY <1>0, <1>6, <2>2 DEF Pending, SessInv, Unmade, TypeOK, CreateChallenge
  <2>5. sess'[r] = "live" => sess[r] = "live" \/ Pending(r)
    BY <1>0, <1>6 DEF Pending, TypeOK, CreateChallenge
  <2>6. Unmade(r)'
    BY <1>0, <1>6, <2>2 DEF Unmade, SessInv, TypeOK, Running, Ended, CreateChallenge
  <2>7. Indexed(r)'
    BY <1>0, <1>6, <2>2 DEF Indexed, Unmade, SessInv, TypeOK, CreateChallenge
  <2>8. QED
    BY <2>1, <2>2, <2>3, <2>4, <2>5, <2>6, <2>7, SessMove
<1>7. ASSUME NEW r \in Reqs, PutSession(r) PROVE SessInv'
  <2>1. /\ \A q \in Reqs \ {r} : req'[q] = req[q]
        /\ req'[r].ver = req[r].ver
    BY <1>0, <1>7, StepMoves DEF Moves
  <2>2. /\ req'[r].pc \in {"index"}
        /\ req[r].pc # "failed"
    BY <1>0, <1>7, StepMoves DEF Moves, PutSession
  <2>3. /\ pw' = pw /\ late' = late
        /\ \A q \in Reqs \ {r} : /\ sess'[q] = sess[q]
                                 /\ chal'[q] = "live" => chal[q] = "live"
                                 /\ q \in index => q \in index'
    BY <1>0, <1>7 DEF TypeOK, PutSession
  <2>4. Pending(r)' => Pending(r)
    BY <1>0, <1>7, <2>2 DEF Pending, SessInv, Unmade, TypeOK, PutSession
  <2>5. sess'[r] = "live" => sess[r] = "live" \/ Pending(r)
    BY <1>0, <1>7 DEF Pending, TypeOK, PutSession
  <2>6. Unmade(r)'
    BY <1>0, <1>7, <2>2 DEF Unmade, SessInv, TypeOK, Running, Ended, PutSession
  <2>7. Indexed(r)'
    BY <1>0, <1>7, <2>2 DEF Indexed, Unmade, SessInv, TypeOK, PutSession
  <2>8. QED
    BY <2>1, <2>2, <2>3, <2>4, <2>5, <2>6, <2>7, SessMove
<1>8. ASSUME NEW r \in Reqs, IndexSession(r) PROVE SessInv'
  <2>1. /\ \A q \in Reqs \ {r} : req'[q] = req[q]
        /\ req'[r].ver = req[r].ver
    BY <1>0, <1>8, StepMoves DEF Moves
  <2>2. /\ req'[r].pc \in {"drop", "commit"}
        /\ req[r].pc # "failed"
    BY <1>0, <1>8, StepMoves DEF Moves, AfterIndex, IndexSession
  <2>3. /\ pw' = pw /\ late' = late
        /\ \A q \in Reqs \ {r} : /\ sess'[q] = sess[q]
                                 /\ chal'[q] = "live" => chal[q] = "live"
                                 /\ q \in index => q \in index'
    BY <1>0, <1>8 DEF TypeOK, IndexSession
  <2>4. Pending(r)' => Pending(r)
    BY <1>0, <1>8, <2>2 DEF Pending, SessInv, Unmade, TypeOK, IndexSession
  <2>5. sess'[r] = "live" => sess[r] = "live" \/ Pending(r)
    BY <1>0, <1>8 DEF Pending, TypeOK, IndexSession
  <2>6. Unmade(r)'
    BY <1>0, <1>8, <2>2 DEF Unmade, SessInv, TypeOK, Running, Ended, IndexSession
  <2>7. Indexed(r)'
    BY <1>0, <1>8, <2>2 DEF Indexed, Unmade, SessInv, TypeOK, IndexSession
  <2>8. QED
    BY <2>1, <2>2, <2>3, <2>4, <2>5, <2>6, <2>7, SessMove
<1>9. ASSUME NEW r \in Reqs, RefuseCode(r) PROVE SessInv'
  <2>1. /\ \A q \in Reqs \ {r} : req'[q] = req[q]
        /\ req'[r].ver = req[r].ver
    BY <1>0, <1>9, StepMoves DEF Moves
  <2>2. /\ req'[r].pc \in {"failed"}
        /\ req[r].pc # "failed"
    BY <1>0, <1>9, StepMoves DEF Moves, RefuseCode
  <2>3. /\ pw' = pw /\ late' = late
        /\ \A q \in Reqs \ {r} : /\ sess'[q] = sess[q]
                                 /\ chal'[q] = "live" => chal[q] = "live"
                                 /\ q \in index => q \in index'
    BY <1>0, <1>9 DEF TypeOK, RefuseCode
  <2>4. Pending(r)' => Pending(r)
    BY <1>0, <1>9, <2>2 DEF Pending, SessInv, Unmade, TypeOK, RefuseCode
  <2>5. sess'[r] = "live" => sess[r] = "live" \/ Pending(r)
    BY <1>0, <1>9 DEF Pending, TypeOK, RefuseCode
  <2>6. Unmade(r)'
    BY <1>0, <1>9, <2>2 DEF Unmade, SessInv, TypeOK, Running, Ended, RefuseCode
  <2>7. Indexed(r)'
    BY <1>0, <1>9, <2>2 DEF Indexed, Unmade, SessInv, TypeOK, RefuseCode
  <2>8. QED
    BY <2>1, <2>2, <2>3, <2>4, <2>5, <2>6, <2>7, SessMove
<1>10. ASSUME NEW r \in Reqs, DropChallenge(r) PROVE SessInv'
  <2>1. /\ \A q \in Reqs \ {r} : req'[q] = req[q]
        /\ req'[r].ver = req[r].ver
    BY <1>0, <1>10, StepMoves DEF Moves
  <2>2. /\ req'[r].pc \in {"commit"}
        /\ req[r].pc # "failed"
    BY <1>0, <1>10, StepMoves DEF Moves, DropChallenge
  <2>3. /\ pw' = pw /\ late' = late
        /\ \A q \in Reqs \ {r} : /\ sess'[q] = sess[q]
                                 /\ chal'[q] = "live" => chal[q] = "live"
                                 /\ q \in index => q \in index'
    BY <1>0, <1>10 DEF TypeOK, DropChallenge
  <2>4. Pending(r)' => Pending(r)
    BY <1>0, <1>10, <2>2 DEF Pending, SessInv, Unmade, TypeOK, DropChallenge
  <2>5. sess'[r] = "live" => sess[r] = "live" \/ Pending(r)
    BY <1>0, <1>10 DEF Pending, TypeOK, DropChallenge
  <2>6. Unmade(r)'
    BY <1>0, <1>10, <2>2 DEF Unmade, SessInv, TypeOK, Running, Ended, DropChallenge
  <2>7. Indexed(r)'
    BY <1>0, <1>10, <2>2 DEF Indexed, Unmade, SessInv, TypeOK, DropChallenge
  <2>8. QED
    BY <2>1, <2>2, <2>3, <2>4, <2>5, <2>6, <2>7, SessMove
<1>11. ASSUME NEW r \in Reqs, SaveStart(r) PROVE SessInv'
  <2>1. /\ \A q \in Reqs \ {r} : req'[q] = req[q]
        /\ req'[r].ver = req[r].ver
    BY <1>0, <1>11, StepMoves DEF Moves
  <2>2. /\ req'[r].pc \in {"done"}
        /\ req[r].pc # "failed"
    BY <1>0, <1>11, StepMoves DEF Moves, SaveStart
  <2>3. /\ pw' = pw /\ late' = late
        /\ \A q \in Reqs \ {r} : /\ sess'[q] = sess[q]
                                 /\ chal'[q] = "live" => chal[q] = "live"
                                 /\ q \in index => q \in index'
    BY <1>0, <1>11 DEF TypeOK, SaveStart
  <2>4. Pending(r)' => Pending(r)
    BY <1>0, <1>11, <2>2 DEF Pending, SessInv, Unmade, TypeOK, SaveStart
  <2>5. sess'[r] = "live" => sess[r] = "live" \/ Pending(r)
    BY <1>0, <1>11 DEF Pending, TypeOK, SaveStart
  <2>6. Unmade(r)'
    BY <1>0, <1>11, <2>2 DEF Unmade, SessInv, TypeOK, Running, Ended, SaveStart
  <2>7. Indexed(r)'
    BY <1>0, <1>11, <2>2 DEF Indexed, Unmade, SessInv, TypeOK, SaveStart
  <2>8. QED
    BY <2>1, <2>2, <2>3, <2>4, <2>5, <2>6, <2>7, SessMove
<1>12. ASSUME NEW r \in Reqs, LockConfirm(r) PROVE SessInv'
  <2>1. /\ \A q \in Reqs \ {r} : req'[q] = req[q]
        /\ req'[r].ver = req[r].ver
    BY <1>0, <1>12, ConfirmLocks DEF Moves
  <2>2. /\ req'[r].pc \in {"put"}
        /\ req[r].pc # "failed"
    BY <1>0, <1>12, ConfirmLocks DEF Moves, LockConfirm
  <2>3. /\ pw' = pw /\ late' = late
        /\ \A q \in Reqs \ {r} : /\ sess'[q] = sess[q]
                                 /\ chal'[q] = "live" => chal[q] = "live"
                                 /\ q \in index => q \in index'
    BY <1>0, <1>12 DEF TypeOK, LockConfirm
  <2>4. Pending(r)' => Pending(r)
    BY <1>0, <1>12, <2>2 DEF Pending, SessInv, Unmade, TypeOK, LockConfirm
  <2>5. sess'[r] = "live" => sess[r] = "live" \/ Pending(r)
    BY <1>0, <1>12 DEF Pending, TypeOK, LockConfirm
  <2>6. Unmade(r)'
    BY <1>0, <1>12, <2>2 DEF Unmade, SessInv, TypeOK, Running, Ended, LockConfirm
  <2>7. Indexed(r)'
    BY <1>0, <1>12, <2>2 DEF Indexed, Unmade, SessInv, TypeOK, LockConfirm
  <2>8. QED
    BY <2>1, <2>2, <2>3, <2>4, <2>5, <2>6, <2>7, SessMove
<1>13. ASSUME NEW r \in Reqs, Commit(r) PROVE SessInv'
  <2>1. /\ \A q \in Reqs \ {r} : req'[q] = req[q]
        /\ req'[r].ver = req[r].ver
    BY <1>0, <1>13, StepMoves DEF Moves
  <2>2. /\ req'[r].pc \in {"done"}
        /\ req[r].pc # "failed"
    BY <1>0, <1>13, StepMoves DEF Moves, Commit
  <2>3. /\ pw' = pw /\ late' = late
        /\ \A q \in Reqs \ {r} : /\ sess'[q] = sess[q]
                                 /\ chal'[q] = "live" => chal[q] = "live"
                                 /\ q \in index => q \in index'
    BY <1>0, <1>13 DEF TypeOK, Commit
  <2>4. Pending(r)' => Pending(r)
    BY <1>0, <1>13, <2>2 DEF Pending, SessInv, Unmade, TypeOK, Commit
  <2>5. sess'[r] = "live" => sess[r] = "live" \/ Pending(r)
    BY <1>0, <1>13 DEF Pending, TypeOK, Commit
  <2>6. Unmade(r)'
    BY <1>0, <1>13, <2>2 DEF Unmade, SessInv, TypeOK, Running, Ended, Commit
  <2>7. Indexed(r)'
    BY <1>0, <1>13, <2>2 DEF Indexed, Unmade, SessInv, TypeOK, Commit
  <2>8. QED
    BY <2>1, <2>2, <2>3, <2>4, <2>5, <2>6, <2>7, SessMove
<1>14. ASSUME NEW r \in Reqs, Abort(r) PROVE SessInv'
  <2>1. /\ \A q \in Reqs \ {r} : req'[q] = req[q]
        /\ req'[r].ver = req[r].ver
    BY <1>0, <1>14, StepMoves DEF Moves
  <2>2. /\ req'[r].pc \in {"failed"}
        /\ req[r].pc # "failed"
    BY <1>0, <1>14, StepMoves DEF Moves, Running, Ended, Abort
  <2>3. /\ pw' = pw /\ late' = late
        /\ \A q \in Reqs \ {r} : /\ sess'[q] = sess[q]
                                 /\ chal'[q] = "live" => chal[q] = "live"
                                 /\ q \in index => q \in index'
    BY <1>0, <1>14 DEF TypeOK, Abort
  <2>4. Pending(r)' => Pending(r)
    BY <1>0, <1>14, <2>2 DEF Pending, SessInv, Unmade, TypeOK, Abort
  <2>5. sess'[r] = "live" => sess[r] = "live" \/ Pending(r)
    BY <1>0, <1>14 DEF Pending, TypeOK, Abort
  <2>6. Unmade(r)'
    BY <1>0, <1>14, <2>2 DEF Unmade, SessInv, TypeOK, Running, Ended, Abort
  <2>7. Indexed(r)'
    BY <1>0, <1>14, <2>2 DEF Indexed, Unmade, SessInv, TypeOK, Abort
  <2>8. QED
    BY <2>1, <2>2, <2>3, <2>4, <2>5, <2>6, <2>7, SessMove
<1>15. ASSUME NEW r \in Reqs, NEW code \in Codes \cup {None}, VerifyCode(r, code) PROVE SessInv'
  <2>1. /\ \A q \in Reqs \ {r} : req'[q] = req[q]
        /\ req'[r].ver = req[r].ver
    BY <1>0, <1>15, VerifyMoves DEF Moves
  <2>2. /\ req'[r].pc \in {"put"}
        /\ req[r].pc # "failed"
    BY <1>0, <1>15, VerifyMoves DEF Moves, VerifyCode
  <2>3. /\ pw' = pw /\ late' = late
        /\ \A q \in Reqs \ {r} : /\ sess'[q] = sess[q]
                                 /\ chal'[q] = "live" => chal[q] = "live"
                                 /\ q \in index => q \in index'
    BY <1>0, <1>15 DEF TypeOK, VerifyCode
  <2>4. Pending(r)' => Pending(r)
    BY <1>0, <1>15, <2>2 DEF Pending, SessInv, Unmade, TypeOK, VerifyCode
  <2>5. sess'[r] = "live" => sess[r] = "live" \/ Pending(r)
    BY <1>0, <1>15 DEF Pending, TypeOK, VerifyCode
  <2>6. Unmade(r)'
    BY <1>0, <1>15, <2>2 DEF Unmade, SessInv, TypeOK, Running, Ended, VerifyCode
  <2>7. Indexed(r)'
    BY <1>0, <1>15, <2>2 DEF Indexed, Unmade, SessInv, TypeOK, VerifyCode
  <2>8. QED
    BY <2>1, <2>2, <2>3, <2>4, <2>5, <2>6, <2>7, SessMove
<1>16. ASSUME NEW r \in Reqs, ConsumeTokens(r) PROVE SessInv'
  <2>1. /\ \A q \in Reqs \ {r} : req'[q] = req[q]
        /\ req'[r].ver = req[r].ver
    BY <1>0, <1>16, ConsumeMoves DEF Moves
  <2>2. /\ req'[r].pc \in {"members"}
        /\ req[r].pc # "failed"
    BY <1>0, <1>16, ConsumeMoves DEF Moves, ConsumeTokens
  <2>3. /\ pw' = pw /\ late' = late
        /\ \A q \in Reqs \ {r} : /\ sess'[q] = sess[q]
                                 /\ chal'[q] = "live" => chal[q] = "live"
                                 /\ q \in index => q \in index'
    BY <1>0, <1>16 DEF TypeOK, ConsumeTokens
  <2>4. Pending(r)' => Pending(r)
    BY <1>0, <1>16, <2>2 DEF Pending, SessInv, Unmade, TypeOK, ConsumeTokens
  <2>5. sess'[r] = "live" => sess[r] = "live" \/ Pending(r)
    BY <1>0, <1>16 DEF Pending, TypeOK, ConsumeTokens
  <2>6. Unmade(r)'
    BY <1>0, <1>16, <2>2 DEF Unmade, SessInv, TypeOK, Running, Ended, ConsumeTokens
  <2>7. Indexed(r)'
    BY <1>0, <1>16, <2>2 DEF Indexed, Unmade, SessInv, TypeOK, ConsumeTokens
  <2>8. QED
    BY <2>1, <2>2, <2>3, <2>4, <2>5, <2>6, <2>7, SessMove
<1>17. ASSUME NEW r \in Reqs, ReadIndex(r) PROVE SessInv'
  <2>1. /\ \A q \in Reqs \ {r} : req'[q] = req[q]
        /\ req'[r].ver = req[r].ver /\ req'[r].pc = "kill" /\ req'[r].found = index
        /\ req[r].pc = "members"
    BY <1>0, <1>17, ReadMoves DEF ReadIndex
  <2>2. late' = late \cup {q \in Reqs : Pending(q)} /\ UNCHANGED <<pw, sess, index, chal>>
    BY <1>17 DEF ReadIndex
  <2>3. \A q \in Reqs : /\ Pending(q)' => Pending(q)
                        /\ q \notin late' => q \notin late /\ ~Pending(q)
                        /\ req'[q].pc # "failed" => req[q].pc # "failed"
                        /\ req'[q].ver = req[q].ver
    BY <2>1, <2>2 DEF Pending
  <2>4. \A q \in Reqs : Current(q)'
    BY <2>2, <2>3 DEF SessInv, Current
  <2>5. \A q \in Reqs : req'[q].pc # "failed" /\ q \notin late' /\ sess[q] = "live" => q \in index
    BY <2>3 DEF SessInv, Indexed, Pending
  <2>6. \A q \in Reqs : Indexed(q)' /\ Unmade(q)'
    BY <2>1, <2>2, <2>5 DEF SessInv, Indexed, Unmade
  <2>7. \A p, q \in Reqs : Found(p, q)'
    <3>1. \A p, q \in Reqs : p = r => Found(p, q)'
      BY <2>1, <2>2, <2>3, <2>5 DEF Found
    <3>2. \A p, q \in Reqs : p # r => Found(p, q)'
      BY <2>1, <2>2, <2>3 DEF SessInv, Found
    <3>3. QED
      BY <3>1, <3>2
  <2>8. \A p, q \in Reqs : Cleared(p, q)'
    BY <2>1, <2>2, <2>3 DEF SessInv, Cleared
  <2>9. QED
    BY <2>4, <2>6, <2>7, <2>8 DEF SessInv
<1>18. ASSUME NEW r \in Reqs, DeleteSessions(r) PROVE SessInv'
  <2>1. Moves(r, "unindex") /\ req[r].pc = "kill" /\ UNCHANGED <<pw, index, chal, late>>
    BY <1>0, <1>18, StepMoves DEF DeleteSessions
  <2>2. \A q \in Reqs : sess'[q] = IF q \in req[r].found THEN "gone" ELSE sess[q]
    BY <1>18 DEF DeleteSessions
  <2>3. \A q \in Reqs : /\ Pending(q)' => Pending(q)
                        /\ req'[q].pc # "failed" => req[q].pc # "failed"
                        /\ req'[q].ver = req[q].ver /\ req'[q].found = req[q].found
                        /\ sess'[q] = "live" => sess[q] = "live" /\ q \notin req[r].found
                        /\ q # r => req'[q] = req[q]
    BY <2>1, <2>2 DEF Pending, Moves
  <2>4. \A q \in Reqs : Current(q)'
    BY <2>1, <2>3 DEF SessInv, Current
  <2>5. \A q \in Reqs : Indexed(q)' /\ Unmade(q)'
    BY <2>1, <2>3 DEF SessInv, Indexed, Unmade, Moves
  <2>6. \A p, q \in Reqs : Found(p, q)'
    BY <2>1, <2>3 DEF SessInv, Found, Moves
  <2>7. \A p, q \in Reqs : Cleared(p, q)'
    <3>1. \A q \in Reqs : Cleared(r, q)'
      BY <2>1, <2>3 DEF SessInv, Found, Cleared, Moves
    <3>2. \A p, q \in Reqs : p # r => Cleared(p, q)'
      BY <2>1, <2>3 DEF SessInv, Cleared
    <3>3. QED
      BY <3>1, <3>2
  <2>8. QED
    BY <2>4, <2>5, <2>6, <2>7 DEF SessInv
<1>19. ASSUME NEW r \in Reqs, DeleteIndex(r) PROVE SessInv'
  <2>1. Moves(r, "save") /\ req[r].pc = "unindex" /\ UNCHANGED <<pw, sess, chal, late>>
    BY <1>0, <1>19, StepMoves DEF DeleteIndex
  <2>2. \A q \in Reqs : /\ Pending(q)' => Pending(q)
                        /\ req'[q].pc # "failed" => req[q].pc # "failed"
                        /\ req'[q].ver = req[q].ver /\ req'[q].found = req[q].found
                        /\ q # r => req'[q] = req[q]
    BY <2>1 DEF Pending, Moves
  <2>3. \A q \in Reqs : req[q].pc # "failed" /\ q \notin late => sess[q] # "live" /\ ~Pending(q)
    BY <2>1 DEF SessInv, Cleared
  <2>4. \A q \in Reqs : Current(q)' /\ Indexed(q)'
    BY <2>1, <2>2, <2>3 DEF Current, Indexed
  <2>5. \A q \in Reqs : Unmade(q)'
    BY <2>1, <2>2 DEF SessInv, Unmade, Moves
  <2>6. \A p, q \in Reqs : Found(p, q)' /\ Cleared(p, q)'
    BY <2>1, <2>2, <2>3 DEF Found, Cleared
  <2>7. QED
    BY <2>4, <2>5, <2>6 DEF SessInv
<1>20. ASSUME NEW r \in Reqs, SavePassword(r) PROVE SessInv'
  <2>1. Moves(r, "done") /\ req[r].pc = "save" /\ UNCHANGED <<sess, index, chal, late>>
    BY <1>0, <1>20, StepMoves DEF SavePassword
  <2>2. \A q \in Reqs : /\ Pending(q)' => Pending(q)
                        /\ req'[q].pc # "failed" => req[q].pc # "failed"
                        /\ req'[q].found = req[q].found
                        /\ q # r => req'[q] = req[q]
    BY <2>1 DEF Pending, Moves
  <2>3. \A q \in Reqs : req[q].pc # "failed" /\ q \notin late => sess[q] # "live" /\ ~Pending(q)
    BY <2>1 DEF SessInv, Cleared
  <2>4. \A q \in Reqs : Current(q)' /\ Indexed(q)'
    BY <2>1, <2>2, <2>3 DEF Current, Indexed
  <2>5. \A q \in Reqs : Unmade(q)'
    BY <2>1, <2>2 DEF SessInv, Unmade, Moves
  <2>6. \A p, q \in Reqs : Found(p, q)' /\ Cleared(p, q)'
    BY <2>1, <2>2, <2>3 DEF Found, Cleared
  <2>7. QED
    BY <2>4, <2>5, <2>6 DEF SessInv
<1>21. ASSUME NEW s \in Reqs, EndSession(s) PROVE SessInv'
  <2>1. /\ req' = req /\ UNCHANGED <<pw, chal, late>>
        /\ \A q \in Reqs : q # s => sess'[q] = sess[q] /\ (q \in index => q \in index')
        /\ sess'[s] = "gone"
    BY <1>0, <1>21 DEF EndSession, TypeOK
  <2>2. \A q \in Reqs : sess'[q] = "live" => sess[q] = "live" /\ (q \in index => q \in index')
    BY <2>1
  <2>3. QED
    BY <2>1, <2>2 DEF SessInv, Current, Indexed, Found, Cleared, Unmade, Pending
<1>22. ASSUME NEW s \in Reqs, ExpireChallenge(s) PROVE SessInv'
  <2>1. /\ req' = req /\ UNCHANGED <<pw, sess, index, late>>
        /\ \A q \in Reqs : chal'[q] = "live" => chal[q] = "live"
    BY <1>0, <1>22 DEF ExpireChallenge, TypeOK
  <2>2. QED
    BY <2>1 DEF SessInv, Current, Indexed, Found, Cleared, Unmade, Pending
<1>23. ASSUME NEW t \in Tokens, RequestReset(t) PROVE SessInv'
  BY <1>23 DEF SessInv, Current, Indexed, Found, Cleared, Unmade, Pending, RequestReset
<1>24. ASSUME NEW t \in Tokens, ExpireToken(t) PROVE SessInv'
  BY <1>24 DEF SessInv, Current, Indexed, Found, Cleared, Unmade, Pending, ExpireToken
<1>25. CASE UNCHANGED vars
  BY <1>25 DEF SessInv, Current, Indexed, Found, Cleared, Unmade, Pending, vars
<1>26. ASSUME NEW r \in Reqs, RefuseConfirm(r) PROVE SessInv'
  BY <1>14, <1>26, RefuseAborts
<1>27. QED
  BY <1>1, <1>2, <1>3, <1>4, <1>5, <1>6, <1>7, <1>8, <1>9, <1>10, <1>11, <1>12, <1>13, <1>14, <1>15, <1>16, <1>17, <1>18, <1>19, <1>20, <1>21, <1>22, <1>23, <1>24, <1>25, <1>26 DEF Next, Step

\* A session opened with a password of before is gone, unless it was late.
THEOREM OldSessionsEndSafe == Spec => []OldSessionsEnd
<1>1. SessInv => OldSessionsEnd
  BY DEF SessInv, Current, OldSessionsEnd, Live
<1>2. Typed /\ SessInv /\ [Next]_vars => Typed' /\ SessInv'
  BY TypedStep, SessStep
<1>3. QED
  BY TypedInit, SessInit, <1>1, <1>2, PTL DEF Spec

=============================================================================
