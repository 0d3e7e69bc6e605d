----------------------------- MODULE ArcoProofs -----------------------------
(***************************************************************************)
(* For every number of rows and requests: the type of the state, the audit *)
(* trail that tells the status, and the closures that only an answer at    *)
(* work meanwhile takes back.                                              *)
(*                                                                         *)
(* Both rest on the last event of a row to be committed: no event of the   *)
(* row has seen it, so it is the only one that can have seen all others.   *)
(***************************************************************************)
EXTENDS Arco, TLAPS

\* What a request has by the place where it is, and what it has seen.
Course(r) ==
    /\ req[r].op = "none" <=> req[r].pc = "idle"
    /\ req[r].op \in {"respond", "close"} => req[r].row \in Rows
    /\ req[r].pc = "loaded" => req[r].op \in {"respond", "close"} /\ status[req[r].row] # "absent"
    /\ r \in trail <=> req[r].pc = "done"
    /\ req[r].seen \subseteq trail \ {r}

\* The event that was committed last tells the status.
Lasting(q) ==
    /\ status[q] # "absent" <=> EventsOf(q) # {}
    /\ EventsOf(q) # {} =>
           \E l \in EventsOf(q) : /\ status[q] = Result(req[l].op)
                                  /\ \A p \in EventsOf(q) : l \notin req[p].seen

\* An answer was at work when c closed the row.
Reopened(q, c) == \E r \in EventsOf(q) : req[r].op = "respond" /\ Overlap(r, c)

\* A closure stands, or was taken back; an answer that may still be given
\* although it began after a closure has found it taken back.
Closures(q) ==
    \A c \in EventsOf(q) : req[c].op = "close" =>
        /\ status[q] # "closed" => Reopened(q, c)
        /\ \A p \in Reqs : req[p].pc = "loaded" /\ req[p].op = "respond" /\ req[p].row = q
                           /\ c \in req[p].seen => Reopened(q, c)

Inv ==
    /\ TypeOK
    /\ \A r \in Reqs : Course(r)
    /\ \A q \in Rows : Lasting(q) /\ Closures(q)

LEMMA ResultFacts ==
    /\ \A op \in Sources : Result(op) = "open"
    /\ Result("respond") = "responded"
    /\ Result("close") = "closed"
    /\ \A op \in Operations : Result(op) \in {"open", "responded", "closed"}
  BY DEF Result, Sources, Operations

-----------------------------------------------------------------------------
(* Typing. *)

LEMMA GotoFacts ==
    ASSUME req \in [Reqs -> RequestType], NEW r \in Reqs,
           NEW pc \in {"idle", "begun", "loaded", "done", "failed"}, Goto(r, pc)
    PROVE  /\ req' \in [Reqs -> RequestType]
           /\ \A p \in Reqs \ {r} : req'[p] = req[p]
           /\ req'[r].pc = pc /\ req'[r].op = req[r].op
           /\ req'[r].row = req[r].row /\ req'[r].seen = req[r].seen
<1>1. Request(pc, req[r].op, req[r].row, req[r].seen) \in RequestType
  BY DEF Request, RequestType
<1>2. req'[r] = Request(pc, req[r].op, req[r].row, req[r].seen)
  BY DEF Goto
<1>3. QED
  BY <1>1, <1>2 DEF Goto, Request

LEMMA BeginFacts ==
    ASSUME TypeOK, NEW r \in Reqs, NEW op \in Operations, NEW q \in Rows \cup {None}, Begin(r, op, q)
    PROVE  /\ req' \in [Reqs -> RequestType]
           /\ \A p \in Reqs \ {r} : req'[p] = req[p]
           /\ req[r].pc = "idle"
           /\ req'[r].pc = "begun" /\ req'[r].op = op
           /\ req'[r].row = q /\ req'[r].seen = trail
<1>1. Request("begun", op, q, trail) \in RequestType
  BY DEF Request, RequestType, TypeOK
<1>2. req'[r] = Request("begun", op, q, trail)
  BY DEF Begin, TypeOK
<1>3. QED
  BY <1>1, <1>2 DEF Begin, Request, Fresh, TypeOK

LEMMA InsertFacts ==
    ASSUME TypeOK, NEW r \in Reqs, NEW q \in Rows, Insert(r, q)
    PROVE  /\ req' \in [Reqs -> RequestType]
           /\ \A p \in Reqs \ {r} : req'[p] = req[p]
           /\ req'[r].pc = "done" /\ req'[r].op = req[r].op
           /\ req'[r].row = q /\ req'[r].seen = req[r].seen
<1>1. Request("done", req[r].op, q, req[r].seen) \in RequestType
  BY DEF Request, RequestType, TypeOK
<1>2. req'[r] = Request("done", req[r].op, q, req[r].seen)
  BY DEF Insert, Append, TypeOK
<1>3. QED
  BY <1>1, <1>2 DEF Insert, Append, Request, TypeOK

-----------------------------------------------------------------------------
(* A step that commits nothing. *)

LEMMA QuietEvents ==
    ASSUME \A p \in Reqs : Course(p), trail \in SUBSET Reqs, NEW r \in Reqs, r \notin trail,
           \A p \in Reqs \ {r} : req'[p] = req[p],
           UNCHANGED trail,
           NEW q \in Rows
    PROVE  /\ EventsOf(q)' = EventsOf(q)
           /\ \A p \in EventsOf(q) : p \in Reqs \ {r} /\ req'[p] = req[p]
  BY DEF EventsOf

LEMMA QuietStep ==
    ASSUME Inv, NEW r \in Reqs, r \notin trail,
           req' \in [Reqs -> RequestType],
           \A p \in Reqs \ {r} : req'[p] = req[p],
           UNCHANGED <<status, trail>>,
           Course(r)',
           req'[r].pc = "loaded" /\ req'[r].op = "respond" =>
               /\ req[r].row = req'[r].row /\ req[r].seen = req'[r].seen
               /\ status[req[r].row] # "closed"
    PROVE  Inv'
<1>1. TypeOK'
  BY DEF Inv, TypeOK
<1>2. \A p \in Reqs : Course(p)'
  BY DEF Inv, Course
<1>3. ASSUME NEW q \in Rows PROVE Lasting(q)' /\ Closures(q)'
  <2>1. /\ EventsOf(q)' = EventsOf(q)
        /\ \A p \in EventsOf(q) : p \in Reqs \ {r} /\ req'[p] = req[p]
    BY QuietEvents DEF Inv, TypeOK
  <2>2. Lasting(q)'
    BY <2>1 DEF Inv, Lasting
  <2>3. \A c \in EventsOf(q) : Reopened(q, c) => Reopened(q, c)'
    BY <2>1 DEF Reopened, Overlap
  <2>4. ASSUME NEW c \in EventsOf(q), req[c].op = "close", NEW p \in Reqs,
               req'[p].pc = "loaded", req'[p].op = "respond", req'[p].row = q, c \in req'[p].seen
        PROVE  Reopened(q, c)
    <3>1. CASE p = r
      BY <2>4, <3>1 DEF Inv, Closures
    <3>2. CASE p # r
      BY <2>4, <3>2 DEF Inv, Closures
    <3>3. QED
      BY <3>1, <3>2
  <2>5. \A c \in EventsOf(q) : req[c].op = "close" /\ status[q] # "closed" => Reopened(q, c)
    BY DEF Inv, Closures
  <2>6. Closures(q)'
    BY <2>1, <2>3, <2>4, <2>5 DEF Closures
  <2>7. QED
    BY <2>2, <2>6
<1>4. QED
  BY <1>1, <1>2, <1>3 DEF Inv

-----------------------------------------------------------------------------
(* A step that commits the event of r for row q. *)

Commits(r, q) ==
    /\ r \notin trail /\ trail' = trail \cup {r}
    /\ req' \in [Reqs -> RequestType]
    /\ \A p \in Reqs \ {r} : req'[p] = req[p]
    /\ req'[r].pc = "done" /\ req'[r].row = q
    /\ req'[r].op = req[r].op /\ req'[r].seen = req[r].seen
    /\ req[r].op \in Operations
    /\ status' = [status EXCEPT ![q] = Result(req[r].op)]

LEMMA CommitEvents ==
    ASSUME \A p \in Reqs : Course(p), trail \in SUBSET Reqs, NEW r \in Reqs, NEW q \in Rows, Commits(r, q)
    PROVE  /\ EventsOf(q)' = EventsOf(q) \cup {r}
           /\ \A s \in Rows \ {q} : EventsOf(s)' = EventsOf(s)
           /\ \A s \in Rows : \A p \in EventsOf(s) : p \in Reqs \ {r} /\ req'[p] = req[p]
  BY DEF EventsOf, Commits

\* What was known of the events of a row stays known.
LEMMA CommitReopened ==
    ASSUME \A p \in Reqs : Course(p), trail \in SUBSET Reqs, NEW r \in Reqs, NEW q \in Rows, Commits(r, q),
           NEW s \in Rows, NEW c \in EventsOf(s), Reopened(s, c)
    PROVE  Reopened(s, c)'
<1>1. EventsOf(s) \subseteq EventsOf(s)' /\ \A p \in EventsOf(s) : req'[p] = req[p]
  BY CommitEvents
<1>2. QED
  BY <1>1 DEF Reopened, Overlap

LEMMA CommitLasting ==
    ASSUME Inv, NEW r \in Reqs, NEW q \in Rows, Commits(r, q), NEW s \in Rows
    PROVE  Lasting(s)'
<1>1. /\ EventsOf(q)' = EventsOf(q) \cup {r}
      /\ \A t \in Rows \ {q} : EventsOf(t)' = EventsOf(t)
      /\ \A t \in Rows : \A p \in EventsOf(t) : p \in Reqs \ {r} /\ req'[p] = req[p]
  BY CommitEvents DEF Inv, TypeOK
<1>2. CASE s = q
  <2>1. status'[q] = Result(req'[r].op) /\ status'[q] # "absent"
    BY ResultFacts DEF Commits, Inv, TypeOK
  <2>2. \A p \in EventsOf(q) \cup {r} : r \notin req'[p].seen
    BY <1>1 DEF Commits, Inv, Course
  <2>3. QED
    BY <1>1, <1>2, <2>1, <2>2 DEF Lasting
<1>3. CASE s # q
  <2>1. status'[s] = status[s]
    BY <1>3 DEF Commits, Inv, TypeOK
  <2>2. QED
    BY <1>1, <1>3, <2>1 DEF Lasting, Inv
<1>4. QED
  BY <1>2, <1>3

LEMMA CommitClosures ==
    ASSUME Inv, NEW r \in Reqs, NEW q \in Rows, Commits(r, q),
           req[r].op \in Sources => EventsOf(q) = {},
           req[r].op = "respond" => req[r].pc = "loaded" /\ req[r].row = q,
           NEW s \in Rows
    PROVE  Closures(s)'
<1>1. /\ EventsOf(q)' = EventsOf(q) \cup {r}
      /\ \A t \in Rows \ {q} : EventsOf(t)' = EventsOf(t)
      /\ \A t \in Rows : \A p \in EventsOf(t) : p \in Reqs \ {r} /\ req'[p] = req[p]
  BY CommitEvents DEF Inv, TypeOK
<1>2. \A c \in EventsOf(s) : Reopened(s, c) => Reopened(s, c)'
  BY CommitReopened DEF Inv, TypeOK
<1>3. \A p \in Reqs : r \notin req'[p].seen
  BY DEF Commits, Inv, Course
<1>4. ASSUME NEW c \in EventsOf(s)', req'[c].op = "close" , status'[s] # "closed"
      PROVE  Reopened(s, c)'
  <2>1. CASE s # q
    <3>1. status'[s] = status[s]
      BY <2>1 DEF Commits, Inv, TypeOK
    <3>2. Reopened(s, c)
      BY <1>1, <1>4, <2>1, <3>1 DEF Inv, Closures
    <3>3. QED
      BY <1>1, <1>2, <2>1, <3>2
  <2>2. CASE s = q /\ c = r
    <3>1. status'[q] = "closed"
      BY <1>4, <2>2, ResultFacts DEF Commits, Inv, TypeOK
    <3>2. QED
      BY <1>4, <2>2, <3>1
  <2>3. CASE s = q /\ c # r
    <3>1. c \in EventsOf(q) /\ req[c].op = "close"
      BY <1>1, <1>4, <2>3
    <3>2. req[r].op = "respond"
      <4>1. status'[q] = Result(req[r].op)
        BY DEF Commits, Inv, TypeOK
      <4>2. req[r].op # "close"
        BY <1>4, <2>3, <4>1, ResultFacts
      <4>3. req[r].op \notin Sources
        BY <3>1
      <4>4. QED
        BY <4>2, <4>3 DEF Commits, Operations
    <3>3. CASE c \in req[r].seen
      <4>1. Reopened(q, c)
        BY <3>1, <3>2, <3>3 DEF Inv, Closures
      <4>2. QED
        BY <1>2, <2>3, <3>1, <4>1
    <3>4. CASE c \notin req[r].seen
      <4>1. Overlap(r, c)'
        BY <1>3, <3>1, <3>4 DEF Overlap, Commits, EventsOf, Inv, TypeOK
      <4>2. r \in EventsOf(q)' /\ req'[r].op = "respond"
        BY <1>1, <3>2 DEF Commits
      <4>3. QED
        BY <2>3, <4>1, <4>2 DEF Reopened
    <3>5. QED
      BY <3>3, <3>4
  <2>4. QED
    BY <2>1, <2>2, <2>3
<1>5. ASSUME NEW c \in EventsOf(s)', req'[c].op = "close", NEW p \in Reqs,
             req'[p].pc = "loaded", req'[p].op = "respond", req'[p].row = s, c \in req'[p].seen
      PROVE  Reopened(s, c)'
  <2>1. p # r /\ req'[p] = req[p]
    BY <1>5 DEF Commits
  <2>2. c # r
    BY <1>3, <1>5
  <2>3. c \in EventsOf(s) /\ req[c].op = "close"
    BY <1>1, <1>5, <2>2
  <2>4. Reopened(s, c)
    BY <1>5, <2>1, <2>3 DEF Inv, Closures
  <2>5. QED
    BY <1>2, <2>3, <2>4
<1>6. QED
  BY <1>4, <1>5 DEF Closures

LEMMA CommitStep ==
    ASSUME Inv, NEW r \in Reqs, NEW q \in Rows, Commits(r, q),
           req[r].op \in Sources => EventsOf(q) = {},
           req[r].op = "respond" => req[r].pc = "loaded" /\ req[r].row = q
    PROVE  Inv'
<1>1. TypeOK'
  <2>1. status' \in [Rows -> Statuses]
    BY ResultFacts DEF Commits, Inv, TypeOK, Statuses
  <2>2. QED
    BY <2>1 DEF Commits, Inv, TypeOK
<1>2. \A p \in Reqs : Course(p)'
  <2>1. status'[q] # "absent"
    BY ResultFacts DEF Commits, Inv, TypeOK
  <2>2. \A s \in Rows : status[s] # "absent" => status'[s] # "absent"
    BY <2>1 DEF Commits, Inv, TypeOK
  <2>3. Course(r)'
    BY DEF Commits, Inv, Course, Operations, Sources
  <2>4. ASSUME NEW p \in Reqs \ {r} PROVE Course(p)'
    BY <2>2 DEF Commits, Inv, Course
  <2>5. QED
    BY <2>3, <2>4
<1>3. \A s \in Rows : Lasting(s)' /\ Closures(s)'
  BY CommitLasting, CommitClosures
<1>4. QED
  BY <1>1, <1>2, <1>3 DEF Inv

-----------------------------------------------------------------------------

LEMMA InitInv == Init => Inv
<1> SUFFICES ASSUME Init PROVE Inv
  OBVIOUS
<1>1. TypeOK
  BY DEF Init, TypeOK, Statuses, RequestType, Fresh, Request
<1>2. \A q \in Rows : EventsOf(q) = {}
  BY DEF Init, EventsOf
<1>3. \A r \in Reqs : Course(r)
  BY DEF Init, Course, Fresh, Request
<1>4. \A q \in Rows : Lasting(q) /\ Closures(q)
  BY <1>2 DEF Init, Lasting, Closures
<1>5. QED
  BY <1>1, <1>3, <1>4 DEF Inv

LEMMA NextInv == Inv /\ [Next]_vars => Inv'
<1> SUFFICES ASSUME Inv, [Next]_vars PROVE Inv'
  OBVIOUS
<1>0. /\ TypeOK /\ req \in [Reqs -> RequestType]
      /\ \A r \in Reqs : Course(r)
  BY DEF Inv, TypeOK
<1>1. ASSUME NEW r \in Reqs, NEW op \in Operations, NEW q \in Rows \cup {None}, Begin(r, op, q),
             op \in {"respond", "close"} => q \in Rows
      PROVE  Inv'
  <2>1. /\ req' \in [Reqs -> RequestType]
        /\ \A p \in Reqs \ {r} : req'[p] = req[p]
        /\ req[r].pc = "idle" /\ req'[r].pc = "begun"
        /\ req'[r].op = op /\ req'[r].row = q /\ req'[r].seen = trail
    BY <1>0, <1>1, BeginFacts
  <2>2. UNCHANGED <<status, trail>> /\ r \notin trail
    BY <1>0, <1>1, <2>1 DEF Begin, Course
  <2>3. Course(r)'
    BY <1>1, <2>1, <2>2 DEF Course, Operations, Sources
  <2>4. QED
    BY <2>1, <2>2, <2>3, QuietStep
<1>2. ASSUME NEW r \in Reqs, NEW q \in Rows, Insert(r, q) PROVE Inv'
  <2>1. /\ req' \in [Reqs -> RequestType]
        /\ \A p \in Reqs \ {r} : req'[p] = req[p]
        /\ req'[r].pc = "done" /\ req'[r].op = req[r].op
        /\ req'[r].row = q /\ req'[r].seen = req[r].seen
    BY <1>0, <1>2, InsertFacts
  <2>2. /\ r \notin trail /\ trail' = trail \cup {r}
        /\ req[r].op \in Sources /\ req[r].op \in Operations
    BY <1>0, <1>2 DEF Insert, Append, Course, Operations
  <2>3. status' = [status EXCEPT ![q] = Result(req[r].op)]
    BY <1>2, <2>2, ResultFacts DEF Insert, Append
  <2>4. EventsOf(q) = {}
    BY <1>2 DEF Insert, Append, Inv, Lasting
  <2>5. req[r].op # "respond"
    BY <2>2 DEF Sources
  <2>6. QED
    BY <2>1, <2>2, <2>3, <2>4, <2>5, CommitStep DEF Commits
<1>3. ASSUME NEW r \in Reqs, Load(r) PROVE Inv'
  <2>1. \/ Goto(r, "failed")
        \/ Goto(r, "loaded") /\ status[req[r].row] # "absent"
           /\ (req[r].op = "respond" => status[req[r].row] # "closed")
    BY <1>3 DEF Load
  <2>2. /\ req[r].pc = "begun" /\ req[r].op \in {"respond", "close"} /\ req[r].row \in Rows
        /\ UNCHANGED <<status, trail>> /\ r \notin trail
    BY <1>0, <1>3 DEF Load, Course
  <2>3. CASE Goto(r, "failed")
    <3>1. /\ req' \in [Reqs -> RequestType]
          /\ \A p \in Reqs \ {r} : req'[p] = req[p]
          /\ req'[r].pc = "failed" /\ req'[r].op = req[r].op
          /\ req'[r].row = req[r].row /\ req'[r].seen = req[r].seen
      BY <1>0, <2>3, GotoFacts
    <3>2. Course(r)'
      BY <1>0, <2>2, <3>1 DEF Course
    <3>3. QED
      BY <2>2, <3>1, <3>2, QuietStep
  <2>4. CASE /\ Goto(r, "loaded") /\ status[req[r].row] # "absent"
             /\ (req[r].op = "respond" => status[req[r].row] # "closed")
    <3>1. /\ req' \in [Reqs -> RequestType]
          /\ \A p \in Reqs \ {r} : req'[p] = req[p]
          /\ req'[r].pc = "loaded" /\ req'[r].op = req[r].op
          /\ req'[r].row = req[r].row /\ req'[r].seen = req[r].seen
      BY <1>0, <2>4, GotoFacts
    <3>2. Course(r)'
      BY <1>0, <2>2, <2>4, <3>1 DEF Course
    <3>3. QED
      BY <2>2, <2>4, <3>1, <3>2, QuietStep
  <2>5. QED
    BY <2>1, <2>3, <2>4
<1>4. ASSUME NEW r \in Reqs, Respond(r) \/ Close(r) PROVE Inv'
  <2>1. /\ req' \in [Reqs -> RequestType]
        /\ \A p \in Reqs \ {r} : req'[p] = req[p]
        /\ req'[r].pc = "done" /\ req'[r].op = req[r].op
        /\ req'[r].row = req[r].row /\ req'[r].seen = req[r].seen
    BY <1>0, <1>4, GotoFacts DEF Respond, Close, Append
  <2>2. /\ req[r].pc = "loaded" /\ req[r].op \in {"respond", "close"} /\ req[r].row \in Rows
        /\ r \notin trail /\ trail' = trail \cup {r}
    BY <1>0, <1>4 DEF Respond, Close, Append, Course
  <2>3. status' = [status EXCEPT ![req[r].row] = Result(req[r].op)]
    BY <1>4, ResultFacts DEF Respond, Close, Append
  <2>4. req[r].op \in Operations /\ req[r].op \notin Sources
    BY <2>2 DEF Operations, Sources
  <2>5. QED
    BY <2>1, <2>2, <2>3, <2>4, CommitStep DEF Commits
<1>5. ASSUME NEW r \in Reqs, Abort(r) PROVE Inv'
  <2>1. /\ req' \in [Reqs -> RequestType]
        /\ \A p \in Reqs \ {r} : req'[p] = req[p]
        /\ req'[r].pc = "failed" /\ req'[r].op = req[r].op
        /\ req'[r].row = req[r].row /\ req'[r].seen = req[r].seen
    BY <1>0, <1>5, GotoFacts DEF Abort
  <2>2. req[r].pc \in {"begun", "loaded"} /\ UNCHANGED <<status, trail>> /\ r \notin trail
    BY <1>0, <1>5 DEF Abort, Course
  <2>3. Course(r)'
    BY <1>0, <2>1, <2>2 DEF Course
  <2>4. QED
    BY <2>1, <2>2, <2>3, QuietStep
<1>6. CASE UNCHANGED vars
  BY <1>6 DEF vars, Inv, TypeOK, Course, Lasting, Closures, Reopened, Overlap, EventsOf
<1>7. QED
  <2>1. \A r \in Reqs, source \in Sources : Submit(r, source) => Inv'
    BY <1>1 DEF Submit, Operations, Sources
  <2>2. \A r \in Reqs, q \in Rows, op \in {"respond", "close"} : Begin(r, op, q) => Inv'
    BY <1>1 DEF Operations
  <2>3. QED
    BY <1>2, <1>3, <1>4, <1>5, <1>6, <2>1, <2>2 DEF Next

-----------------------------------------------------------------------------

THEOREM InvHolds == Spec => []Inv
  BY InitInv, NextInv, PTL DEF Spec

\* The type of the state (the rows of arco_requests and the requests at work on them).
THEOREM TypeCorrect == Spec => []TypeOK
<1>1. Inv => TypeOK
  BY DEF Inv
<1>2. QED
  BY <1>1, InvHolds, PTL

\* The trail written by AuditService.append tells the status of every row: the
\* last event to be committed is unseen by the others, so when an event has seen
\* all others it is that one.
THEOREM TrailTellsStatusSafe == Spec => []TrailTellsStatus
<1>1. ASSUME Inv PROVE TrailTellsStatus
  <2>1. ASSUME NEW q \in Rows, NEW r \in EventsOf(q), EventsOf(q) \subseteq req[r].seen \cup {r}
        PROVE  status[q] = Result(req[r].op)
    <3>1. PICK l \in EventsOf(q) : /\ status[q] = Result(req[l].op)
                                   /\ \A p \in EventsOf(q) : l \notin req[p].seen
      BY <1>1, <2>1 DEF Inv, Lasting
    <3>2. l = r
      BY <2>1, <3>1
    <3>3. QED
      BY <3>1, <3>2
  <2>2. QED
    BY <1>1, <2>1 DEF TrailTellsStatus, Inv, Lasting
<1>2. QED
  BY <1>1, InvHolds, PTL

\* record_response takes a closure back only when it was at work meanwhile.
THEOREM ReopenedByOverlapSafe == Spec => []ReopenedByOverlap
<1>1. Inv => ReopenedByOverlap
  BY DEF Inv, Closures, Reopened, ReopenedByOverlap
<1>2. QED
  BY <1>1, InvHolds, PTL
=============================================================================
