-------------------------------- MODULE Arco --------------------------------
(***************************************************************************)
(* The requests with which people exercise their rights over their data    *)
(* (ArcoService), and the audit events written with every change of them   *)
(* (AuditService.append): a request is filed in one of three ways, then    *)
(* answered and closed.                                                    *)
(*                                                                         *)
(* A change is one transaction: it reads the row without a lock, then an   *)
(* UPDATE that looks at nothing but the id, then the event, then the       *)
(* commit.  UPDATEs of one row wait for each other, so the last commit     *)
(* decides the status; but an event is dated by now(), the start of its    *)
(* transaction, and the trail is read in that order.                       *)
(***************************************************************************)
CONSTANTS
    Rows,   \* rows of arco_requests, those to be inserted included
    Reqs,   \* HTTP requests, each served once; its event bears its name
    None    \* absence of a value

ASSUME NoneAssumption == None \notin Rows

VARIABLES
    status, \* status of each row, "absent": no row
    req,    \* what each HTTP request is doing
    trail   \* the events committed: rows of audit_events

vars == <<status, req, trail>>

Sources    == {"public_form", "logged_in_self", "manual_mail"}
Operations == Sources \cup {"respond", "close"}

\* A request: where it is, what it does, to which row, and the events that were
\* there when its transaction began.
Request(pc, op, row, seen) == [pc |-> pc, op |-> op, row |-> row, seen |-> seen]
Fresh                      == Request("idle", "none", None, {})

Goto(r, pc) == req' = [req EXCEPT ![r] = Request(pc, @.op, @.row, @.seen)]

Init ==
    /\ status = [q \in Rows |-> "absent"]
    /\ req = [r \in Reqs |-> Fresh]
    /\ trail = {}

-----------------------------------------------------------------------------
(* The transactions. *)

\* The first statement of a request, which finds its user and tenant.
Begin(r, op, q) ==
    /\ req[r] = Fresh
    /\ req' = [req EXCEPT ![r] = Request("begun", op, q, trail)]
    /\ UNCHANGED <<status, trail>>

Submit(r, source) == Begin(r, source, None)

\* AuditService.append, in the transaction of its caller.
Append(r) == trail' = trail \cup {r}

\* The row is inserted with an identity of its own, and committed with its event.
Insert(r, q) ==
    /\ req[r].pc = "begun"
    /\ req[r].op \in Sources
    /\ status[q] = "absent"
    /\ status' = [status EXCEPT ![q] = "open"]
    /\ req' = [req EXCEPT ![r] = Request("done", @.op, q, @.seen)]
    /\ Append(r)

\* Mutant: a closed row may be answered.
LoadAnything(r) ==
    /\ req[r].pc = "begun"
    /\ req[r].op \in {"respond", "close"}
    /\ IF status[req[r].row] # "absent" THEN Goto(r, "loaded") ELSE Goto(r, "failed")
    /\ UNCHANGED <<status, trail>>

\* _get, and what is asked of the row: an answer wants one that is not closed.
Load(r) ==
    LET found == status[req[r].row]
    IN  /\ req[r].pc = "begun"
        /\ req[r].op \in {"respond", "close"}
        /\ IF found = "absent" \/ (req[r].op = "respond" /\ found = "closed")
           THEN Goto(r, "failed")
           ELSE Goto(r, "loaded")
        /\ UNCHANGED <<status, trail>>

\* Mutant: the event is written and committed, the change is not.
RespondEventOnly(r) ==
    /\ req[r].pc = "loaded"
    /\ req[r].op = "respond"
    /\ Append(r)
    /\ Goto(r, "done")
    /\ UNCHANGED status

\* UPDATE ... WHERE id, whatever the row has become, its event and the commit.
Respond(r) ==
    /\ req[r].pc = "loaded"
    /\ req[r].op = "respond"
    /\ status' = [status EXCEPT ![req[r].row] = "responded"]
    /\ Append(r)
    /\ Goto(r, "done")

\* Mutant: the closure writes the name of its operation as the status.
CloseMisnamed(r) ==
    /\ req[r].pc = "loaded"
    /\ req[r].op = "close"
    /\ status' = [status EXCEPT ![req[r].row] = req[r].op]
    /\ Append(r)
    /\ Goto(r, "done")

Close(r) ==
    /\ req[r].pc = "loaded"
    /\ req[r].op = "close"
    /\ status' = [status EXCEPT ![req[r].row] = "closed"]
    /\ Append(r)
    /\ Goto(r, "done")

\* Refused (too many forms, no active tenant, no permission), or broken off:
\* the transaction is rolled back, its event with it.
Abort(r) ==
    /\ req[r].pc \in {"begun", "loaded"}
    /\ Goto(r, "failed")
    /\ UNCHANGED <<status, trail>>

-----------------------------------------------------------------------------

Next ==
    \E r \in Reqs :
        \/ \E source \in Sources : Submit(r, source)
        \/ \E q \in Rows, op \in {"respond", "close"} : Begin(r, op, q)
        \/ \E q \in Rows : Insert(r, q)
        \/ Load(r) \/ Respond(r) \/ Close(r) \/ Abort(r)

Spec == Init /\ [][Next]_vars

-----------------------------------------------------------------------------
(* Properties. *)

Statuses    == {"absent", "open", "responded", "closed"}
RequestType == [pc : {"idle", "begun", "loaded", "done", "failed"},
                op : Operations \cup {"none"}, row : Rows \cup {None}, seen : SUBSET Reqs]

\* The type of the state.
TypeOK ==
    /\ status \in [Rows -> Statuses]
    /\ req \in [Reqs -> RequestType]
    /\ trail \subseteq Reqs

EventsOf(q)     == {r \in trail : req[r].row = q}
Result(op)      == CASE op \in Sources -> "open" [] op = "respond" -> "responded"
                     [] op = "close" -> "closed"
Overlap(r1, r2) == r1 \notin req[r2].seen /\ r2 \notin req[r1].seen

\* The audit trail (README.md:116) tells the status: a row has an event unless
\* there is no row, and the event that began after every other event of its row
\* was committed, the last one an auditor reads, is the one the row shows.
TrailTellsStatus ==
    \A q \in Rows :
        /\ status[q] # "absent" <=> EventsOf(q) # {}
        /\ \A r \in EventsOf(q) :
               EventsOf(q) \subseteq req[r].seen \cup {r} => status[q] = Result(req[r].op)

\* record_response answers no closed request (service.py:192-193), but by an
\* answer at work when the row was closed: for every closure that no longer
\* stands there is one.
ReopenedByOverlap ==
    \A q \in Rows : \A c \in EventsOf(q) :
        req[c].op = "close" /\ status[q] # "closed" =>
            \E r \in EventsOf(q) : req[r].op = "respond" /\ Overlap(r, c)
=============================================================================
