----------------------------- MODULE StageOrder -----------------------------
(***************************************************************************)
(* The stages of one pipeline in their order (PipelineService.add_stage,   *)
(* reorder_stages, delete_stage).  Nothing locks the pipeline, and no      *)
(* index asks for distinct positions.                                      *)
(*                                                                         *)
(* An addition computes its position from the stages committed when its    *)
(* INSERT runs.  A reorder reads the stages, compares them with the list   *)
(* it is given, then updates them one by one in the order of that list:    *)
(* an UPDATE waits for the row when another transaction has written it,    *)
(* passes over a row that is gone, and holds the row until the commit.     *)
(* Two reorders in different orders can wait for each other; PostgreSQL    *)
(* then ends one of them.                                                  *)
(***************************************************************************)
EXTENDS Naturals, Sequences, FiniteSets

CONSTANTS
    Stages,     \* identities of rows, those to be inserted included
    Seed,       \* the stages the pipeline begins with
    Reqs,       \* slots for requests being served at the same time
    None        \* absence of a value

ASSUME StagesAssumption == IsFiniteSet(Stages) /\ Seed \subseteq Stages
ASSUME NoneAssumption   == None \notin Stages \cup Reqs

VARIABLES
    position,   \* position of each stage, 0: no row
    deleted,    \* the stages that have been deleted
    holder,     \* the reorder that has written the row and not ended, per stage
    req,        \* what each request slot is doing
    stale,      \* the requests at work whose reading is outdated
    torn        \* an outdated request has been committed, and no reorder since

vars == <<position, deleted, holder, req, stale, torn>>

Live == {s \in Stages : position[s] # 0}

\* A request: where it is, its stage, the position computed for it, the list of
\* stages it was given, and how many of them have been updated.
Request(pc, s, at, order, n) == [pc |-> pc, s |-> s, at |-> at, order |-> order, n |-> n]
Fresh == Request("idle", None, 0, <<>>, 0)

At(r, pc)       == req[r].pc = pc
In(pcs)         == {r \in Reqs : req[r].pc \in pcs}
Finish(r)       == req' = [req EXCEPT ![r] = Fresh]
Distinct(pos)   == \A s, t \in Stages : pos[s] # 0 /\ pos[s] = pos[t] => s = t
Listed(list)    == {list[i] : i \in 1..Len(list)}
Orders(S)       == {list \in [1..Cardinality(S) -> S] : Listed(list) = S}
Free(s)         == position[s] = 0 /\ s \notin deleted /\ \A q \in Reqs : req[q].s # s

Init ==
    /\ \E list \in Orders(Seed) :
          position = [s \in Stages |-> IF s \in Seed THEN CHOOSE i \in 1..Len(list) : list[i] = s ELSE 0]
    /\ deleted = {}
    /\ holder = [s \in Stages |-> None]
    /\ req = [r \in Reqs |-> Fresh]
    /\ stale = {}
    /\ torn = FALSE

-----------------------------------------------------------------------------
(* add_stage. *)

\* Mutant: the number of stages plus one.
NextByCount(pos) == Cardinality({s \in Stages : pos[s] # 0}) + 1

\* COALESCE(MAX(position), 0) + 1
NextPosition(pos) ==
    IF \A s \in Stages : pos[s] = 0 THEN 1
    ELSE 1 + CHOOSE m \in {pos[s] : s \in Stages} : \A s \in Stages : pos[s] <= m

\* The INSERT; it cannot be right when the positions are not.
InsertStage(r, s) ==
    /\ req[r] = Fresh
    /\ Free(s)
    /\ req' = [req EXCEPT ![r] = Request("insert", s, NextPosition(position), <<>>, 0)]
    /\ stale' = IF torn THEN stale \cup {r} ELSE stale
    /\ UNCHANGED <<position, deleted, holder, torn>>

CommitStage(r) ==
    /\ At(r, "insert")
    /\ position' = [position EXCEPT ![req[r].s] = req[r].at]
    /\ torn' = (torn \/ r \in stale)
    /\ stale' = (stale \cup In({"insert", "reorder"})) \ {r}
    /\ Finish(r)
    /\ UNCHANGED <<deleted, holder>>

-----------------------------------------------------------------------------
(* reorder_stages. *)

\* The list must name every stage that is there, once.
LoadReorder(r, order) ==
    /\ req[r] = Fresh
    /\ order \in Orders(Live)
    /\ req' = [req EXCEPT ![r] = Request("reorder", None, 0, order, 0)]
    /\ UNCHANGED <<position, deleted, holder, stale, torn>>

Upcoming(r) == req[r].order[req[r].n + 1]
Setting(r) == At(r, "reorder") /\ req[r].n < Len(req[r].order)

\* Mutant: a row that is gone is written all the same.
UpsertPosition(r) ==
    /\ Setting(r)
    /\ holder[Upcoming(r)] = None
    /\ holder' = [holder EXCEPT ![Upcoming(r)] = r]
    /\ req' = [req EXCEPT ![r] = Request("reorder", None, 0, @.order, @.n + 1)]
    /\ UNCHANGED <<position, deleted, stale, torn>>

\* Mutant: an UPDATE that finds no row is tried again.
RetryUpdate(r) ==
    /\ Setting(r)
    /\ Upcoming(r) \in Live
    /\ UpsertPosition(r)

\* UPDATE stages SET position, the next of the list.
UpdatePosition(r) ==
    /\ Setting(r)
    /\ holder[Upcoming(r)] = None
    /\ holder' = IF Upcoming(r) \in Live THEN [holder EXCEPT ![Upcoming(r)] = r] ELSE holder
    /\ req' = [req EXCEPT ![r] = Request("reorder", None, 0, @.order, @.n + 1)]
    /\ UNCHANGED <<position, deleted, stale, torn>>

Held(r)     == {s \in Stages : holder[s] = r}
Index(r, s) == CHOOSE i \in 1..Len(req[r].order) : req[r].order[i] = s

\* The transaction has ended.
Release(r) == holder' = [s \in Stages |-> IF holder[s] = r THEN None ELSE holder[s]]

CommitReorder(r) ==
    /\ At(r, "reorder")
    /\ req[r].n = Len(req[r].order)
    /\ position' = [s \in Stages |-> IF s \in Held(r) THEN Index(r, s) ELSE position[s]]
    /\ torn' = (r \in stale)
    /\ stale' = (IF r \in stale THEN stale \cup In({"insert"}) ELSE stale) \ {r}
    /\ Release(r)
    /\ Finish(r)
    /\ UNCHANGED deleted

\* A reorder waits for the row of another one.
Waits(r)  == Setting(r) /\ holder[Upcoming(r)] # None
Blocks(r) == holder[Upcoming(r)]
Cycle(S)  == (\A r \in S : Waits(r) /\ Blocks(r) \in S) /\ S = {Blocks(r) : r \in S}

\* PostgreSQL ends a transaction of a cycle; the client is answered 500.
Deadlock(r) ==
    /\ \E S \in SUBSET Reqs : r \in S /\ Cycle(S)
    /\ Release(r)
    /\ Finish(r)
    /\ stale' = stale \ {r}
    /\ UNCHANGED <<position, deleted, torn>>

-----------------------------------------------------------------------------
(* delete_stage. *)

LoadDelete(r, s) ==
    /\ req[r] = Fresh
    /\ s \in Live
    /\ req' = [req EXCEPT ![r] = Request("count", s, 0, <<>>, 0)]
    /\ UNCHANGED <<position, deleted, holder, stale, torn>>

\* Mutant: the count is not looked at.
SkipCount(r) ==
    /\ At(r, "count")
    /\ req' = [req EXCEPT ![r] = Request("delete", @.s, 0, <<>>, 0)]
    /\ UNCHANGED <<position, deleted, holder, stale, torn>>

\* The last stage of the pipeline is not deleted.
CountStages(r) ==
    /\ At(r, "count")
    /\ IF Cardinality(Live) > 1
       THEN req' = [req EXCEPT ![r] = Request("delete", @.s, 0, <<>>, 0)]
       ELSE Finish(r)
    /\ UNCHANGED <<position, deleted, holder, stale, torn>>

\* The DELETE waits like an UPDATE and may find no row; then the commit.  A
\* stage with deals stays (see Abort).
DeleteStage(r) ==
    LET s == req[r].s
    IN  /\ At(r, "delete")
        /\ holder[s] = None
        /\ position' = [position EXCEPT ![s] = 0]
        /\ deleted' = deleted \cup {s}
        /\ stale' = (IF s \in Live THEN stale \cup In({"reorder", "delete"}) ELSE stale) \ {r}
        /\ Finish(r)
        /\ UNCHANGED <<holder, torn>>

\* A request is refused, or broken off, and rolled back.
Abort(r) ==
    /\ req[r] # Fresh
    /\ Release(r)
    /\ Finish(r)
    /\ stale' = stale \ {r}
    /\ UNCHANGED <<position, deleted, torn>>

-----------------------------------------------------------------------------

Next ==
    \E r \in Reqs :
        \/ \E s \in Stages : InsertStage(r, s) \/ LoadDelete(r, s)
        \/ \E order \in Orders(Live) : LoadReorder(r, order)
        \/ CommitStage(r) \/ UpdatePosition(r) \/ CommitReorder(r) \/ Deadlock(r)
        \/ CountStages(r) \/ DeleteStage(r) \/ Abort(r)

\* The statements of a request come to an end; PostgreSQL serves those that wait
\* for a row in turn, and ends a deadlock.
Fairness ==
    /\ \A r \in Reqs : SF_vars(UpdatePosition(r)) /\ WF_vars(CommitReorder(r))
    /\ WF_vars(\E r \in Reqs : Deadlock(r))

Spec == Init /\ [][Next]_vars /\ Fairness

-----------------------------------------------------------------------------
(* Properties. *)

Lists       == UNION {[1..n -> Stages] : n \in 0..Cardinality(Stages)}
RequestType == [pc : {"idle", "insert", "reorder", "count", "delete"}, s : Stages \cup {None},
                at : Nat, order : Lists, n : Nat]

\* The type of the state: a stage that is deleted has no row, and a row that is
\* held is there, written by a reorder at work.
TypeOK ==
    /\ position \in [Stages -> Nat]
    /\ deleted \subseteq Stages
    /\ holder \in [Stages -> Reqs \cup {None}]
    /\ req \in [Reqs -> RequestType]
    /\ stale \subseteq Reqs
    /\ torn \in BOOLEAN
    /\ Live \cap deleted = {}
    /\ \A s \in Stages : holder[s] # None => s \in Live /\ At(holder[s], "reorder")

\* The stages have different positions, the board (service.py:938-950) and the
\* first stage of a new deal (service.py:1014-1029) no ties, unless a request was
\* committed whose reading another commit had outdated: an addition beside an
\* addition, a reorder beside a change of the stages.  The next reorder that
\* nothing outdates puts them right.
PositionsDistinct == torn \/ Distinct(position)

\* The last stage goes (service.py:432-434) only by a deletion whose count
\* another deletion has outdated.
LastStageByOverlap ==
    [][Live # {} /\ Live' = {} => \E r \in stale : At(r, "delete") /\ ~At(r, "delete")']_vars

\* Reorders do not wait for each other for ever.
ReordersEnd == \A r \in Reqs : At(r, "reorder") ~> ~At(r, "reorder")
=============================================================================
