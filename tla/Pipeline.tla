------------------------------ MODULE Pipeline ------------------------------
(***************************************************************************)
(* The sales pipelines of one tenant: pipelines, stages, deals and the     *)
(* history of stage moves (PipelineService).  The service takes no row     *)
(* lock: a request reads the rows it decides on, then writes, and only the *)
(* WHERE clauses of its statements, the foreign keys and the partial       *)
(* unique index look at what other requests have committed in between.     *)
(* A request is one read step, further read steps when its checks are      *)
(* separate statements, and one commit step.                               *)
(***************************************************************************)
EXTENDS Naturals, Sequences, FiniteSets

CONSTANTS
    Pipelines, Stages, Deals,   \* identities of rows, those to be created included
    SeedPipeline, SeedStages,   \* what the tenant migration inserts
    Reqs,                       \* slots for requests being served at the same time
    MaxEvents,                  \* bound of the model: recorded moves per deal
    None                        \* absence of a value

ASSUME SeedAssumption == SeedPipeline \in Pipelines /\ SeedStages \subseteq Stages
ASSUME NoneAssumption == None \notin Pipelines \cup Stages \cup Deals

VARIABLES
    pipeline,   \* state of each pipeline: "absent", "active" or "archived"
    isDefault,  \* the pipelines whose is_default is true
    home,       \* pipeline_id of each stage ever made, None before
    live,       \* the stages not deleted
    deal,       \* rows of deals: pipe, stage, status ("none": no row), archived
    events,     \* deal_stage_events of each deal, in the order of commits; an event
                \* is dated by how many there were when its transaction began
    req,        \* what each request slot is doing
    overtaken   \* history: the requests that archive a pipeline which was made the
                \* default one after they had read it

rows == <<pipeline, isDefault, home, live, deal, events>>
vars == <<pipeline, isDefault, home, live, deal, events, req, overtaken>>

DealStatus == {"open", "won", "lost"}
NoDeal     == [pipe |-> None, stage |-> None, status |-> "none", archived |-> FALSE]

StagesOf(p)    == {s \in live : home[s] = p}
DealsOf(p)     == {d \in Deals : deal[d].pipe = p}
ActiveDeals(s) == {d \in Deals : deal[d].stage = s /\ ~deal[d].archived}
OpenDeals(p)   == {d \in DealsOf(p) : deal[d].status = "open" /\ ~deal[d].archived}
Exists(d)      == deal[d].status # "none"
ActiveDeal(d)  == Exists(d) /\ ~deal[d].archived
Defaults       == {p \in isDefault : pipeline[p] = "active"}

\* A request: where it is, its pipeline, deal and stage, the stage it saw its
\* deal in, the default pipelines its first UPDATE saw, then cleared and holds,
\* and the events of its deal that were there when its transaction began.
Request(pc, p, d, s, seen, cleared) ==
    [pc |-> pc, p |-> p, d |-> d, s |-> s, seen |-> seen, cleared |-> cleared, began |-> 0]

Event(from, to, began) == [from |-> from, to |-> to, began |-> began]

Idle == Request("idle", None, None, None, None, {})

Begin(r, q) ==
    /\ req[r] = Idle
    /\ req' = [req EXCEPT ![r] = q]
    /\ overtaken' = overtaken \ {r}
    /\ UNCHANGED rows

Goto(r, pc) == req' = [req EXCEPT ![r] = Request(pc, @.p, @.d, @.s, @.seen, @.cleared)]
Finish(r)   == req' = [req EXCEPT ![r] = Idle]
At(r, pc)   == req[r].pc = pc

Init ==
    /\ pipeline = [p \in Pipelines |-> IF p = SeedPipeline THEN "active" ELSE "absent"]
    /\ isDefault = {SeedPipeline}
    /\ home = [s \in Stages |-> IF s \in SeedStages THEN SeedPipeline ELSE None]
    /\ live = SeedStages
    /\ deal = [d \in Deals |-> NoDeal]
    /\ events = [d \in Deals |-> <<>>]
    /\ req = [r \in Reqs |-> Idle]
    /\ overtaken = {}

-----------------------------------------------------------------------------
(* Pipelines. *)

CreatePipeline(p) ==
    /\ pipeline[p] = "absent"
    /\ pipeline' = [pipeline EXCEPT ![p] = "active"]
    /\ UNCHANGED <<isDefault, overtaken, home, live, deal, events, req>>

\* Creating a pipeline as the default one ("create_..."), or updating one to be
\* it ("make_..."), first clears the default rows: an UPDATE that waits for the
\* rows it saw and passes over those that are no longer default, then holds them.
LoadCreateDefault(r) ==
    Begin(r, Request("create_clear", None, None, None, None, Defaults))

LoadMakeDefault(r, p) ==
    /\ pipeline[p] = "active"
    /\ Begin(r, Request("make_clear", p, None, None, None, Defaults \ {p}))

Held(q)        == IF req[q].pc \in {"create_default", "make_default"} THEN req[q].cleared ELSE {}
Unlocked(r, p) == \A q \in Reqs \ {r} : p \notin Held(q)

ClearDefault(r, from, to) ==
    /\ At(r, from)
    /\ \A p \in req[r].cleared : Unlocked(r, p)
    /\ req' = [req EXCEPT ![r] = Request(to, @.p, None, None, None, @.cleared \cap Defaults)]
    /\ UNCHANGED <<rows, overtaken>>

\* pipelines_one_default_idx: at most one active default row.
OneDefaultIdx(defaults) == Cardinality(defaults) <= 1

Archiving(p) == {q \in Reqs : req[q].pc \in {"archive", "archive_checked"} /\ req[q].p = p}

\* The INSERT or UPDATE that follows, and the commit.  When it conflicts with
\* the index, the clearing is undone as well.
SetDefault(r, p) ==
    IF OneDefaultIdx((Defaults \ req[r].cleared) \cup {p})
    THEN /\ pipeline' = [pipeline EXCEPT ![p] = "active"]
         /\ isDefault' = (isDefault \ req[r].cleared) \cup {p}
         /\ overtaken' = overtaken \cup Archiving(p)
    ELSE UNCHANGED <<pipeline, isDefault, overtaken>>

CommitCreateDefault(r) ==
    /\ At(r, "create_default")
    /\ \E p \in Pipelines : pipeline[p] = "absent" /\ SetDefault(r, p)
    /\ Finish(r)
    /\ UNCHANGED <<home, live, deal, events>>

\* Mutant: an UPDATE that finds the pipeline archived is not refused, and the
\* clearing is committed.
CommitMakeDefaultAnyway(r) ==
    LET p == req[r].p
    IN  /\ At(r, "make_default")
        /\ Unlocked(r, p)
        /\ \/ pipeline[p] = "active" /\ SetDefault(r, p)
           \/ /\ pipeline[p] # "active"
              /\ isDefault' = isDefault \ req[r].cleared
              /\ UNCHANGED <<pipeline, overtaken>>
        /\ Finish(r)
        /\ UNCHANGED <<home, live, deal, events>>

\* An UPDATE that finds the pipeline archived is refused, and the clearing undone.
CommitMakeDefault(r) ==
    LET p == req[r].p
    IN  /\ At(r, "make_default")
        /\ Unlocked(r, p)
        /\ \/ pipeline[p] = "active" /\ SetDefault(r, p)
           \/ pipeline[p] # "active" /\ UNCHANGED <<pipeline, isDefault, overtaken>>
        /\ Finish(r)
        /\ UNCHANGED <<home, live, deal, events>>

\* Updating a pipeline not to be the default one.
DropDefault(p) ==
    /\ pipeline[p] = "active"
    /\ \A q \in Reqs : p \notin Held(q)
    /\ isDefault' = isDefault \ {p}
    /\ UNCHANGED <<pipeline, home, live, deal, events, req, overtaken>>

LoadArchive(r, p) ==
    /\ pipeline[p] = "active"
    /\ p \notin isDefault
    /\ Begin(r, Request("archive", p, None, None, None, {}))

CheckArchive(r) ==
    /\ At(r, "archive")
    /\ IF OpenDeals(req[r].p) # {} THEN Finish(r)
                                   ELSE Goto(r, "archive_checked")
    /\ UNCHANGED <<rows, overtaken>>

CommitArchive(r) ==
    LET p == req[r].p
    IN  /\ At(r, "archive_checked")
        /\ Unlocked(r, p)
        /\ IF pipeline[p] = "active"
           THEN /\ pipeline' = [pipeline EXCEPT ![p] = "archived"]
                /\ isDefault' = isDefault \ {p}
           ELSE UNCHANGED <<pipeline, isDefault>>
        /\ Finish(r)
        /\ UNCHANGED <<home, live, deal, events, overtaken>>

-----------------------------------------------------------------------------
(* Stages. *)

LoadAddStage(r, p) ==
    /\ pipeline[p] = "active"
    /\ Begin(r, Request("add_stage", p, None, None, None, {}))

CommitAddStage(r) ==
    /\ At(r, "add_stage")
    /\ \E s \in Stages :
          /\ home[s] = None
          /\ home' = [home EXCEPT ![s] = req[r].p]
          /\ live' = live \cup {s}
    /\ Finish(r)
    /\ UNCHANGED <<pipeline, isDefault, overtaken, deal, events>>

LoadDelete(r, s) ==
    /\ s \in live
    /\ Cardinality(StagesOf(home[s])) > 1
    /\ Begin(r, Request("delete_stage", home[s], None, s, None, {}))

CheckDelete(r) ==
    /\ At(r, "delete_stage")
    /\ IF ActiveDeals(req[r].s) # {} THEN Finish(r)
                                     ELSE Goto(r, "delete_checked")
    /\ UNCHANGED <<rows, overtaken>>

\* deals.stage_id REFERENCES stages: archived deals keep their stage as well.
StageFree(s) == \A d \in Deals : Exists(d) => deal[d].stage # s

CommitDelete(r) ==
    /\ At(r, "delete_checked")
    /\ live' = IF StageFree(req[r].s) THEN live \ {req[r].s} ELSE live
    /\ Finish(r)
    /\ UNCHANGED <<pipeline, isDefault, overtaken, home, deal, events>>

-----------------------------------------------------------------------------
(* Deals. *)

\* The stage is the one asked for, which must belong to the pipeline, or its
\* first one.
LoadCreateDeal(r, p, s) ==
    /\ pipeline[p] = "active"
    /\ s \in StagesOf(p)
    /\ Begin(r, Request("create_deal", p, None, s, None, {}))

CommitCreateDeal(r) ==
    /\ At(r, "create_deal")
    /\ IF req[r].s \in live
       THEN \E d \in Deals :
               /\ ~Exists(d)
               /\ deal' = [deal EXCEPT ![d] = [pipe |-> req[r].p, stage |-> req[r].s,
                                               status |-> "open", archived |-> FALSE]]
               /\ events' = [events EXCEPT ![d] = <<Event(None, req[r].s, 0)>>]
       ELSE UNCHANGED <<deal, events>>
    /\ Finish(r)
    /\ UNCHANGED <<pipeline, isDefault, overtaken, home, live>>

\* A request to move d from stage seen to s; its transaction began some time
\* after the creation of the deal, of which it has the identity.
BeginMove(r, d, s, seen) ==
    \E began \in 1..Len(events[d]) :
        Begin(r, [Request("move_stage", deal[d].pipe, d, s, seen, {}) EXCEPT !.began = began])

\* Mutant: the stage may be one of any pipeline.
LoadMoveAnywhere(r, d, s) ==
    /\ ActiveDeal(d)
    /\ s \in live
    /\ Len(events[d]) < MaxEvents
    /\ BeginMove(r, d, s, deal[d].stage)

\* Mutant: the event of a move names the stage it goes to as the one it comes from.
LoadMoveOwnStage(r, d, s) ==
    /\ ActiveDeal(d)
    /\ s \in StagesOf(deal[d].pipe)
    /\ Len(events[d]) < MaxEvents
    /\ BeginMove(r, d, s, s)

LoadMove(r, d, s) ==
    /\ ActiveDeal(d)
    /\ s \in StagesOf(deal[d].pipe)
    /\ Len(events[d]) < MaxEvents
    /\ BeginMove(r, d, s, deal[d].stage)

\* Mutant: the event is recorded, the deal keeps its stage.
CommitMoveEventOnly(r) ==
    LET d == req[r].d
    IN  /\ At(r, "move_stage")
        /\ events' = [events EXCEPT ![d] = Append(@, Event(req[r].seen, req[r].s, req[r].began))]
        /\ Finish(r)
        /\ UNCHANGED <<pipeline, isDefault, overtaken, home, live, deal>>

\* Mutant: the UPDATE does not look whether the deal is archived.
CommitMoveBlind(r) ==
    LET d == req[r].d
    IN  /\ At(r, "move_stage")
        /\ req[r].s \in live
        /\ events' = [events EXCEPT ![d] = Append(@, Event(req[r].seen, req[r].s, req[r].began))]
        /\ deal' = [deal EXCEPT ![d].stage = req[r].s]
        /\ Finish(r)
        /\ UNCHANGED <<pipeline, isDefault, overtaken, home, live>>

\* The event is inserted with the stage seen; the UPDATE skips a deal that has
\* been archived, and a stage that has been deleted rolls everything back.
CommitMove(r) ==
    LET d == req[r].d
        s == req[r].s
        e == Event(req[r].seen, s, req[r].began)
    IN  /\ At(r, "move_stage")
        /\ \/ /\ deal[d].archived
              /\ events' = [events EXCEPT ![d] = Append(@, e)]
              /\ UNCHANGED deal
           \/ /\ ~deal[d].archived
              /\ s \in live
              /\ events' = [events EXCEPT ![d] = Append(@, e)]
              /\ deal' = [deal EXCEPT ![d].stage = s]
           \/ /\ ~deal[d].archived
              /\ s \notin live
              /\ UNCHANGED <<deal, events>>
        /\ Finish(r)
        /\ UNCHANGED <<pipeline, isDefault, overtaken, home, live>>

\* The WHERE clause of the UPDATE repeats the check of the read.
SetStatus(d, st) ==
    /\ ActiveDeal(d)
    /\ deal' = [deal EXCEPT ![d].status = st]
    /\ UNCHANGED <<pipeline, isDefault, overtaken, home, live, events, req>>

\* Mutant: archiving is written as a status.
ArchiveDealAsStatus(d) ==
    /\ ActiveDeal(d)
    /\ deal' = [deal EXCEPT ![d].status = "archived"]
    /\ UNCHANGED <<pipeline, isDefault, overtaken, home, live, events, req>>

ArchiveDeal(d) ==
    /\ ActiveDeal(d)
    /\ deal' = [deal EXCEPT ![d].archived = TRUE]
    /\ UNCHANGED <<pipeline, isDefault, overtaken, home, live, events, req>>

\* deal_history, ORDER BY occurred_at DESC: every reader finds event j of d below
\* event i, whose transaction began after j was committed.
Below(d, j, i) == j <= events[d][i].began

\* A failing statement, a lost client or a restart.
Abort(r) == req[r] # Idle /\ Finish(r) /\ UNCHANGED <<rows, overtaken>>

-----------------------------------------------------------------------------

Start(r) ==
    \/ LoadCreateDefault(r)
    \/ \E p \in Pipelines : LoadMakeDefault(r, p) \/ LoadArchive(r, p) \/ LoadAddStage(r, p)
    \/ \E s \in Stages : LoadDelete(r, s)
    \/ \E p \in Pipelines, s \in Stages : LoadCreateDeal(r, p, s)
    \/ \E d \in Deals, s \in Stages : LoadMove(r, d, s)

Step(r) ==
    \/ ClearDefault(r, "create_clear", "create_default") \/ CommitCreateDefault(r)
    \/ ClearDefault(r, "make_clear", "make_default") \/ CommitMakeDefault(r)
    \/ CheckArchive(r) \/ CommitArchive(r)
    \/ CommitAddStage(r)
    \/ CheckDelete(r) \/ CommitDelete(r)
    \/ CommitCreateDeal(r) \/ CommitMove(r)

Next ==
    \/ \E r \in Reqs : Start(r) \/ Step(r) \/ Abort(r)
    \/ \E p \in Pipelines : CreatePipeline(p) \/ DropDefault(p)
    \/ \E d \in Deals : ArchiveDeal(d) \/ \E st \in DealStatus : SetStatus(d, st)

Spec == Init /\ [][Next]_vars

-----------------------------------------------------------------------------
(* Properties. *)

DealType == [pipe : Pipelines \cup {None}, stage : Stages \cup {None},
             status : DealStatus \cup {"none"}, archived : BOOLEAN]

EventType == [from : Stages \cup {None}, to : Stages, began : Nat]

Places == {"idle", "create_clear", "create_default", "make_clear", "make_default", "archive", "archive_checked",
           "add_stage", "delete_stage", "delete_checked", "create_deal", "move_stage"}

ReqType == [pc : Places, p : Pipelines \cup {None}, d : Deals \cup {None},
            s : Stages \cup {None}, seen : Stages \cup {None}, cleared : SUBSET Pipelines,
            began : Nat]

\* The type of the state.
TypeOK ==
    /\ pipeline \in [Pipelines -> {"absent", "active", "archived"}]
    /\ isDefault \subseteq Pipelines
    /\ home \in [Stages -> Pipelines \cup {None}]
    /\ live \subseteq Stages
    /\ deal \in [Deals -> DealType]
    /\ events \in [Deals -> Seq(EventType)]
    /\ req \in [Reqs -> ReqType]
    /\ overtaken \subseteq Reqs

\* A deal is always in an existing stage of its own pipeline, whatever moves,
\* creations and deletions of stages overlap (service.py:996-1012, 449-451).
DealStageInPipeline ==
    \A d \in Deals : Exists(d) => deal[d].stage \in StagesOf(deal[d].pipe)

\* The last recorded move of a deal that is not archived is the one that
\* brought it where it is (service.py:775-808).
LastEventIsStage ==
    \A d \in Deals : ActiveDeal(d) => events[d][Len(events[d])].to = deal[d].stage

\* Each move goes on from an earlier one: the stage it comes from (docs/API.md:105)
\* is where an event committed before took the deal, and no event lies between
\* the two for every reader.
MovesChain ==
    \A d \in Deals : \A i \in 2..Len(events[d]) :
        \E j \in 1..(i - 1) :
            /\ events[d][j].to = events[d][i].from
            /\ \A b \in DOMAIN events[d] : ~(Below(d, j, b) /\ Below(d, b, i))

\* A default pipeline gives way to another one, is told not to be the default,
\* or is archived by a request that had read it before it became the default
\* (service.py:216-240, 250): no overlap of requests that clear, set and archive
\* leaves a tenant without a default pipeline in another way.
DefaultKept ==
    [][\A p \in Defaults : p \notin Defaults' =>
          \/ Defaults' # {}
          \/ DropDefault(p)
          \/ \E r \in overtaken : req[r].p = p /\ CommitArchive(r)]_vars

\* The step archives the pipeline.
Archives(p) == pipeline[p] = "active" /\ pipeline'[p] = "archived"

\* docs/API.md:101: archiving the default pipeline, or one with open deals, is
\* refused.
ArchiveRefused ==
    [][\A p \in Pipelines : Archives(p) => p \notin isDefault /\ OpenDeals(p) = {}]_vars

-----------------------------------------------------------------------------
(* What History promises. *)

StageOf    == [d \in Deals |-> deal[d].stage]
IsArchived == [d \in Deals |-> deal[d].archived]

Promise == INSTANCE History WITH stage <- StageOf, archived <- IsArchived

\* The creations, moves and archivings of deals, and whatever else happens to
\* their pipelines and stages meanwhile (service.py:628-884), are steps of
\* History or change nothing of it.
HistoryKept == Promise!Spec
=============================================================================
