--------------------------- MODULE PipelineProofs ---------------------------
(***************************************************************************)
(* Safety of Pipeline for every value of the constants: deals stay in a    *)
(* stage of their pipeline, their histories are what History promises and  *)
(* lead to where they are, and no overlap loses the default pipeline.      *)
(*                                                                         *)
(* DealInv adds to the first two what a request in flight still relies on  *)
(* when it commits: a stage never changes its pipeline, so the one it has  *)
(* checked can only disappear, and a disappeared one is caught by the      *)
(* foreign key.                                                            *)
(***************************************************************************)
EXTENDS Pipeline, FiniteSetTheorems, TLAPS

\* What a request has checked and nobody can take back.
ArgsOK(q) ==
    /\ q.pc \in {"make_default", "make_clear", "archive", "archive_checked", "add_stage"}
           => q.p \in Pipelines
    /\ q.pc \in {"delete_stage", "delete_checked"} => q.s \in Stages
    /\ q.pc = "create_deal" => q.p \in Pipelines /\ q.s \in Stages /\ home[q.s] = q.p
    /\ q.pc = "move_stage" =>
           q.d \in Deals /\ Exists(q.d) /\ q.s \in Stages /\ home[q.s] = deal[q.d].pipe

\* A stage that is there belongs to a pipeline.
HomesOK == \A s \in live : home[s] \in Pipelines

\* A deal has a pipeline, and its history starts with its creation.
DealsOK == \A d \in Deals : Exists(d) => deal[d].pipe \in Pipelines /\ events[d] # <<>>

DealInv == /\ TypeOK
           /\ \A r \in Reqs : ArgsOK(req[r])
           /\ HomesOK
           /\ DealsOK
           /\ DealStageInPipeline
           /\ LastEventIsStage

USE SeedAssumption, NoneAssumption

\* What the UPDATE of one column leaves in the row of a deal.
LEMMA DealColumns ==
    ASSUME deal \in [Deals -> DealType], NEW d \in Deals
    PROVE  /\ \A s : [deal EXCEPT ![d].stage = s] =
                         [deal EXCEPT ![d] = [pipe |-> deal[d].pipe, stage |-> s,
                             status |-> deal[d].status, archived |-> deal[d].archived]]
           /\ \A st : [deal EXCEPT ![d].status = st] =
                         [deal EXCEPT ![d] = [pipe |-> deal[d].pipe, stage |-> deal[d].stage,
                             status |-> st, archived |-> deal[d].archived]]
           /\ \A b : [deal EXCEPT ![d].archived = b] =
                         [deal EXCEPT ![d] = [pipe |-> deal[d].pipe, stage |-> deal[d].stage,
                             status |-> deal[d].status, archived |-> b]]
<1>1. ASSUME NEW m \in DealType, NEW x
      PROVE  /\ [m EXCEPT !.stage = x] = [pipe |-> m.pipe, stage |-> x,
                                          status |-> m.status, archived |-> m.archived]
             /\ [m EXCEPT !.status = x] = [pipe |-> m.pipe, stage |-> m.stage,
                                           status |-> x, archived |-> m.archived]
             /\ [m EXCEPT !.archived = x] = [pipe |-> m.pipe, stage |-> m.stage,
                                             status |-> m.status, archived |-> x]
  BY DEF DealType
<1>2. deal[d] \in DealType
  OBVIOUS
<1>3. QED
  BY <1>1, <1>2

\* A history is a sequence, and its last element the one recorded last.
LEMMA Recorded ==
    ASSUME NEW S, NEW e \in S
    PROVE  /\ <<e>> \in Seq(S) /\ <<e>> # <<>> /\ <<e>>[Len(<<e>>)] = e
           /\ \A h \in Seq(S) : /\ Append(h, e) \in Seq(S) /\ Append(h, e) # <<>>
                                /\ Append(h, e)[Len(Append(h, e))] = e
  OBVIOUS

\* The invariant holds in what the tenant migration leaves.
LEMMA DealInit == Init => DealInv
<1> SUFFICES ASSUME Init PROVE DealInv
  OBVIOUS
<1>1. TypeOK
  BY DEF Init, TypeOK, NoDeal, DealType, DealStatus, Idle, Request, ReqType, Places
<1>2. \A r \in Reqs : ArgsOK(req[r])
  BY DEF Init, ArgsOK, Idle, Request
<1>3. \A d \in Deals : ~Exists(d)
  BY DEF Init, Exists, NoDeal
<1>4. HomesOK
  BY DEF Init, HomesOK
<1>5. DealsOK /\ DealStageInPipeline /\ LastEventIsStage
  BY <1>3 DEF DealsOK, DealStageInPipeline, LastEventIsStage, ActiveDeal
<1>6. QED
  BY <1>1, <1>2, <1>4, <1>5 DEF DealInv

\* A step that keeps the pipelines of stages and deals takes nothing back from
\* the requests in flight.
LEMMA ArgsKept ==
    ASSUME TypeOK, \A r \in Reqs : ArgsOK(req[r]), DealsOK,
           \A s \in Stages : home[s] \in Pipelines => home'[s] = home[s],
           \A d \in Deals : Exists(d) => Exists(d)' /\ deal'[d].pipe = deal[d].pipe
    PROVE  \A r \in Reqs : req'[r] = req[r] => ArgsOK(req[r])'
  BY DEF TypeOK, ArgsOK, DealsOK

\* An idle request relies on nothing.
LEMMA IdleArgs == ArgsOK(Idle) /\ ArgsOK(Idle)' /\ Idle \in ReqType
  BY DEF ArgsOK, Idle, Request, ReqType, Places

\* A step that moves one request only, to a place where it relies on the truth.
LEMMA RequestStep ==
    ASSUME DealInv, NEW r \in Reqs, NEW q \in ReqType, req' = [req EXCEPT ![r] = q],
           ArgsOK(q), UNCHANGED <<home, live, deal, events>>,
           pipeline' \in [Pipelines -> {"absent", "active", "archived"}],
           isDefault' \subseteq Pipelines, overtaken' \subseteq Reqs
    PROVE  DealInv'
<1> USE DEF DealInv
<1>1. TypeOK'
  BY DEF TypeOK
<1>2. (\A s \in Reqs : ArgsOK(req[s]))'
  <2>1. \A s \in Reqs : req'[s] = req[s] => ArgsOK(req[s])'
    BY ArgsKept DEF Exists
  <2>2. ArgsOK(q)'
    BY DEF ArgsOK, Exists
  <2>3. \A s \in Reqs : s # r => req'[s] = req[s]
    BY DEF TypeOK
  <2>4. req'[r] = q
    BY DEF TypeOK
  <2>5. QED
    BY <2>1, <2>2, <2>3, <2>4
<1>3. (HomesOK /\ DealsOK /\ DealStageInPipeline /\ LastEventIsStage)'
  BY DEF HomesOK, DealsOK, DealStageInPipeline, LastEventIsStage, ActiveDeal, Exists, StagesOf
<1>4. QED
  BY <1>1, <1>2, <1>3

\* A request that starts.
LEMMA StartStep ==
    ASSUME DealInv, NEW r \in Reqs, NEW q \in ReqType, ArgsOK(q), Begin(r, q)
    PROVE  DealInv'
  BY RequestStep DEF Begin, rows, DealInv, TypeOK

\* A request that ends without touching stages, deals or history.
LEMMA FinishStep ==
    ASSUME DealInv, NEW r \in Reqs, Finish(r), UNCHANGED <<home, live, deal, events>>,
           pipeline' \in [Pipelines -> {"absent", "active", "archived"}],
           isDefault' \subseteq Pipelines, overtaken' \subseteq Reqs
    PROVE  DealInv'
  BY RequestStep, IdleArgs DEF Finish

\* A new stage belongs to the pipeline that was active when it was asked for.
LEMMA AddStageStep == ASSUME DealInv, NEW r \in Reqs, CommitAddStage(r) PROVE DealInv'
<1> USE DEF DealInv
<1>1. PICK s \in Stages : /\ home[s] = None
                          /\ home' = [home EXCEPT ![s] = req[r].p]
                          /\ live' = live \cup {s}
  BY DEF CommitAddStage
<1>2. req[r].p \in Pipelines /\ req' = [req EXCEPT ![r] = Idle]
  BY DEF CommitAddStage, At, ArgsOK, Finish
<1>3. UNCHANGED <<pipeline, isDefault, overtaken, deal, events>>
  BY DEF CommitAddStage
<1>4. TypeOK'
  BY <1>1, <1>2, <1>3, IdleArgs DEF TypeOK
<1>5. (\A q \in Reqs : ArgsOK(req[q]))'
  <2>1. \A q \in Reqs : req'[q] = req[q] => ArgsOK(req[q])'
    BY <1>1, <1>3, ArgsKept DEF Exists, TypeOK
  <2>2. QED
    BY <1>2, <2>1, IdleArgs DEF TypeOK
<1>6. HomesOK'
  BY <1>1, <1>2 DEF HomesOK, TypeOK
<1>7. (DealsOK /\ LastEventIsStage)'
  BY <1>3 DEF DealsOK, LastEventIsStage, ActiveDeal, Exists
<1>8. DealStageInPipeline'
  BY <1>1, <1>3 DEF DealStageInPipeline, DealsOK, StagesOf, Exists, TypeOK
<1>9. QED
  BY <1>4, <1>5, <1>6, <1>7, <1>8

\* The foreign key keeps the stages that deals are in.
LEMMA DeleteStageStep == ASSUME DealInv, NEW r \in Reqs, CommitDelete(r) PROVE DealInv'
<1> USE DEF DealInv
<1>1. /\ live' = IF StageFree(req[r].s) THEN live \ {req[r].s} ELSE live
      /\ UNCHANGED <<pipeline, isDefault, overtaken, home, deal, events>>
      /\ req' = [req EXCEPT ![r] = Idle]
  BY DEF CommitDelete, Finish
<1>2. TypeOK'
  BY <1>1, IdleArgs DEF TypeOK
<1>3. (\A q \in Reqs : ArgsOK(req[q]))'
  <2>1. \A q \in Reqs : req'[q] = req[q] => ArgsOK(req[q])'
    BY <1>1, ArgsKept DEF Exists
  <2>2. QED
    BY <1>1, <2>1, IdleArgs DEF TypeOK
<1>4. (HomesOK /\ DealsOK /\ LastEventIsStage)'
  BY <1>1 DEF HomesOK, DealsOK, LastEventIsStage, ActiveDeal, Exists
<1>5. DealStageInPipeline'
  BY <1>1 DEF DealStageInPipeline, StagesOf, StageFree, Exists
<1>6. QED
  BY <1>2, <1>3, <1>4, <1>5

\* A new deal is in the stage it was asked for, which is still there.
LEMMA CreateDealStep == ASSUME DealInv, NEW r \in Reqs, CommitCreateDeal(r) PROVE DealInv'
<1> USE DEF DealInv
<1>1. CASE req[r].s \notin live
  BY <1>1, FinishStep DEF CommitCreateDeal, TypeOK
<1>2. CASE req[r].s \in live
  <2>1. PICK d \in Deals :
           /\ ~Exists(d)
           /\ deal' = [deal EXCEPT ![d] = [pipe |-> req[r].p, stage |-> req[r].s,
                                           status |-> "open", archived |-> FALSE]]
           /\ events' = [events EXCEPT ![d] = <<Event(None, req[r].s, 0)>>]
    BY <1>2 DEF CommitCreateDeal
  <2>2. /\ req' = [req EXCEPT ![r] = Idle]
        /\ UNCHANGED <<pipeline, isDefault, overtaken, home, live>>
        /\ req[r].p \in Pipelines /\ req[r].s \in Stages /\ home[req[r].s] = req[r].p
    BY DEF CommitCreateDeal, Finish, At, ArgsOK
  <2>3. TypeOK'
    <3>1. deal' \in [Deals -> DealType]
      BY <2>1, <2>2 DEF TypeOK, DealType, DealStatus
    <3>2. events' \in [Deals -> Seq(EventType)]
      <4>1. Event(None, req[r].s, 0) \in EventType
        BY <2>2 DEF Event, EventType
      <4>2. <<Event(None, req[r].s, 0)>> \in Seq(EventType)
        BY <4>1, Recorded
      <4>3. QED
        BY <2>1, <4>2 DEF TypeOK
    <3>3. QED
      BY <2>2, <3>1, <3>2, IdleArgs DEF TypeOK
  <2>4. (\A q \in Reqs : ArgsOK(req[q]))'
    <3>1. \A q \in Reqs : req'[q] = req[q] => ArgsOK(req[q])'
      BY <2>1, <2>2, ArgsKept DEF Exists, TypeOK
    <3>2. QED
      BY <2>2, <3>1, IdleArgs DEF TypeOK
  <2>5. (HomesOK /\ DealStageInPipeline)'
    BY <1>2, <2>1, <2>2 DEF HomesOK, DealStageInPipeline, Exists, StagesOf, TypeOK
  <2>6. (DealsOK /\ LastEventIsStage)'
    <3>1. \A c \in Deals : c # d => events'[c] = events[c] /\ deal'[c] = deal[c]
      BY <2>1 DEF TypeOK
    <3>2. deal'[d].pipe = req[r].p /\ deal'[d].stage = req[r].s
      BY <2>1 DEF TypeOK
    <3>3. events'[d] # <<>> /\ events'[d][Len(events'[d])].to = req[r].s
      BY <2>1 DEF TypeOK, Event
    <3>4. QED
      BY <2>2, <3>1, <3>2, <3>3 DEF DealsOK, LastEventIsStage, ActiveDeal, Exists
  <2>7. QED
    BY <2>3, <2>4, <2>5, <2>6
<1>3. QED
  BY <1>1, <1>2

\* A move brings the deal to the stage it records, and records it alone when
\* the deal has been archived.
LEMMA MoveStep == ASSUME DealInv, NEW r \in Reqs, CommitMove(r) PROVE DealInv'
<1> USE DEF DealInv
<1> DEFINE d == req[r].d
           s == req[r].s
           e == Event(req[r].seen, s, req[r].began)
<1>1. /\ d \in Deals /\ Exists(d) /\ s \in Stages /\ home[s] = deal[d].pipe
      /\ req' = [req EXCEPT ![r] = Idle]
      /\ UNCHANGED <<pipeline, isDefault, overtaken, home, live>>
  BY DEF CommitMove, At, ArgsOK, Finish
<1>2. e \in EventType
  BY <1>1 DEF TypeOK, ReqType, EventType, Event
<1>3. CASE ~deal[d].archived /\ s \notin live
  <2>1. UNCHANGED <<deal, events>>
    BY <1>3 DEF CommitMove
  <2>2. QED
    BY <1>1, <2>1, FinishStep DEF Finish, TypeOK
<1>4. CASE deal[d].archived
  <2>1. events' = [events EXCEPT ![d] = Append(@, e)] /\ UNCHANGED deal
    BY <1>4 DEF CommitMove
  <2>2. events[d] \in Seq(EventType)
    BY <1>1 DEF TypeOK
  <2>3. Append(events[d], e) \in Seq(EventType) /\ Append(events[d], e) # <<>>
    <3> HIDE DEF d, e
    <3>1. QED
      BY <1>2, <2>2, Recorded
  <2>4. TypeOK'
    BY <1>1, <2>1, <2>3, IdleArgs DEF TypeOK
  <2>5. (\A q \in Reqs : ArgsOK(req[q]))'
    <3>1. \A q \in Reqs : req'[q] = req[q] => ArgsOK(req[q])'
      BY <1>1, <2>1, ArgsKept DEF Exists, TypeOK
    <3>2. QED
      BY <1>1, <3>1, IdleArgs DEF TypeOK
  <2>6. (HomesOK /\ DealStageInPipeline)'
    BY <1>1, <2>1 DEF HomesOK, DealStageInPipeline, Exists, StagesOf
  <2>7. (DealsOK /\ LastEventIsStage)'
    BY <1>1, <1>4, <2>1, <2>3 DEF DealsOK, LastEventIsStage, ActiveDeal, Exists, TypeOK
  <2>8. QED
    BY <2>4, <2>5, <2>6, <2>7
<1>5. CASE ~deal[d].archived /\ s \in live
  <2>1. /\ events' = [events EXCEPT ![d] = Append(@, e)]
        /\ deal' = [deal EXCEPT ![d].stage = s]
    BY <1>5 DEF CommitMove
  <2>2. deal' = [deal EXCEPT ![d] = [pipe |-> deal[d].pipe, stage |-> s,
                                     status |-> deal[d].status, archived |-> deal[d].archived]]
    BY <1>1, <2>1, DealColumns DEF TypeOK
  <2>3. events[d] \in Seq(EventType)
    BY <1>1 DEF TypeOK
  <2>4. /\ Append(events[d], e) \in Seq(EventType)
        /\ Append(events[d], e) # <<>>
        /\ Append(events[d], e)[Len(Append(events[d], e))] = e
    <3> HIDE DEF d, e
    <3>1. QED
      BY <1>2, <2>3, Recorded
  <2>5. TypeOK'
    <3>1. deal' \in [Deals -> DealType]
      BY <1>1, <2>2 DEF TypeOK, DealType
    <3>2. QED
      BY <1>1, <2>1, <2>4, <3>1, IdleArgs DEF TypeOK
  <2>6. \A c \in Deals : Exists(c)' = Exists(c) /\ deal'[c].pipe = deal[c].pipe
    BY <1>1, <2>2 DEF Exists, TypeOK
  <2>7. (\A q \in Reqs : ArgsOK(req[q]))'
    <3>1. \A q \in Reqs : req'[q] = req[q] => ArgsOK(req[q])'
      BY <1>1, <2>6, ArgsKept DEF TypeOK
    <3>2. QED
      BY <1>1, <3>1, IdleArgs DEF TypeOK
  <2>8. (HomesOK /\ DealStageInPipeline)'
    BY <1>1, <1>5, <2>2 DEF HomesOK, DealStageInPipeline, Exists, StagesOf, TypeOK
  <2>9. (DealsOK /\ LastEventIsStage)'
    <3> HIDE DEF d, s
    <3>1. \A c \in Deals : c # d => events'[c] = events[c] /\ deal'[c] = deal[c]
      BY <1>1, <2>1, <2>2 DEF TypeOK
    <3>2. events'[d] = Append(events[d], e) /\ deal'[d].stage = s /\ deal'[d].pipe = deal[d].pipe
      BY <1>1, <2>1, <2>2 DEF TypeOK
    <3>3. events'[d] # <<>> /\ events'[d][Len(events'[d])].to = deal'[d].stage
      <4>1. e.to = s
        BY DEF e, s, Event
      <4>2. QED
        BY <2>4, <3>2, <4>1
    <3>4. QED
      BY <1>1, <3>1, <3>2, <3>3 DEF DealsOK, LastEventIsStage, ActiveDeal, Exists
  <2>10. QED
    BY <2>5, <2>7, <2>8, <2>9
<1>6. QED
  BY <1>3, <1>4, <1>5

\* A new status, or the archiving, moves nothing.
LEMMA ColumnStep ==
    ASSUME DealInv, NEW d \in Deals, ArchiveDeal(d) \/ \E st \in DealStatus : SetStatus(d, st)
    PROVE  DealInv'
<1> USE DEF DealInv
<1>1. PICK st \in DealStatus, b \in BOOLEAN :
         deal' = [deal EXCEPT ![d] = [pipe |-> deal[d].pipe, stage |-> deal[d].stage,
                                      status |-> st, archived |-> b]]
  <2>1. CASE ArchiveDeal(d)
    <3>1. deal' = [deal EXCEPT ![d] = [pipe |-> deal[d].pipe, stage |-> deal[d].stage,
                                       status |-> deal[d].status, archived |-> TRUE]]
      BY <2>1, DealColumns DEF ArchiveDeal, TypeOK
    <3>2. deal[d].status \in DealStatus
      BY <2>1 DEF ArchiveDeal, ActiveDeal, Exists, TypeOK, DealType
    <3>3. QED
      BY <3>1, <3>2
  <2>2. ASSUME NEW st \in DealStatus, SetStatus(d, st)
        PROVE  \E b \in BOOLEAN :
                  deal' = [deal EXCEPT ![d] = [pipe |-> deal[d].pipe, stage |-> deal[d].stage,
                                               status |-> st, archived |-> b]]
    <3>1. deal' = [deal EXCEPT ![d] = [pipe |-> deal[d].pipe, stage |-> deal[d].stage,
                                       status |-> st, archived |-> deal[d].archived]]
      BY <2>2, DealColumns DEF SetStatus, TypeOK
    <3>2. deal[d].archived \in BOOLEAN
      BY DEF TypeOK, DealType
    <3>3. QED
      BY <3>1, <3>2
  <2>3. QED
    BY <2>1, <2>2
<1>2. /\ Exists(d) /\ ~deal[d].archived
      /\ UNCHANGED <<pipeline, isDefault, overtaken, home, live, events, req>>
  BY DEF ArchiveDeal, SetStatus, ActiveDeal
<1>3. TypeOK'
  BY <1>1, <1>2 DEF TypeOK, DealType
<1>4. \A c \in Deals : /\ Exists(c)' = Exists(c)
                       /\ deal'[c].pipe = deal[c].pipe /\ deal'[c].stage = deal[c].stage
                       /\ ActiveDeal(c)' => ActiveDeal(c)
  BY <1>1, <1>2 DEF Exists, ActiveDeal, TypeOK, DealStatus
<1>5. (\A q \in Reqs : ArgsOK(req[q]))'
  BY <1>2, <1>4, ArgsKept
<1>6. (HomesOK /\ DealsOK /\ DealStageInPipeline /\ LastEventIsStage)'
  BY <1>2, <1>4 DEF HomesOK, DealsOK, DealStageInPipeline, LastEventIsStage, StagesOf
<1>7. QED
  BY <1>3, <1>5, <1>6

\* One case for each action that a step of the specification can be.
LEMMA DealNext == DealInv /\ [Next]_vars => DealInv'
<1> SUFFICES ASSUME DealInv, [Next]_vars PROVE DealInv'
  OBVIOUS
<1>0. TypeOK /\ \A r \in Reqs : ArgsOK(req[r])
  BY DEF DealInv
<1>1. ASSUME NEW r \in Reqs, Start(r) PROVE DealInv'
  <2> USE DEF ReqType, Places, ArgsOK, Request
  <2>1. CASE LoadCreateDefault(r)
    BY <1>0, <2>1, StartStep DEF LoadCreateDefault, Defaults, TypeOK
  <2>2. ASSUME NEW p \in Pipelines, LoadMakeDefault(r, p) PROVE DealInv'
    BY <1>0, <2>2, StartStep DEF LoadMakeDefault, Defaults, TypeOK
  <2>3. ASSUME NEW p \in Pipelines, LoadArchive(r, p) PROVE DealInv'
    BY <2>3, StartStep DEF LoadArchive
  <2>4. ASSUME NEW p \in Pipelines, LoadAddStage(r, p) PROVE DealInv'
    BY <2>4, StartStep DEF LoadAddStage
  <2>5. ASSUME NEW s \in Stages, LoadDelete(r, s) PROVE DealInv'
    BY <1>0, <2>5, StartStep DEF LoadDelete, TypeOK
  <2>6. ASSUME NEW p \in Pipelines, NEW s \in Stages, LoadCreateDeal(r, p, s) PROVE DealInv'
    BY <2>6, StartStep DEF LoadCreateDeal, StagesOf
  <2>7. ASSUME NEW d \in Deals, NEW s \in Stages, LoadMove(r, d, s) PROVE DealInv'
    <3>1. PICK n \in 1..Len(events[d]) :
             Begin(r, [Request("move_stage", deal[d].pipe, d, s, deal[d].stage, {})
                          EXCEPT !.began = n])
      BY <2>7 DEF LoadMove, BeginMove
    <3> DEFINE q == [Request("move_stage", deal[d].pipe, d, s, deal[d].stage, {})
                        EXCEPT !.began = n]
    <3>2. deal[d] \in DealType /\ home[s] = deal[d].pipe /\ Exists(d) /\ n \in Nat
      BY <1>0, <2>7 DEF LoadMove, StagesOf, ActiveDeal, TypeOK
    <3>3. q \in ReqType /\ ArgsOK(q)
      BY <3>2 DEF DealType
    <3>4. QED
      BY <3>1, <3>3, StartStep
  <2>8. QED
    BY <1>1, <2>1, <2>2, <2>3, <2>4, <2>5, <2>6, <2>7 DEF Start
<1>2. ASSUME NEW r \in Reqs, NEW c \in Places, Goto(r, c),
             req[r].pc \in {"archive", "delete_stage"}, c \in {"archive_checked", "delete_checked"},
             req[r].pc = "archive" <=> c = "archive_checked", UNCHANGED <<rows, overtaken>>
      PROVE  DealInv'
  <2> DEFINE q == Request(c, req[r].p, req[r].d, req[r].s, req[r].seen, req[r].cleared)
  <2>1. q \in ReqType /\ ArgsOK(q)
    BY <1>0, <1>2 DEF Request, ReqType, ArgsOK, TypeOK
  <2>2. req' = [req EXCEPT ![r] = q]
    BY <1>2 DEF Goto
  <2>3. QED
    BY <1>0, <1>2, <2>1, <2>2, RequestStep DEF rows, TypeOK
<1>3. ASSUME NEW r \in Reqs, NEW from, NEW to, ClearDefault(r, from, to),
             <<from, to>> \in {<<"create_clear", "create_default">>, <<"make_clear", "make_default">>}
      PROVE  DealInv'
  <2> DEFINE q == Request(to, req[r].p, None, None, None, req[r].cleared \cap Defaults)
  <2>1. q \in ReqType /\ ArgsOK(q)
    BY <1>0, <1>3 DEF ClearDefault, At, Request, ReqType, ArgsOK, TypeOK, Places
  <2>2. req' = [req EXCEPT ![r] = q] /\ UNCHANGED <<rows, overtaken>>
    BY <1>3 DEF ClearDefault
  <2>3. QED
    BY <1>0, <2>1, <2>2, RequestStep DEF rows, TypeOK
<1>4. ASSUME NEW r \in Reqs, Step(r) PROVE DealInv'
  <2>1. CASE CommitCreateDefault(r)
    <3>1. /\ pipeline' \in [Pipelines -> {"absent", "active", "archived"}]
          /\ isDefault' \subseteq Pipelines
          /\ overtaken' \subseteq Reqs
      BY <1>0, <2>1 DEF CommitCreateDefault, SetDefault, Archiving, TypeOK
    <3>2. QED
      BY <3>1, <1>0, <2>1, FinishStep DEF CommitCreateDefault
  <2>2. CASE CommitMakeDefault(r)
    <3>1. /\ pipeline' \in [Pipelines -> {"absent", "active", "archived"}]
          /\ isDefault' \subseteq Pipelines
          /\ overtaken' \subseteq Reqs
      BY <1>0, <2>2 DEF CommitMakeDefault, SetDefault, Archiving, TypeOK, At, ArgsOK
    <3>2. QED
      BY <3>1, <1>0, <2>2, FinishStep DEF CommitMakeDefault
  <2>3. CASE CheckArchive(r)
    BY <1>0, <1>2, <2>3, FinishStep DEF CheckArchive, rows, TypeOK, At, Places
  <2>4. CASE CommitArchive(r)
    <3>1. /\ pipeline' \in [Pipelines -> {"absent", "active", "archived"}]
          /\ isDefault' \subseteq Pipelines
          /\ overtaken' \subseteq Reqs
      BY <1>0, <2>4 DEF CommitArchive, TypeOK
    <3>2. QED
      BY <3>1, <1>0, <2>4, FinishStep DEF CommitArchive
  <2>5. CASE CheckDelete(r)
    BY <1>0, <1>2, <2>5, FinishStep DEF CheckDelete, rows, TypeOK, At, Places
  <2>6. CASE ClearDefault(r, "create_clear", "create_default")
                \/ ClearDefault(r, "make_clear", "make_default")
    BY <1>3, <2>6
  <2>7. QED
    BY <1>4, <2>1, <2>2, <2>3, <2>4, <2>5, <2>6, AddStageStep, DeleteStageStep,
       CreateDealStep, MoveStep DEF Step
<1>5. ASSUME NEW r \in Reqs, Abort(r) PROVE DealInv'
  BY <1>0, <1>5, FinishStep DEF Abort, rows, TypeOK
<1>6. ASSUME NEW p \in Pipelines, CreatePipeline(p) \/ DropDefault(p) PROVE DealInv'
  <2>1. /\ UNCHANGED <<home, live, deal, events, req, overtaken>>
        /\ pipeline' \in [Pipelines -> {"absent", "active", "archived"}]
        /\ isDefault' \subseteq Pipelines
    BY <1>0, <1>6 DEF CreatePipeline, DropDefault, TypeOK
  <2>2. TypeOK' /\ (\A r \in Reqs : ArgsOK(req[r]))'
    BY <1>0, <2>1 DEF TypeOK, ArgsOK, Exists
  <2>3. QED
    BY <2>1, <2>2 DEF DealInv, HomesOK, DealsOK, DealStageInPipeline, LastEventIsStage,
       ActiveDeal, Exists, StagesOf
<1>7. CASE UNCHANGED vars
  BY <1>7 DEF vars, DealInv, TypeOK, ArgsOK, HomesOK, DealsOK, DealStageInPipeline,
     LastEventIsStage, ActiveDeal, Exists, StagesOf
<1>8. QED
  BY <1>1, <1>4, <1>5, <1>6, <1>7, ColumnStep DEF Next

\* The deal invariant holds in every reachable state.
THEOREM DealInvariant == Spec => []DealInv
<1>1. Init => DealInv
  BY DealInit
<1>2. DealInv /\ [Next]_vars => DealInv'
  BY DealNext
<1>3. QED
  BY <1>1, <1>2, PTL DEF Spec

\* The tables of the pipelines and the requests keep their types.
THEOREM TypeCorrect == Spec => []TypeOK
<1>1. DealInv => TypeOK
  BY DEF DealInv
<1>2. QED
  BY <1>1, DealInvariant, PTL

\* A deal is always in an existing stage of its own pipeline: what a request
\* has checked of a stage can only be undone by its deletion, and the foreign
\* key of deals makes either the deletion or the commit of the request fail.
THEOREM StageSafe == Spec => []DealStageInPipeline
<1>1. DealInv => DealStageInPipeline
  BY DEF DealInv
<1>2. QED
  BY <1>1, DealInvariant, PTL

\* The last recorded move of a deal that is not archived brought it where it is.
THEOREM HistorySafe == Spec => []LastEventIsStage
<1>1. DealInv => LastEventIsStage
  BY DEF DealInv
<1>2. QED
  BY <1>1, DealInvariant, PTL

-----------------------------------------------------------------------------
(* Histories.  An event is dated by the events that were there when its     *)
(* transaction began, and leads on from one that was there when the request *)
(* read the deal, after it began.  While the request is in flight the       *)
(* history only grows, so what it has read stays in its place.              *)

\* A request that moves a deal read it where an event had brought it, one that
\* was there when the request began or came after.
MoveRead(q) ==
    q.pc = "move_stage" =>
        /\ q.began >= 1
        /\ \E j \in q.began..Len(events[q.d]) : events[q.d][j].to = q.seen

\* Event i of a history began before it was there, and leads on from an earlier
\* one, at or after the one it began with.
LeadsOn(h, i) ==
    /\ h[i].began < i
    /\ i > 1 => /\ h[i].began >= 1
                /\ \E j \in h[i].began..(i - 1) : h[j].to = h[i].from

HistInv == /\ \A r \in Reqs : MoveRead(req[r])
           /\ \A d \in Deals : \A i \in 1..Len(events[d]) : LeadsOn(events[d], i)
           /\ \A d \in Deals : ~Exists(d) => deal[d] = NoDeal

\* What a history and a new last event are, place by place.
LEMMA Appended ==
    ASSUME NEW S, NEW h \in Seq(S), NEW e \in S
    PROVE  /\ Append(h, e) \in Seq(S)
           /\ Len(h) \in Nat
           /\ Len(Append(h, e)) = Len(h) + 1
           /\ \A i \in 1..Len(h) : Append(h, e)[i] = h[i]
           /\ Append(h, e)[Len(h) + 1] = e
  OBVIOUS

\* A history that leads on goes on doing so with an event that began no earlier
\* than the first and comes from where an event since then had led.
LEMMA AppendLeadsOn ==
    ASSUME NEW h \in Seq(EventType), NEW e \in EventType, h # <<>>,
           \A i \in 1..Len(h) : LeadsOn(h, i),
           e.began >= 1, \E j \in e.began..Len(h) : h[j].to = e.from
    PROVE  \A i \in 1..Len(Append(h, e)) : LeadsOn(Append(h, e), i)
<1> DEFINE g == Append(h, e)
           n == Len(h)
<1>1. /\ n \in Nat /\ Len(g) = n + 1 /\ g[n + 1] = e
      /\ \A i \in 1..n : g[i] = h[i]
  BY Appended
<1>2. e.began \in Nat /\ \A i \in 1..n : h[i].began \in Nat
  <2>1. \A i \in 1..n : h[i] \in EventType
    OBVIOUS
  <2>2. \A x \in EventType : x.began \in Nat
    BY DEF EventType
  <2>3. QED
    BY <2>1, <2>2
<1>3. ASSUME NEW i \in 1..n PROVE LeadsOn(g, i)
  <2>1. LeadsOn(h, i) /\ g[i] = h[i] /\ i \in Nat
    BY <1>1
  <2>2. CASE i > 1
    <3>1. PICK j \in h[i].began..(i - 1) : h[j].to = h[i].from
      BY <2>1, <2>2 DEF LeadsOn
    <3>2. j \in 1..n
      BY <1>1, <1>2, <2>1, <2>2, <3>1 DEF LeadsOn
    <3>3. g[j] = h[j]
      BY <1>1, <3>2
    <3> HIDE DEF g, n
    <3>4. QED
      BY <2>1, <2>2, <3>1, <3>3 DEF LeadsOn
  <2>3. CASE ~(i > 1)
    <3> HIDE DEF g, n
    <3>1. QED
      BY <2>1, <2>3 DEF LeadsOn
  <2>4. QED
    BY <2>2, <2>3
<1>4. LeadsOn(g, n + 1)
  <2>1. PICK j \in e.began..n : h[j].to = e.from
    OBVIOUS
  <2>2. j \in 1..n /\ j \in e.began..((n + 1) - 1) /\ e.began < n + 1
    BY <1>1, <1>2, <2>1
  <2>3. g[j].to = e.from
    BY <1>1, <2>1, <2>2
  <2> HIDE DEF g, n
  <2>4. QED
    BY <1>1, <2>2, <2>3 DEF LeadsOn
<1> HIDE DEF g, n
<1>5. \A i \in 1..Len(g) : LeadsOn(g, i)
  BY <1>1, <1>3, <1>4
<1>6. QED
  BY <1>5 DEF g

\* There is no history at the start.
LEMMA HistInit == Init => HistInv
  BY DEF Init, HistInv, MoveRead, Idle, Request

\* A step that takes one request somewhere and leaves deals and history alone.
LEMMA HistRequest ==
    ASSUME TypeOK, HistInv, NEW r \in Reqs, NEW q, req' = [req EXCEPT ![r] = q], MoveRead(q),
           UNCHANGED <<deal, events>>
    PROVE  HistInv'
<1>1. \A s \in Reqs : MoveRead(req'[s])
  BY DEF TypeOK, HistInv
<1>2. \A s \in Reqs : MoveRead(req[s])'
  BY <1>1 DEF MoveRead
<1>3. QED
  BY <1>2 DEF HistInv, LeadsOn, Exists

\* The same, to anywhere but the commit of a move.
LEMMA HistElsewhere ==
    ASSUME TypeOK, HistInv, NEW r \in Reqs, NEW q, req' = [req EXCEPT ![r] = q],
           q.pc # "move_stage", UNCHANGED <<deal, events>>
    PROVE  HistInv'
  BY HistRequest DEF MoveRead

\* A request that ends.
LEMMA HistFinish ==
    ASSUME TypeOK, HistInv, NEW r \in Reqs, Finish(r), UNCHANGED <<deal, events>>
    PROVE  HistInv'
<1>1. Idle.pc # "move_stage"
  BY DEF Idle, Request
<1>2. QED
  BY <1>1, HistElsewhere DEF Finish

\* The history of a new deal is its creation, and no request moves it yet.
LEMMA HistCreate ==
    ASSUME DealInv, HistInv, NEW r \in Reqs, CommitCreateDeal(r)
    PROVE  HistInv'
<1>0. TypeOK /\ \A q \in Reqs : ArgsOK(req[q])
  BY DEF DealInv
<1>1. CASE req[r].s \notin live
  BY <1>0, <1>1, HistFinish DEF CommitCreateDeal
<1>2. CASE req[r].s \in live
  <2>1. PICK d \in Deals :
           /\ ~Exists(d)
           /\ deal' = [deal EXCEPT ![d] = [pipe |-> req[r].p, stage |-> req[r].s,
                                           status |-> "open", archived |-> FALSE]]
           /\ events' = [events EXCEPT ![d] = <<Event(None, req[r].s, 0)>>]
    BY <1>2 DEF CommitCreateDeal
  <2>2. \A q \in Reqs : MoveRead(req[q])'
    <3>1. req' = [req EXCEPT ![r] = Idle] /\ Idle.pc # "move_stage"
      BY DEF CommitCreateDeal, Finish, Idle, Request
    <3>2. SUFFICES ASSUME NEW q \in Reqs, q # r, req[q].pc = "move_stage" PROVE MoveRead(req[q])'
      BY <1>0, <3>1 DEF MoveRead, TypeOK
    <3>3. req[q].d \in Deals /\ req[q].d # d
      BY <1>0, <2>1, <3>2 DEF ArgsOK
    <3>4. events'[req[q].d] = events[req[q].d] /\ req'[q] = req[q]
      BY <1>0, <2>1, <3>1, <3>2, <3>3 DEF TypeOK
    <3>5. QED
      BY <3>4 DEF HistInv, MoveRead
  <2>3. (\A c \in Deals : \A i \in 1..Len(events[c]) : LeadsOn(events[c], i))'
    <3>1. \A c \in Deals : c # d => events'[c] = events[c]
      BY <1>0, <2>1 DEF TypeOK
    <3>2. Len(events'[d]) = 1 /\ events'[d][1].began = 0
      BY <1>0, <2>1 DEF TypeOK, Event
    <3>3. \A i \in 1..Len(events'[d]) : LeadsOn(events'[d], i)
      BY <3>2 DEF LeadsOn
    <3>4. ASSUME NEW c \in Deals, NEW i \in 1..Len(events'[c])
          PROVE  LeadsOn(events'[c], i)
      <4>1. CASE c = d
        BY <3>3, <4>1
      <4>2. CASE c # d
        <5>1. events'[c] = events[c]
          BY <3>1, <4>2
        <5>2. LeadsOn(events[c], i)
          BY <5>1 DEF HistInv
        <5>3. QED
          BY <5>1, <5>2
      <4>3. QED
        BY <4>1, <4>2
    <3>5. QED
      BY <3>4
  <2>4. (\A c \in Deals : ~Exists(c) => deal[c] = NoDeal)'
    BY <1>0, <2>1 DEF HistInv, Exists, TypeOK
  <2>5. QED
    BY <2>2, <2>3, <2>4 DEF HistInv
<1>3. QED
  BY <1>1, <1>2

\* A move leads on from where the request had read the deal.
LEMMA HistMove ==
    ASSUME DealInv, HistInv, NEW r \in Reqs, CommitMove(r)
    PROVE  HistInv'
<1>0. TypeOK /\ \A q \in Reqs : ArgsOK(req[q])
  BY DEF DealInv
<1> DEFINE d == req[r].d
           s == req[r].s
           e == Event(req[r].seen, s, req[r].began)
           h == events[d]
<1>1. /\ d \in Deals /\ Exists(d) /\ s \in Stages
      /\ req[r].pc = "move_stage"
      /\ req' = [req EXCEPT ![r] = Idle] /\ Idle.pc # "move_stage"
  BY <1>0 DEF CommitMove, At, ArgsOK, Finish, Idle, Request
<1>2. CASE UNCHANGED <<deal, events>>
  BY <1>0, <1>2, HistFinish DEF CommitMove
<1>3. CASE events' = [events EXCEPT ![d] = Append(@, e)]
  <2>1. e \in EventType /\ h \in Seq(EventType) /\ h # <<>>
    BY <1>0, <1>1 DEF TypeOK, ReqType, EventType, Event, DealInv, DealsOK
  <2>2. e.began >= 1 /\ \E j \in e.began..Len(h) : h[j].to = e.from
    BY <1>1 DEF HistInv, MoveRead, Event
  <2>3. \A i \in 1..Len(h) : LeadsOn(h, i)
    BY <1>1 DEF HistInv
  <2>4. /\ events'[d] = Append(h, e)
        /\ \A c \in Deals : c # d => events'[c] = events[c]
    BY <1>0, <1>1, <1>3 DEF TypeOK
  <2> HIDE DEF e, h
  <2>5. \A i \in 1..Len(Append(h, e)) : LeadsOn(Append(h, e), i)
    BY <2>1, <2>2, <2>3, AppendLeadsOn
  <2>6. (\A c \in Deals : \A i \in 1..Len(events[c]) : LeadsOn(events[c], i))'
    <3>1. ASSUME NEW c \in Deals, c # d
          PROVE  \A i \in 1..Len(events'[c]) : LeadsOn(events'[c], i)
      BY <2>4, <3>1 DEF HistInv
    <3>2. \A i \in 1..Len(events'[d]) : LeadsOn(events'[d], i)
      BY <2>4, <2>5
    <3> HIDE DEF d
    <3>3. \A c \in Deals : \A i \in 1..Len(events'[c]) : LeadsOn(events'[c], i)
      BY <3>1, <3>2
    <3>4. QED
      BY <3>3 DEF LeadsOn
  <2>7. \A q \in Reqs : MoveRead(req[q])'
    <3>1. SUFFICES ASSUME NEW q \in Reqs, q # r, req[q].pc = "move_stage" PROVE MoveRead(req[q])'
      BY <1>0, <1>1 DEF MoveRead, TypeOK
    <3>2. req'[q] = req[q]
      BY <1>0, <1>1, <3>1 DEF TypeOK
    <3> DEFINE b == req[q].began
               f == events[req[q].d]
    <3>3. b \in Nat /\ b >= 1
      BY <1>0, <3>1 DEF TypeOK, ReqType, HistInv, MoveRead
    <3>4. PICK j \in b..Len(f) : f[j].to = req[q].seen
      BY <3>1 DEF HistInv, MoveRead
    <3>5. req[q].d \in Deals /\ f \in Seq(EventType)
      BY <1>0, <3>1 DEF ArgsOK, TypeOK
    <3>6. CASE req[q].d = d
      <4>1. f = h
        BY <3>6 DEF h
      <4> HIDE DEF b, f, d
      <4>2. /\ Len(f) \in Nat /\ Len(Append(f, e)) = Len(f) + 1
            /\ \A i \in 1..Len(f) : Append(f, e)[i] = f[i]
        BY <2>1, <3>5, Appended
      <4>3. j \in 1..Len(f) /\ j \in b..Len(Append(f, e))
        BY <3>3, <3>4, <4>2
      <4>4. Append(f, e)[j].to = req[q].seen
        BY <3>4, <4>2, <4>3
      <4>5. events'[req[q].d] = Append(f, e)
        BY <2>4, <3>6, <4>1
      <4>6. QED
        BY <3>2, <3>3, <4>3, <4>4, <4>5 DEF MoveRead, b
    <3>7. CASE req[q].d # d
      <4>1. events'[req[q].d] = f
        BY <2>4, <3>5, <3>7
      <4>2. QED
        BY <3>2, <3>3, <3>4, <4>1 DEF MoveRead
    <3>8. QED
      BY <3>6, <3>7
  <2>8. (\A c \in Deals : ~Exists(c) => deal[c] = NoDeal)'
    <3>1. UNCHANGED deal \/ deal' = [deal EXCEPT ![d].stage = s]
      BY DEF CommitMove
    <3>2. CASE deal' = [deal EXCEPT ![d].stage = s]
      <4>1. deal' = [deal EXCEPT ![d] = [pipe |-> deal[d].pipe, stage |-> s,
                                         status |-> deal[d].status, archived |-> deal[d].archived]]
        BY <1>0, <1>1, <3>2, DealColumns DEF TypeOK
      <4> HIDE DEF d, s
      <4>2. deal'[d].status # "none" /\ \A c \in Deals : c # d => deal'[c] = deal[c]
        BY <1>0, <1>1, <4>1 DEF Exists, TypeOK
      <4>3. QED
        BY <4>2 DEF HistInv, Exists
    <3>3. CASE UNCHANGED deal
      BY <3>3 DEF HistInv, Exists
    <3>4. QED
      BY <3>1, <3>2, <3>3
  <2>9. QED
    BY <2>6, <2>7, <2>8 DEF HistInv
<1>4. QED
  BY <1>2, <1>3 DEF CommitMove

\* One case for each action that a step of the specification can be.
LEMMA HistNext == DealInv /\ HistInv /\ [Next]_vars => HistInv'
<1> SUFFICES ASSUME DealInv, HistInv, [Next]_vars PROVE HistInv'
  OBVIOUS
<1>0. TypeOK /\ \A r \in Reqs : ArgsOK(req[r])
  BY DEF DealInv
<1>1. ASSUME UNCHANGED <<deal, events, req>> PROVE HistInv'
  BY <1>1 DEF HistInv, MoveRead, LeadsOn, Exists
<1>2. ASSUME NEW r \in Reqs, NEW q, q.pc # "move_stage", Begin(r, q) PROVE HistInv'
  BY <1>0, <1>2, HistElsewhere DEF Begin, rows
<1>3. ASSUME NEW r \in Reqs, Start(r) PROVE HistInv'
  <2> USE DEF Request
  <2>1. CASE LoadCreateDefault(r)
    BY <1>2, <2>1 DEF LoadCreateDefault
  <2>2. ASSUME NEW p \in Pipelines, LoadMakeDefault(r, p) PROVE HistInv'
    BY <1>2, <2>2 DEF LoadMakeDefault
  <2>3. ASSUME NEW p \in Pipelines, LoadArchive(r, p) PROVE HistInv'
    BY <1>2, <2>3 DEF LoadArchive
  <2>4. ASSUME NEW p \in Pipelines, LoadAddStage(r, p) PROVE HistInv'
    BY <1>2, <2>4 DEF LoadAddStage
  <2>5. ASSUME NEW s \in Stages, LoadDelete(r, s) PROVE HistInv'
    BY <1>2, <2>5 DEF LoadDelete
  <2>6. ASSUME NEW p \in Pipelines, NEW s \in Stages, LoadCreateDeal(r, p, s) PROVE HistInv'
    BY <1>2, <2>6 DEF LoadCreateDeal
  <2>7. ASSUME NEW d \in Deals, NEW s \in Stages, LoadMove(r, d, s) PROVE HistInv'
    <3>1. PICK n \in 1..Len(events[d]) :
             Begin(r, [Request("move_stage", deal[d].pipe, d, s, deal[d].stage, {})
                          EXCEPT !.began = n])
      BY <2>7 DEF LoadMove, BeginMove
    <3> DEFINE q == [Request("move_stage", deal[d].pipe, d, s, deal[d].stage, {})
                        EXCEPT !.began = n]
    <3>2. q.began = n /\ q.d = d /\ q.seen = deal[d].stage
      OBVIOUS
    <3>3. /\ Len(events[d]) \in Nat /\ n \in n..Len(events[d]) /\ n >= 1
          /\ Len(events[d]) \in n..Len(events[d])
      BY <1>0, <3>1 DEF TypeOK
    <3>4. events[d][Len(events[d])].to = deal[d].stage
      BY <2>7 DEF LoadMove, DealInv, LastEventIsStage
    <3>5. MoveRead(q)
      BY <3>2, <3>3, <3>4 DEF MoveRead
    <3>6. QED
      BY <1>0, <3>1, <3>5, HistRequest DEF Begin, rows
  <2>8. QED
    BY <1>3, <2>1, <2>2, <2>3, <2>4, <2>5, <2>6, <2>7 DEF Start
<1>4. ASSUME NEW r \in Reqs, NEW c, c # "move_stage", Goto(r, c), UNCHANGED <<deal, events>>
      PROVE  HistInv'
  <2> DEFINE q == Request(c, req[r].p, req[r].d, req[r].s, req[r].seen, req[r].cleared)
  <2>1. req' = [req EXCEPT ![r] = q] /\ q.pc # "move_stage"
    BY <1>4 DEF Goto, Request
  <2>2. QED
    BY <1>0, <1>4, <2>1, HistElsewhere
<1>5. ASSUME NEW r \in Reqs, NEW from, NEW to, ClearDefault(r, from, to), to # "move_stage"
      PROVE  HistInv'
  <2> DEFINE q == Request(to, req[r].p, None, None, None, req[r].cleared \cap Defaults)
  <2>1. req' = [req EXCEPT ![r] = q] /\ q.pc # "move_stage" /\ UNCHANGED <<deal, events>>
    BY <1>5 DEF ClearDefault, Request, rows
  <2>2. QED
    BY <1>0, <2>1, HistElsewhere
<1>6. ASSUME NEW r \in Reqs, Step(r) PROVE HistInv'
  <2>1. CASE CheckArchive(r)
    BY <1>0, <1>4, <2>1, HistFinish DEF CheckArchive, rows
  <2>2. CASE CheckDelete(r)
    BY <1>0, <1>4, <2>2, HistFinish DEF CheckDelete, rows
  <2>3. CASE CommitCreateDefault(r) \/ CommitMakeDefault(r) \/ CommitArchive(r)
                \/ CommitAddStage(r) \/ CommitDelete(r)
    BY <1>0, <2>3, HistFinish DEF CommitCreateDefault, CommitMakeDefault, CommitArchive,
       CommitAddStage, CommitDelete
  <2>4. QED
    BY <1>5, <1>6, <2>1, <2>2, <2>3, HistCreate, HistMove DEF Step
<1>7. ASSUME NEW r \in Reqs, Abort(r) PROVE HistInv'
  BY <1>0, <1>7, HistFinish DEF Abort, rows
<1>8. ASSUME NEW d \in Deals, ArchiveDeal(d) \/ \E st \in DealStatus : SetStatus(d, st)
      PROVE  HistInv'
  <2>1. UNCHANGED <<events, req>> /\ Exists(d) /\ \A c \in Deals : c # d => deal'[c] = deal[c]
    BY <1>0, <1>8 DEF ArchiveDeal, SetStatus, ActiveDeal, TypeOK
  <2>2. deal'[d].status # "none"
    BY <1>0, <1>8 DEF ArchiveDeal, SetStatus, ActiveDeal, Exists, TypeOK, DealType, DealStatus
  <2>3. QED
    BY <2>1, <2>2 DEF HistInv, MoveRead, LeadsOn, Exists
<1>9. QED
  BY <1>1, <1>3, <1>6, <1>7, <1>8 DEF Next, CreatePipeline, DropDefault, vars

\* What requests have read stays in the histories, which lead on.
THEOREM HistInvariant == Spec => [](DealInv /\ HistInv)
<1>1. Init => HistInv
  BY HistInit
<1>2. DealInv /\ HistInv /\ [Next]_vars => HistInv'
  BY HistNext
<1>3. QED
  BY <1>1, <1>2, DealInvariant, PTL DEF Spec

\* Each move goes on from an event committed before it, and no event lies
\* between the two for every reader: one below it began no later than the move,
\* so it was there when the event it goes on from came.
THEOREM MovesChainSafe == Spec => []MovesChain
<1>1. DealInv /\ HistInv => MovesChain
  <2>1. SUFFICES ASSUME DealInv, HistInv, NEW d \in Deals, NEW i \in 2..Len(events[d])
                 PROVE  \E j \in 1..(i - 1) :
                           /\ events[d][j].to = events[d][i].from
                           /\ \A b \in DOMAIN events[d] : ~(Below(d, j, b) /\ Below(d, b, i))
    BY DEF MovesChain
  <2>2. events[d] \in Seq(EventType) /\ DOMAIN events[d] = 1..Len(events[d])
    BY <2>1 DEF DealInv, TypeOK
  <2>3. \A b \in 1..Len(events[d]) : LeadsOn(events[d], b) /\ events[d][b].began \in Nat
    <3>1. \A b \in 1..Len(events[d]) : events[d][b] \in EventType
      BY <2>2
    <3>2. QED
      BY <2>1, <3>1 DEF HistInv, EventType
  <2>4. PICK j \in events[d][i].began..(i - 1) : events[d][j].to = events[d][i].from
    BY <2>3 DEF LeadsOn
  <2>5. j \in 1..(i - 1) /\ j >= events[d][i].began
    BY <2>2, <2>3 DEF LeadsOn
  <2>6. ASSUME NEW b \in 1..Len(events[d]), Below(d, j, b), Below(d, b, i) PROVE FALSE
    BY <2>3, <2>5, <2>6 DEF Below, LeadsOn
  <2>7. QED
    BY <2>2, <2>4, <2>5, <2>6
<1>2. QED
  BY <1>1, HistInvariant, PTL

\* The event that every reader finds above all others leads to where the deal is.
TopTellsStage ==
    \A d \in Deals : ActiveDeal(d) =>
        \A i \in DOMAIN events[d] :
            (\A j \in DOMAIN events[d] \ {i} : Below(d, j, i)) => events[d][i].to = deal[d].stage

\* A reader who finds one event certainly on top of the history of a deal that
\* is not archived reads its stage there: only the last event committed can be.
THEOREM TopSafe == Spec => []TopTellsStage
<1>1. DealInv /\ HistInv => TopTellsStage
  <2>1. SUFFICES ASSUME DealInv, HistInv, NEW d \in Deals, ActiveDeal(d),
                        NEW i \in DOMAIN events[d],
                        \A j \in DOMAIN events[d] \ {i} : Below(d, j, i)
                 PROVE  i = Len(events[d])
    BY DEF TopTellsStage, DealInv, LastEventIsStage
  <2>2. /\ events[d] \in Seq(EventType) /\ DOMAIN events[d] = 1..Len(events[d])
        /\ Len(events[d]) \in Nat
    BY <2>1 DEF DealInv, TypeOK
  <2>3. events[d][i] \in EventType /\ events[d][i].began < i
    BY <2>1, <2>2 DEF HistInv, LeadsOn
  <2>4. events[d][i].began \in Nat /\ i \in 1..Len(events[d])
    BY <2>2, <2>3 DEF EventType
  <2>5. CASE i # Len(events[d])
    <3>1. Len(events[d]) \in DOMAIN events[d] \ {i}
      BY <2>2, <2>4, <2>5
    <3>2. Len(events[d]) <= events[d][i].began
      BY <2>1, <3>1 DEF Below
    <3>3. QED
      BY <2>2, <2>3, <2>4, <3>2
  <2>6. QED
    BY <2>5
<1>2. QED
  BY <1>1, HistInvariant, PTL

\* Only creations, moves and archivings change what History looks at, and each
\* of them is what History calls it.
LEMMA StepKept == DealInv /\ HistInv /\ [Next]_vars => [Promise!Next]_(Promise!vars)
<1> SUFFICES ASSUME DealInv, HistInv, [Next]_vars PROVE Promise!Next \/ UNCHANGED Promise!vars
  OBVIOUS
<1>0. TypeOK /\ \A r \in Reqs : ArgsOK(req[r])
  BY DEF DealInv
<1>1. ASSUME UNCHANGED <<deal, events>> PROVE UNCHANGED Promise!vars
  BY <1>1 DEF Promise!vars, StageOf, IsArchived
<1>2. ASSUME NEW r \in Reqs, CommitCreateDeal(r), ~UNCHANGED <<deal, events>> PROVE Promise!Next
  <2>1. PICK d \in Deals :
           /\ ~Exists(d)
           /\ deal' = [deal EXCEPT ![d] = [pipe |-> req[r].p, stage |-> req[r].s,
                                           status |-> "open", archived |-> FALSE]]
           /\ events' = [events EXCEPT ![d] = <<Event(None, req[r].s, 0)>>]
    BY <1>2 DEF CommitCreateDeal
  <2>2. req[r].s \in Stages
    BY <1>0, <1>2 DEF CommitCreateDeal, At, ArgsOK
  <2>3. StageOf[d] = None /\ IsArchived[d] = FALSE
    BY <2>1 DEF HistInv, NoDeal, StageOf, IsArchived
  <2>4. StageOf' = [StageOf EXCEPT ![d] = req[r].s] /\ UNCHANGED IsArchived
    BY <1>0, <2>1, <2>3 DEF StageOf, IsArchived, TypeOK
  <2>5. Promise!Create(d, req[r].s)
    BY <2>1, <2>3, <2>4 DEF Promise!Create, Promise!Event, Event
  <2>6. QED
    BY <2>2, <2>5 DEF Promise!Next
<1>3. ASSUME NEW r \in Reqs, CommitMove(r), ~UNCHANGED <<deal, events>> PROVE Promise!Next
  <2> DEFINE d == req[r].d
             s == req[r].s
             e == Event(req[r].seen, s, req[r].began)
  <2>1. d \in Deals /\ s \in Stages /\ req[r].pc = "move_stage"
    BY <1>0, <1>3 DEF CommitMove, At, ArgsOK
  <2>2. /\ events' = [events EXCEPT ![d] = Append(@, e)]
        /\ \/ deal[d].archived /\ UNCHANGED deal
           \/ ~deal[d].archived /\ deal' = [deal EXCEPT ![d].stage = s]
    BY <1>3 DEF CommitMove
  <2>3. PICK j \in req[r].began..Len(events[d]) : events[d][j].to = req[r].seen
    BY <2>1 DEF HistInv, MoveRead
  <2>4. /\ req[r].began \in Nat /\ req[r].began >= 1
        /\ events[d] \in Seq(EventType) /\ Len(events[d]) \in Nat
    BY <1>0, <2>1 DEF TypeOK, ReqType, HistInv, MoveRead
  <2>5. j \in 1..Len(events[d]) /\ req[r].began \in 1..j
    BY <2>3, <2>4
  <2>6. Promise!Record(d, s, req[r].began, j)
    BY <2>2, <2>3 DEF Promise!Record, Promise!Event, Event
  <2> HIDE DEF d, s, e
  <2>7. UNCHANGED IsArchived /\ StageOf' = IF IsArchived[d] THEN StageOf ELSE [StageOf EXCEPT ![d] = s]
    <3>1. CASE deal[d].archived /\ UNCHANGED deal
      BY <2>1, <3>1 DEF StageOf, IsArchived
    <3>2. CASE ~deal[d].archived /\ deal' = [deal EXCEPT ![d].stage = s]
      <4>1. deal' = [deal EXCEPT ![d] = [pipe |-> deal[d].pipe, stage |-> s,
                                         status |-> deal[d].status, archived |-> deal[d].archived]]
        BY <1>0, <2>1, <3>2, DealColumns DEF TypeOK
      <4>2. /\ deal'[d].stage = s /\ deal'[d].archived = deal[d].archived
            /\ \A c \in Deals : c # d => deal'[c] = deal[c]
        BY <1>0, <2>1, <4>1 DEF TypeOK
      <4>3. UNCHANGED IsArchived
        BY <4>2 DEF IsArchived
      <4>4. StageOf' = [StageOf EXCEPT ![d] = s]
        BY <4>2 DEF StageOf
      <4>5. QED
        BY <2>1, <3>2, <4>3, <4>4 DEF IsArchived
    <3>3. QED
      BY <2>2, <3>1, <3>2
  <2>8. Promise!Move(d, s)
    BY <2>5, <2>6, <2>7 DEF Promise!Move
  <2>9. QED
    BY <2>1, <2>8 DEF Promise!Next
<1>4. ASSUME NEW d \in Deals, ArchiveDeal(d) PROVE Promise!Next
  <2>1. /\ deal' = [deal EXCEPT ![d] = [pipe |-> deal[d].pipe, stage |-> deal[d].stage,
                                        status |-> deal[d].status, archived |-> TRUE]]
        /\ Exists(d) /\ UNCHANGED events
    BY <1>0, <1>4, DealColumns DEF ArchiveDeal, ActiveDeal, TypeOK
  <2>2. StageOf[d] # None
    BY <1>0, <2>1 DEF StageOf, DealInv, DealStageInPipeline, StagesOf, TypeOK
  <2>3. UNCHANGED StageOf /\ IsArchived' = [IsArchived EXCEPT ![d] = TRUE]
    BY <1>0, <2>1 DEF StageOf, IsArchived, TypeOK
  <2>4. Promise!Archive(d)
    BY <2>1, <2>2, <2>3 DEF Promise!Archive
  <2>5. QED
    BY <2>4 DEF Promise!Next
<1>5. ASSUME NEW d \in Deals, NEW st \in DealStatus, SetStatus(d, st) PROVE UNCHANGED Promise!vars
  <2>1. /\ deal' = [deal EXCEPT ![d] = [pipe |-> deal[d].pipe, stage |-> deal[d].stage,
                                        status |-> st, archived |-> deal[d].archived]]
        /\ UNCHANGED events
    BY <1>0, <1>5, DealColumns DEF SetStatus, TypeOK
  <2>2. UNCHANGED <<StageOf, IsArchived>>
    BY <1>0, <2>1 DEF StageOf, IsArchived, TypeOK
  <2>3. QED
    BY <2>1, <2>2 DEF Promise!vars
<1>6. QED
  BY <1>1, <1>2, <1>3, <1>4, <1>5 DEF Next, vars, rows, Start, Step, Abort, Begin,
     LoadCreateDefault, LoadMakeDefault, LoadArchive, LoadAddStage, LoadDelete, LoadCreateDeal,
     LoadMove, BeginMove, ClearDefault, CommitCreateDefault, CommitMakeDefault, CheckArchive,
     CommitArchive, CommitAddStage, CheckDelete, CommitDelete, CreatePipeline, DropDefault

\* Whatever requests overlap, the histories of deals are what History promises.
THEOREM HistoryKeptSafe == Spec => HistoryKept
<1>1. Init => Promise!Init
  BY DEF Init, Promise!Init, StageOf, IsArchived, NoDeal
<1>2. QED
  BY <1>1, StepKept, HistInvariant, PTL DEF Spec, HistoryKept, Promise!Spec

-----------------------------------------------------------------------------
(* The default pipeline.  A request that archives a pipeline has read that  *)
(* it is not the default one; what makes it one later overtakes the request. *)

ArchivePlaces == {"archive", "archive_checked"}

\* A request archives a default pipeline only when it has been overtaken.
OvertakenInv ==
    \A r \in Reqs : req[r].pc \in ArchivePlaces /\ req[r].p \in isDefault => r \in overtaken

\* A step that moves one request and makes no pipeline the default one.
LEMMA OvertakenRequest ==
    ASSUME TypeOK, OvertakenInv, NEW r \in Reqs, NEW q, req' = [req EXCEPT ![r] = q],
           q.pc \in ArchivePlaces /\ q.p \in isDefault => r \in overtaken',
           overtaken \ {r} \subseteq overtaken', isDefault' \subseteq isDefault
    PROVE  OvertakenInv'
  BY DEF OvertakenInv, TypeOK

\* The same for a request that ends, or starts or goes on with something else.
LEMMA OvertakenElsewhere ==
    ASSUME TypeOK, OvertakenInv, NEW r \in Reqs, NEW q, req' = [req EXCEPT ![r] = q],
           q.pc \notin ArchivePlaces,
           overtaken \ {r} \subseteq overtaken', isDefault' \subseteq isDefault
    PROVE  OvertakenInv'
  BY OvertakenRequest

\* A request that ends.
LEMMA OvertakenFinish ==
    ASSUME TypeOK, OvertakenInv, NEW r \in Reqs, Finish(r),
           overtaken' = overtaken, isDefault' \subseteq isDefault
    PROVE  OvertakenInv'
<1>1. Idle.pc \notin ArchivePlaces
  BY DEF Idle, Request, ArchivePlaces
<1>2. QED
  BY <1>1, OvertakenElsewhere DEF Finish

\* Whoever makes a pipeline the default one overtakes those who archive it.
LEMMA OvertakenSet ==
    ASSUME TypeOK, OvertakenInv, NEW r \in Reqs, NEW p, SetDefault(r, p), Finish(r)
    PROVE  OvertakenInv'
<1>1. CASE UNCHANGED <<pipeline, isDefault, overtaken>>
  BY <1>1, OvertakenFinish
<1>2. CASE /\ isDefault' = (isDefault \ req[r].cleared) \cup {p}
           /\ overtaken' = overtaken \cup Archiving(p)
  <2>1. req'[r].pc \notin ArchivePlaces /\ \A s \in Reqs : s # r => req'[s] = req[s]
    BY DEF Finish, Idle, Request, ArchivePlaces, TypeOK
  <2>2. QED
    BY <1>2, <2>1 DEF OvertakenInv, Archiving, ArchivePlaces
<1>3. QED
  BY <1>1, <1>2 DEF SetDefault

\* One case for each action that a step of the specification can be.
LEMMA OvertakenNext == DealInv /\ OvertakenInv /\ [Next]_vars => OvertakenInv'
<1> SUFFICES ASSUME DealInv, OvertakenInv, [Next]_vars PROVE OvertakenInv'
  OBVIOUS
<1>0. TypeOK
  BY DEF DealInv
<1>1. ASSUME UNCHANGED <<req, overtaken>>, isDefault' \subseteq isDefault PROVE OvertakenInv'
  BY <1>1 DEF OvertakenInv
<1>2. ASSUME NEW r \in Reqs, NEW q, q.pc \notin ArchivePlaces, Begin(r, q) PROVE OvertakenInv'
  BY <1>0, <1>2, OvertakenElsewhere DEF Begin, rows
<1>3. ASSUME NEW r \in Reqs, Start(r) PROVE OvertakenInv'
  <2> USE DEF Request, ArchivePlaces
  <2>1. CASE LoadCreateDefault(r)
    BY <1>2, <2>1 DEF LoadCreateDefault
  <2>2. ASSUME NEW p \in Pipelines, LoadMakeDefault(r, p) PROVE OvertakenInv'
    BY <1>2, <2>2 DEF LoadMakeDefault
  <2>3. ASSUME NEW p \in Pipelines, LoadArchive(r, p) PROVE OvertakenInv'
    BY <1>0, <2>3, OvertakenRequest DEF LoadArchive, Begin, rows
  <2>4. ASSUME NEW p \in Pipelines, LoadAddStage(r, p) PROVE OvertakenInv'
    BY <1>2, <2>4 DEF LoadAddStage
  <2>5. ASSUME NEW s \in Stages, LoadDelete(r, s) PROVE OvertakenInv'
    BY <1>2, <2>5 DEF LoadDelete
  <2>6. ASSUME NEW p \in Pipelines, NEW s \in Stages, LoadCreateDeal(r, p, s) PROVE OvertakenInv'
    BY <1>2, <2>6 DEF LoadCreateDeal
  <2>7. ASSUME NEW d \in Deals, NEW s \in Stages, LoadMove(r, d, s) PROVE OvertakenInv'
    BY <1>2, <2>7 DEF LoadMove, BeginMove
  <2>8. QED
    BY <1>3, <2>1, <2>2, <2>3, <2>4, <2>5, <2>6, <2>7 DEF Start
<1>4. ASSUME NEW r \in Reqs, Step(r) PROVE OvertakenInv'
  <2>1. CASE CommitCreateDefault(r)
    BY <1>0, <2>1, OvertakenSet DEF CommitCreateDefault
  <2>2. CASE CommitMakeDefault(r)
    BY <1>0, <2>2, OvertakenSet, OvertakenFinish DEF CommitMakeDefault
  <2>3. CASE CheckArchive(r)
    <3>1. CASE Goto(r, "archive_checked")
      <4> DEFINE q == Request("archive_checked", req[r].p, req[r].d, req[r].s, req[r].seen,
                              req[r].cleared)
      <4>1. req' = [req EXCEPT ![r] = q] /\ q.p = req[r].p
        BY <3>1 DEF Goto, Request
      <4>2. q.p \in isDefault => r \in overtaken
        BY <2>3, <4>1 DEF CheckArchive, At, OvertakenInv, ArchivePlaces
      <4>3. UNCHANGED <<isDefault, overtaken>>
        BY <2>3 DEF CheckArchive, rows
      <4>4. QED
        BY <1>0, <4>1, <4>2, <4>3, OvertakenRequest
    <3>2. CASE Finish(r)
      BY <1>0, <2>3, <3>2, OvertakenFinish DEF CheckArchive, rows
    <3>3. QED
      BY <2>3, <3>1, <3>2 DEF CheckArchive
  <2>4. CASE CheckDelete(r)
    <3>1. CASE Goto(r, "delete_checked")
      BY <1>0, <2>4, <3>1, OvertakenElsewhere DEF CheckDelete, Goto, Request, rows, ArchivePlaces
    <3>2. CASE Finish(r)
      BY <1>0, <2>4, <3>2, OvertakenFinish DEF CheckDelete, rows
    <3>3. QED
      BY <2>4, <3>1, <3>2 DEF CheckDelete
  <2>5. CASE CommitArchive(r)
    BY <1>0, <2>5, OvertakenFinish DEF CommitArchive
  <2>6. CASE CommitAddStage(r) \/ CommitDelete(r) \/ CommitCreateDeal(r) \/ CommitMove(r)
    BY <1>0, <2>6, OvertakenFinish DEF CommitAddStage, CommitDelete, CommitCreateDeal, CommitMove
  <2>7. ASSUME NEW from, NEW to, to \notin ArchivePlaces, ClearDefault(r, from, to)
        PROVE  OvertakenInv'
    <3> DEFINE q == Request(to, req[r].p, None, None, None, req[r].cleared \cap Defaults)
    <3>1. req' = [req EXCEPT ![r] = q] /\ q.pc = to /\ UNCHANGED <<isDefault, overtaken>>
      BY <2>7 DEF ClearDefault, Request, rows
    <3>2. QED
      BY <1>0, <2>7, <3>1, OvertakenElsewhere
  <2>8. QED
    BY <1>4, <2>1, <2>2, <2>3, <2>4, <2>5, <2>6, <2>7 DEF Step, ArchivePlaces
<1>5. ASSUME NEW r \in Reqs, Abort(r) PROVE OvertakenInv'
  BY <1>0, <1>5, OvertakenFinish DEF Abort, rows
<1>6. QED
  BY <1>1, <1>3, <1>4, <1>5 DEF Next, CreatePipeline, DropDefault, ArchiveDeal, SetStatus, vars

\* What a step may do to a pipeline that is the default one.
KeepsDefault ==
    \A p \in Defaults : p \notin Defaults' =>
        \/ Defaults' # {}
        \/ DropDefault(p)
        \/ \E r \in overtaken : req[r].p = p /\ CommitArchive(r)

\* Only a commit that sets another default pipeline, an update that drops it or
\* an archiving that was overtaken takes the default away.
LEMMA DefaultStep == DealInv /\ OvertakenInv /\ [Next]_vars => [KeepsDefault]_vars
<1> SUFFICES ASSUME DealInv, OvertakenInv, [Next]_vars PROVE KeepsDefault
  OBVIOUS
<1>0. TypeOK /\ \A r \in Reqs : ArgsOK(req[r])
  BY DEF DealInv
<1>1. CASE UNCHANGED <<pipeline, isDefault>>
  BY <1>1 DEF KeepsDefault, Defaults
<1>2. ASSUME NEW r \in Reqs, NEW p \in Pipelines, SetDefault(r, p) PROVE KeepsDefault
  <2>1. CASE /\ pipeline' = [pipeline EXCEPT ![p] = "active"]
             /\ isDefault' = (isDefault \ req[r].cleared) \cup {p}
    <3>1. p \in Defaults'
      BY <1>0, <2>1 DEF Defaults, TypeOK
    <3>2. QED
      BY <3>1 DEF KeepsDefault
  <2>2. QED
    BY <1>1, <1>2, <2>1 DEF SetDefault
<1>3. ASSUME NEW r \in Reqs, CommitMakeDefault(r) PROVE KeepsDefault
  <2>1. req[r].p \in Pipelines
    BY <1>0, <1>3 DEF CommitMakeDefault, At, ArgsOK
  <2>2. QED
    BY <1>1, <1>2, <1>3, <2>1 DEF CommitMakeDefault
<1>4. ASSUME NEW r \in Reqs, CommitArchive(r) PROVE KeepsDefault
  <2>1. \A p \in Defaults : p # req[r].p => p \in Defaults'
    BY <1>0, <1>4 DEF CommitArchive, Defaults, TypeOK
  <2>2. req[r].p \in Defaults => r \in overtaken
    BY <1>4 DEF CommitArchive, At, Defaults, OvertakenInv, ArchivePlaces
  <2>3. QED
    BY <1>4, <2>1, <2>2 DEF KeepsDefault
<1>5. ASSUME NEW p \in Pipelines, DropDefault(p) PROVE KeepsDefault
  <2>1. \A x \in Defaults : x # p => x \in Defaults'
    BY <1>5 DEF DropDefault, Defaults
  <2>2. QED
    BY <1>5, <2>1 DEF KeepsDefault
<1>6. ASSUME NEW p \in Pipelines, CreatePipeline(p) PROVE KeepsDefault
  BY <1>0, <1>6 DEF CreatePipeline, KeepsDefault, Defaults, TypeOK
<1>7. ASSUME NEW r \in Reqs, Start(r) \/ Abort(r) PROVE KeepsDefault
  BY <1>1, <1>7 DEF Start, Abort, Begin, LoadCreateDefault, LoadMakeDefault, LoadArchive,
     LoadAddStage, LoadDelete, LoadCreateDeal, LoadMove, BeginMove, rows
<1>8. ASSUME NEW r \in Reqs, Step(r) PROVE KeepsDefault
  <2>1. CASE CommitCreateDefault(r)
    BY <1>2, <2>1 DEF CommitCreateDefault
  <2>2. CASE CheckArchive(r) \/ CheckDelete(r) \/ CommitAddStage(r) \/ CommitDelete(r)
    BY <1>1, <2>2 DEF CheckArchive, CheckDelete, Goto, CommitAddStage, CommitDelete, rows
  <2>3. CASE CommitCreateDeal(r) \/ CommitMove(r)
    BY <1>1, <2>3 DEF CommitCreateDeal, CommitMove
  <2>4. CASE \/ ClearDefault(r, "create_clear", "create_default")
             \/ ClearDefault(r, "make_clear", "make_default")
    BY <1>1, <2>4 DEF ClearDefault, rows
  <2>5. QED
    BY <1>3, <1>4, <1>8, <2>1, <2>2, <2>3, <2>4 DEF Step
<1>9. ASSUME NEW d \in Deals, ArchiveDeal(d) \/ \E st \in DealStatus : SetStatus(d, st)
      PROVE  KeepsDefault
  BY <1>1, <1>9 DEF ArchiveDeal, SetStatus
<1>10. CASE UNCHANGED vars
  BY <1>1, <1>10 DEF vars
<1>11. QED
  BY <1>5, <1>6, <1>7, <1>8, <1>9, <1>10 DEF Next

\* No overlap of requests that clear, set and archive loses the default pipeline,
\* but for an archiving that was overtaken.
THEOREM DefaultKeptSafe == Spec => DefaultKept
<1>1. Init => OvertakenInv
  BY DEF Init, OvertakenInv, Idle, Request, ArchivePlaces
<1>2. Spec => []OvertakenInv
  BY <1>1, OvertakenNext, DealInvariant, PTL DEF Spec
<1>3. Spec => [][KeepsDefault]_vars
  BY <1>2, DefaultStep, DealInvariant, PTL DEF Spec
<1>4. QED
  BY <1>3 DEF DefaultKept, KeepsDefault
=============================================================================
