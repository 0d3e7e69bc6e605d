-------------------------- MODULE StageOrderProofs --------------------------
(***************************************************************************)
(* For every number of stages and requests: the type of the state, the     *)
(* distinct positions, the last stage, what deadlocks come from, and that  *)
(* a reorder takes effect as a whole.                                      *)
(*                                                                         *)
(* The argument is what a request may rely on as long as nothing outdates  *)
(* its reading: an addition's position is above every position in use, a   *)
(* reorder has written the rows it has passed, which are all the stages    *)
(* when it is done, and a deletion leaves another stage.                   *)
(***************************************************************************)
EXTENDS StageOrder, FiniteSetTheorems, WellFoundedInduction, TLAPS

\* What a request has by the place where it is.
Course(r) ==
    /\ At(r, "insert") =>
           /\ req[r].s \in Stages \ (Live \cup deleted)
           /\ req[r].at > 0
           /\ \A q \in Reqs \ {r} : At(q, "insert") => req[q].s # req[r].s
    /\ req[r].pc \in {"count", "delete"} => req[r].s \in Live \cup deleted
    /\ At(r, "reorder") => req[r].order \in [1..Len(req[r].order) -> Stages] /\ req[r].n <= Len(req[r].order)
    /\ \A s \in Held(r) : \E i \in 1..req[r].n : req[r].order[i] = s

\* What it may rely on.
Reliance(r) ==
    /\ At(r, "insert") => ~torn /\ \A s \in Live : position[s] < req[r].at
    /\ At(r, "reorder") =>
           /\ Listed(req[r].order) = Live
           /\ Len(req[r].order) = Cardinality(Live)
           /\ \A i \in 1..req[r].n : holder[req[r].order[i]] = r
    /\ At(r, "delete") => \E s, t \in Live : s # t

Inv ==
    /\ TypeOK
    /\ \A r \in Reqs : Course(r)
    /\ \A r \in Reqs \ stale : Reliance(r)
    /\ PositionsDistinct

-----------------------------------------------------------------------------
(* Finite sets. *)

\* Among the stages of a set that is not empty one has the highest position.
LEMMA Highest ==
    ASSUME NEW pos \in [Stages -> Nat], NEW S \in SUBSET Stages, S # {}
    PROVE  \E m \in S : \A s \in S : pos[s] <= pos[m]
<1> DEFINE Bad == {U \in SUBSET Stages : U # {} /\ ~\E m \in U : \A s \in U : pos[s] <= pos[m]}
<1>1. SUFFICES ASSUME Bad # {} PROVE FALSE
  OBVIOUS
<1>2. Bad \subseteq SUBSET Stages
  OBVIOUS
<1>3. IsWellFoundedOn(StrictSubsetOrdering(Stages), SUBSET Stages)
  BY StagesAssumption, FS_StrictSubsetOrderingWellFounded, FS_FiniteSubsetsOfFinite
<1>4. PICK U \in Bad : \A V \in Bad : <<V, U>> \notin StrictSubsetOrdering(Stages)
  <2> HIDE DEF Bad
  <2> QED
    BY <1>1, <1>2, <1>3, WFMin
<1>5. PICK x \in U : TRUE
  BY <1>4
<1>6. \A y : y \in U \ {x} => \E m \in U \ {x} : \A s \in U \ {x} : pos[s] <= pos[m]
  <2>1. ASSUME NEW y \in U \ {x}, U \ {x} \in Bad PROVE FALSE
    BY <1>4, <1>5, <2>1 DEF StrictSubsetOrdering
  <2>2. QED
    BY <1>4, <2>1
<1>7. CASE U = {x}
  BY <1>4, <1>7
<1>8. CASE U # {x}
  <2>1. PICK m \in U \ {x} : \A s \in U \ {x} : pos[s] <= pos[m]
    BY <1>5, <1>6, <1>8
  <2>2. pos[x] \in Nat /\ pos[m] \in Nat /\ \A s \in U : pos[s] \in Nat
    BY <1>4, <1>5, <2>1
  <2>3. CASE pos[x] <= pos[m]
    <3>1. \A s \in U : pos[s] <= pos[m]
      BY <2>1, <2>3
    <3>2. QED
      BY <3>1, <1>4, <2>1
  <2>4. CASE ~(pos[x] <= pos[m])
    <3>1. \A s \in U : pos[s] <= pos[x]
      BY <2>1, <2>2, <2>4
    <3>2. QED
      BY <3>1, <1>4, <1>5
  <2>5. QED
    BY <2>3, <2>4
<1>9. QED
  BY <1>7, <1>8

\* The position of an addition is above every position in use.
LEMMA NextPositionFacts ==
    ASSUME position \in [Stages -> Nat]
    PROVE  /\ NextPosition(position) \in Nat
           /\ NextPosition(position) > 0
           /\ \A s \in Stages : position[s] < NextPosition(position)
<1>1. CASE \A s \in Stages : position[s] = 0
  BY <1>1 DEF NextPosition
<1>2. CASE \E s \in Stages : position[s] # 0
  <2> DEFINE P(m) == m \in {position[s] : s \in Stages} /\ \A s \in Stages : position[s] <= m
  <2>1. PICK t \in Stages : \A s \in Stages : position[s] <= position[t]
    BY <1>2, Highest
  <2>2. \E m : P(m)
    BY <2>1
  <2>3. P(CHOOSE m : P(m))
    BY <2>2
  <2>4. NextPosition(position) = 1 + CHOOSE m : P(m)
    BY <1>2 DEF NextPosition
  <2> DEFINE top == CHOOSE m : P(m)
  <2>5. top \in Nat /\ \A s \in Stages : position[s] <= top
    BY <2>3
  <2> HIDE DEF top, P
  <2>6. NextPosition(position) = 1 + top
    BY <2>4 DEF top
  <2>7. QED
    BY <2>5, <2>6
<1>3. QED
  BY <1>1, <1>2

\* Distinct positions below a bound are fewer than the bound.
LEMMA FewerThanBound ==
    ASSUME position \in [Stages -> Nat], Distinct(position), NEW at \in Nat,
           at > 0, \A s \in Live : position[s] < at
    PROVE  Cardinality(Live) < at
<1> DEFINE f == [s \in Live |-> position[s]]
<1>1. f \in Injection(Live, 1..(at - 1))
  BY DEF Injection, IsInjective, Distinct, Live
<1>2. IsFiniteSet(1..(at - 1)) /\ Cardinality(1..(at - 1)) = at - 1
  BY FS_Interval
<1> HIDE DEF f
<1>3. IsFiniteSet(Live) /\ Cardinality(Live) <= at - 1
  BY <1>1, <1>2, FS_Injection
<1>4. Cardinality(Live) \in Nat
  BY <1>3, FS_CardinalityType
<1>5. QED
  BY <1>3, <1>4

\* More than one stage is two stages.
LEMMA TwoStages ==
    ASSUME Cardinality(Live) > 1
    PROVE  \E s, t \in Live : s # t
<1>1. IsFiniteSet(Live)
  BY StagesAssumption, FS_Subset DEF Live
<1>2. Live # {}
  BY <1>1, FS_EmptySet
<1>3. PICK s \in Live : TRUE
  BY <1>2
<1>4. Live # {s}
  BY FS_Singleton
<1>5. QED
  BY <1>3, <1>4

-----------------------------------------------------------------------------
(* Requests. *)

LEMMA FinishFacts ==
    ASSUME req \in [Reqs -> RequestType], NEW r \in Reqs, Finish(r)
    PROVE  /\ req' \in [Reqs -> RequestType]
           /\ \A q \in Reqs \ {r} : req'[q] = req[q]
           /\ req'[r] = Fresh
           /\ req'[r].pc = "idle"
<1>1. Fresh \in RequestType
  <2>1. <<>> \in [1..0 -> Stages] /\ 0 \in 0..Cardinality(Stages)
    BY StagesAssumption, FS_CardinalityType
  <2>2. QED
    BY <2>1 DEF Fresh, Request, RequestType, Lists
<1>2. QED
  BY <1>1 DEF Finish, Fresh, Request

\* What a step that changes no row keeps of the other requests.
LEMMA OthersKept ==
    ASSUME Inv, NEW r \in Reqs, req' \in [Reqs -> RequestType],
           \A q \in Reqs \ {r} : req'[q] = req[q],
           UNCHANGED <<position, deleted, torn>>, stale \ {r} \subseteq stale',
           \A s \in Stages, q \in Reqs \ {r} : holder'[s] = q <=> holder[s] = q,
           At(r, "insert")' => \A q \in Reqs \ {r} : req[q].s # req'[r].s
    PROVE  /\ \A q \in Reqs \ {r} : Course(q)' /\ (q \notin stale' => Reliance(q)')
           /\ PositionsDistinct'
<1>1. ASSUME NEW q \in Reqs \ {r} PROVE Course(q)' /\ (q \notin stale' => Reliance(q)')
  <2>1. req'[q] = req[q] /\ Live' = Live /\ Held(q)' = Held(q)
    BY DEF Live, Held
  <2>2. Course(q) /\ (q \notin stale => Reliance(q))
    BY DEF Inv
  <2>3. ASSUME At(q, "insert"), NEW p \in Reqs \ {q}, At(p, "insert")' PROVE req'[p].s # req[q].s
    BY <2>2, <2>3 DEF At, Course
  <2>4. Course(q)'
    BY <2>1, <2>2, <2>3 DEF Course, At
  <2>5. q \notin stale' => Reliance(q)'
    <3>1. ASSUME At(q, "reorder"), NEW i \in 1..req[q].n PROVE req[q].order[i] \in Stages
      <4>1. req[q].order \in [1..Len(req[q].order) -> Stages] /\ req[q].n <= Len(req[q].order)
        BY <2>2, <3>1 DEF Course
      <4>2. Len(req[q].order) \in Nat /\ req[q].n \in Nat
        BY <4>1 DEF Inv, TypeOK, RequestType
      <4>3. i \in 1..Len(req[q].order)
        BY <4>1, <4>2
      <4>4. QED
        BY <4>1, <4>3
    <3>2. QED
      BY <2>1, <2>2, <3>1 DEF Reliance, At, Listed
  <2>6. QED
    BY <2>4, <2>5
<1>2. PositionsDistinct'
  BY DEF Inv, PositionsDistinct, Distinct
<1>3. QED
  BY <1>1, <1>2

-----------------------------------------------------------------------------
(* The steps that change no row. *)

LEMMA InsertKeeps ==
    ASSUME Inv, NEW r \in Reqs, NEW s \in Stages, InsertStage(r, s)
    PROVE  Inv'
<1> DEFINE q == Request("insert", s, NextPosition(position), <<>>, 0)
<1>1. /\ NextPosition(position) \in Nat
      /\ NextPosition(position) > 0
      /\ \A t \in Stages : position[t] < NextPosition(position)
  BY NextPositionFacts DEF Inv, TypeOK
<1>2. q \in RequestType /\ q.pc = "insert" /\ q.s = s /\ q.at = NextPosition(position)
  <2>1. <<>> \in [1..0 -> Stages] /\ 0 \in 0..Cardinality(Stages)
    BY StagesAssumption, FS_CardinalityType
  <2>2. QED
    BY <1>1, <2>1 DEF Request, RequestType, Lists
<1>3. req' = [req EXCEPT ![r] = q]
  BY DEF InsertStage
<1> HIDE DEF q
<1>4. req' \in [Reqs -> RequestType] /\ req'[r] = q /\ \A p \in Reqs \ {r} : req'[p] = req[p]
  BY <1>2, <1>3 DEF Inv, TypeOK
<1>5. Live' = Live /\ Held(r)' = Held(r) /\ Held(r) = {}
  <2>1. \A t \in Stages : holder[t] # None => At(holder[t], "reorder")
    BY DEF Inv, TypeOK
  <2>2. ~At(r, "reorder") /\ r # None
    BY NoneAssumption DEF InsertStage, Fresh, Request, At
  <2>3. QED
    BY <2>1, <2>2 DEF InsertStage, Live, Held
<1>6. TypeOK'
  <2>1. \A t \in Stages : holder[t] # None => holder[t] # r
    BY <1>5 DEF Held
  <2>2. stale' \subseteq Reqs
    BY DEF Inv, TypeOK, InsertStage
  <2>3. QED
    BY <1>4, <1>5, <2>1, <2>2 DEF Inv, TypeOK, InsertStage, At
<1>7. \A p \in Reqs \ {r} : req[p].s # s
  BY DEF InsertStage, Free
<1>8. /\ \A p \in Reqs \ {r} : Course(p)' /\ (p \notin stale' => Reliance(p)')
      /\ PositionsDistinct'
  <2>1. stale \ {r} \subseteq stale' /\ UNCHANGED <<position, deleted, holder, torn>>
    BY DEF InsertStage
  <2>2. At(r, "insert")' => \A p \in Reqs \ {r} : req[p].s # req'[r].s
    BY <1>2, <1>4, <1>7
  <2>3. QED
    BY <1>4, <2>1, <2>2, OthersKept
<1>9. Course(r)'
  <2>1. s \in Stages \ (Live \cup deleted)
    BY DEF InsertStage, Free, Live
  <2>2. q.pc # "count" /\ q.pc # "delete" /\ q.pc # "reorder"
    BY <1>2
  <2>3. deleted' = deleted
    BY DEF InsertStage
  <2>4. QED
    BY <1>1, <1>2, <1>4, <1>5, <1>7, <2>1, <2>2, <2>3 DEF Course, At
<1>10. r \notin stale' => Reliance(r)'
  <2>1. r \notin stale' => ~torn
    BY DEF InsertStage
  <2>2. Live \subseteq Stages /\ position' = position /\ torn' = torn
    BY DEF Live, InsertStage
  <2>3. QED
    BY <1>1, <1>2, <1>4, <1>5, <2>1, <2>2 DEF Reliance, At
<1>11. QED
  BY <1>6, <1>8, <1>9, <1>10 DEF Inv

LEMMA LoadReorderKeeps ==
    ASSUME Inv, NEW r \in Reqs, NEW order \in Orders(Live), LoadReorder(r, order)
    PROVE  Inv'
<1> DEFINE q == Request("reorder", None, 0, order, 0)
<1>1. /\ Cardinality(Live) \in 0..Cardinality(Stages)
      /\ order \in [1..Cardinality(Live) -> Stages]
      /\ Len(order) = Cardinality(Live)
      /\ Listed(order) = Live
  <2>1. Live \in SUBSET Stages
    BY DEF Live
  <2>2. IsFiniteSet(Live) /\ Cardinality(Live) <= Cardinality(Stages)
    BY <2>1, StagesAssumption, FS_Subset
  <2>3. Cardinality(Live) \in Nat /\ Cardinality(Stages) \in Nat
    BY <2>2, StagesAssumption, FS_CardinalityType
  <2>4. order \in [1..Cardinality(Live) -> Live] /\ Listed(order) = Live
    BY DEF Orders
  <2>5. QED
    BY <2>1, <2>2, <2>3, <2>4
<1>2. q \in RequestType /\ q.pc = "reorder" /\ q.order = order /\ q.n = 0
  BY <1>1 DEF Request, RequestType, Lists
<1>3. req' = [req EXCEPT ![r] = q]
  BY DEF LoadReorder
<1> HIDE DEF q
<1>4. req' \in [Reqs -> RequestType] /\ req'[r] = q /\ \A p \in Reqs \ {r} : req'[p] = req[p]
  BY <1>2, <1>3 DEF Inv, TypeOK
<1>5. Live' = Live /\ Held(r)' = Held(r) /\ Held(r) = {}
  <2>1. \A t \in Stages : holder[t] # None => At(holder[t], "reorder")
    BY DEF Inv, TypeOK
  <2>2. ~At(r, "reorder") /\ r # None
    BY NoneAssumption DEF LoadReorder, Fresh, Request, At
  <2>3. QED
    BY <2>1, <2>2 DEF LoadReorder, Live, Held
<1>6. TypeOK'
  <2>1. \A t \in Stages : holder[t] # None => holder[t] # r
    BY <1>5 DEF Held
  <2>2. QED
    BY <1>4, <1>5, <2>1 DEF Inv, TypeOK, LoadReorder, At
<1>7. /\ \A p \in Reqs \ {r} : Course(p)' /\ (p \notin stale' => Reliance(p)')
      /\ PositionsDistinct'
  <2>1. stale \ {r} \subseteq stale' /\ UNCHANGED <<position, deleted, holder, torn>>
    BY DEF LoadReorder
  <2>2. ~At(r, "insert")'
    BY <1>2, <1>4 DEF At
  <2>3. QED
    BY <1>4, <2>1, <2>2, OthersKept
<1>8. Course(r)'
  <2>1. q.pc # "count" /\ q.pc # "delete" /\ q.pc # "insert"
    BY <1>2
  <2>2. q.order \in [1..Len(q.order) -> Stages] /\ q.n <= Len(q.order)
    BY <1>1, <1>2
  <2>3. QED
    BY <1>4, <1>5, <2>1, <2>2 DEF Course, At
<1>9. Reliance(r)'
  <2>1. q.pc # "delete" /\ q.pc # "insert" /\ 1..q.n = {}
    BY <1>2
  <2>2. Listed(q.order) = Live' /\ Len(q.order) = Cardinality(Live')
    BY <1>1, <1>2, <1>5
  <2>3. QED
    BY <1>4, <2>1, <2>2 DEF Reliance, At, Listed
<1>10. QED
  BY <1>6, <1>7, <1>8, <1>9 DEF Inv

LEMMA LoadDeleteKeeps ==
    ASSUME Inv, NEW r \in Reqs, NEW s \in Stages, LoadDelete(r, s)
    PROVE  Inv'
<1> DEFINE q == Request("count", s, 0, <<>>, 0)
<1>1. q \in RequestType /\ q.pc = "count" /\ q.s = s
  <2>1. <<>> \in [1..0 -> Stages] /\ 0 \in 0..Cardinality(Stages)
    BY StagesAssumption, FS_CardinalityType
  <2>2. QED
    BY <2>1 DEF Request, RequestType, Lists
<1>2. req' = [req EXCEPT ![r] = q]
  BY DEF LoadDelete
<1> HIDE DEF q
<1>3. req' \in [Reqs -> RequestType] /\ req'[r] = q /\ \A p \in Reqs \ {r} : req'[p] = req[p]
  BY <1>1, <1>2 DEF Inv, TypeOK
<1>4. Live' = Live /\ Held(r)' = {}
  <2>1. \A t \in Stages : holder[t] # None => At(holder[t], "reorder")
    BY DEF Inv, TypeOK
  <2>2. ~At(r, "reorder") /\ r # None
    BY NoneAssumption DEF LoadDelete, Fresh, Request, At
  <2>3. QED
    BY <2>1, <2>2 DEF LoadDelete, Live, Held
<1>5. TypeOK'
  <2>1. \A t \in Stages : holder[t] # None => holder[t] # r
    BY <1>4 DEF Held, LoadDelete
  <2>2. QED
    BY <1>3, <1>4, <2>1 DEF Inv, TypeOK, LoadDelete, At
<1>6. /\ \A p \in Reqs \ {r} : Course(p)' /\ (p \notin stale' => Reliance(p)')
      /\ PositionsDistinct'
  <2>1. stale \ {r} \subseteq stale' /\ UNCHANGED <<position, deleted, holder, torn>>
    BY DEF LoadDelete
  <2>2. ~At(r, "insert")'
    BY <1>1, <1>3 DEF At
  <2>3. QED
    BY <1>3, <2>1, <2>2, OthersKept
<1>7. Course(r)'
  BY <1>1, <1>3, <1>4 DEF Course, At, LoadDelete
<1>8. Reliance(r)'
  BY <1>1, <1>3 DEF Reliance, At
<1>9. QED
  BY <1>5, <1>6, <1>7, <1>8 DEF Inv

\* A request that has found more than one stage goes on to the DELETE.
LEMMA CountKeeps ==
    ASSUME Inv, NEW r \in Reqs, CountStages(r), Cardinality(Live) > 1
    PROVE  Inv'
<1> DEFINE q == Request("delete", req[r].s, 0, <<>>, 0)
<1>1. q \in RequestType /\ q.pc = "delete" /\ q.s = req[r].s
  <2>1. <<>> \in [1..0 -> Stages] /\ 0 \in 0..Cardinality(Stages)
    BY StagesAssumption, FS_CardinalityType
  <2>2. req[r].s \in Stages \cup {None}
    BY DEF Inv, TypeOK, RequestType
  <2>3. QED
    BY <2>1, <2>2 DEF Request, RequestType, Lists
<1>2. req' = [req EXCEPT ![r] = q]
  BY DEF CountStages
<1> HIDE DEF q
<1>3. req' \in [Reqs -> RequestType] /\ req'[r] = q /\ \A p \in Reqs \ {r} : req'[p] = req[p]
  BY <1>1, <1>2 DEF Inv, TypeOK
<1>4. Live' = Live /\ Held(r)' = {}
  <2>1. \A t \in Stages : holder[t] # None => At(holder[t], "reorder")
    BY DEF Inv, TypeOK
  <2>2. ~At(r, "reorder") /\ r # None
    BY NoneAssumption DEF CountStages, At
  <2>3. QED
    BY <2>1, <2>2 DEF CountStages, Live, Held
<1>5. TypeOK'
  <2>1. \A t \in Stages : holder[t] # None => holder[t] # r
    BY <1>4 DEF Held, CountStages
  <2>2. QED
    BY <1>3, <1>4, <2>1 DEF Inv, TypeOK, CountStages, At
<1>6. /\ \A p \in Reqs \ {r} : Course(p)' /\ (p \notin stale' => Reliance(p)')
      /\ PositionsDistinct'
  <2>1. stale \ {r} \subseteq stale' /\ UNCHANGED <<position, deleted, holder, torn>>
    BY DEF CountStages
  <2>2. ~At(r, "insert")'
    BY <1>1, <1>3 DEF At
  <2>3. QED
    BY <1>3, <2>1, <2>2, OthersKept
<1>7. Course(r)'
  <2>1. req[r].s \in Live \cup deleted
    BY DEF Inv, Course, CountStages, At
  <2>2. QED
    BY <1>1, <1>3, <1>4, <2>1 DEF Course, At, CountStages
<1>8. Reliance(r)'
  BY <1>1, <1>3, <1>4, TwoStages DEF Reliance, At
<1>9. QED
  BY <1>5, <1>6, <1>7, <1>8 DEF Inv

\* A request ends without a commit.
LEMMA LeaveKeeps ==
    ASSUME Inv, NEW r \in Reqs, Finish(r), UNCHANGED <<position, deleted, torn>>,
           Release(r), stale' \in SUBSET stale, stale \ {r} \subseteq stale'
    PROVE  Inv'
<1>1. /\ req' \in [Reqs -> RequestType]
      /\ \A q \in Reqs \ {r} : req'[q] = req[q]
      /\ req'[r].pc = "idle"
  BY FinishFacts DEF Inv, TypeOK
<1>2. /\ holder' \in [Stages -> Reqs \cup {None}]
      /\ \A s \in Stages : holder'[s] = IF holder[s] = r THEN None ELSE holder[s]
  BY DEF Release, Inv, TypeOK
<1>3. Live' = Live /\ Held(r)' = {}
  BY <1>2, NoneAssumption DEF Live, Held
<1>4. TypeOK'
  BY <1>1, <1>2, <1>3 DEF Inv, TypeOK, At
<1>5. /\ \A p \in Reqs \ {r} : Course(p)' /\ (p \notin stale' => Reliance(p)')
      /\ PositionsDistinct'
  <2>1. \A s \in Stages, q \in Reqs \ {r} : holder'[s] = q <=> holder[s] = q
    BY <1>2, NoneAssumption
  <2>2. ~At(r, "insert")'
    BY <1>1 DEF At
  <2>3. QED
    BY <1>1, <2>1, <2>2, OthersKept
<1>6. Course(r)' /\ Reliance(r)'
  BY <1>1, <1>3 DEF Course, Reliance, At
<1>7. QED
  BY <1>4, <1>5, <1>6 DEF Inv

LEMMA RefusedKeeps ==
    ASSUME Inv, NEW r \in Reqs, CountStages(r), ~(Cardinality(Live) > 1)
    PROVE  Inv'
<1>1. \A s \in Stages : holder[s] # r
  BY NoneAssumption DEF Inv, TypeOK, CountStages, At
<1>2. Release(r)
  BY <1>1 DEF Release, CountStages, Inv, TypeOK
<1>3. QED
  BY <1>2, LeaveKeeps DEF CountStages

\* The UPDATE of the next stage of a list.
LEMMA UpdateKeeps ==
    ASSUME Inv, NEW r \in Reqs, UpdatePosition(r)
    PROVE  Inv'
<1> DEFINE q == Request("reorder", None, 0, req[r].order, req[r].n + 1)
           u == Upcoming(r)
<1>1. /\ req[r].order \in [1..Len(req[r].order) -> Stages]
      /\ req[r].n \in Nat /\ Len(req[r].order) \in Nat /\ req[r].n < Len(req[r].order)
  BY DEF Inv, TypeOK, RequestType, Course, UpdatePosition, Setting
<1>2. u \in Stages /\ u = req[r].order[req[r].n + 1]
  BY <1>1 DEF Upcoming
<1>3. q \in RequestType /\ q.pc = "reorder" /\ q.order = req[r].order /\ q.n = req[r].n + 1
  BY <1>1 DEF Request, RequestType, Inv, TypeOK
<1>4. req' = [req EXCEPT ![r] = q]
  BY DEF UpdatePosition
<1>5. holder[u] = None /\ holder' = IF u \in Live THEN [holder EXCEPT ![u] = r] ELSE holder
  BY DEF UpdatePosition
<1> HIDE DEF q, u
<1>6. req' \in [Reqs -> RequestType] /\ req'[r] = q /\ \A p \in Reqs \ {r} : req'[p] = req[p]
  BY <1>3, <1>4 DEF Inv, TypeOK
<1>7. Live' = Live /\ At(r, "reorder")' /\ At(r, "reorder")
  BY <1>3, <1>6 DEF Live, UpdatePosition, At, Setting
<1>8. TypeOK'
  <2>1. holder' \in [Stages -> Reqs \cup {None}]
    BY <1>2, <1>5 DEF Inv, TypeOK
  <2>2. ASSUME NEW t \in Stages, holder'[t] # None PROVE t \in Live' /\ req'[holder'[t]].pc = "reorder"
    <3>1. CASE t = u /\ u \in Live
      BY <1>2, <1>5, <1>7, <3>1 DEF Inv, TypeOK, At
    <3>2. CASE ~(t = u /\ u \in Live)
      <4>1. holder'[t] = holder[t]
        BY <1>5, <3>2 DEF Inv, TypeOK
      <4>2. t \in Live /\ At(holder[t], "reorder") /\ holder[t] \in Reqs
        BY <2>2, <4>1 DEF Inv, TypeOK
      <4>3. QED
        BY <4>1, <4>2, <1>6, <1>7 DEF At
    <3>3. QED
      BY <3>1, <3>2
  <2>3. QED
    BY <1>6, <1>7, <2>1, <2>2 DEF Inv, TypeOK, UpdatePosition, At
<1>9. /\ \A p \in Reqs \ {r} : Course(p)' /\ (p \notin stale' => Reliance(p)')
      /\ PositionsDistinct'
  <2>1. \A s \in Stages, p \in Reqs \ {r} : holder'[s] = p <=> holder[s] = p
    BY <1>5, NoneAssumption DEF Inv, TypeOK
  <2>2. ~At(r, "insert")'
    BY <1>7 DEF At
  <2>3. UNCHANGED <<position, deleted, torn>> /\ stale \ {r} \subseteq stale'
    BY DEF UpdatePosition
  <2>4. QED
    BY <1>6, <2>1, <2>2, <2>3, OthersKept
<1>10. Course(r)'
  <2>1. ASSUME NEW s \in Held(r)' PROVE \E i \in 1..q.n : q.order[i] = s
    <3>1. s \in Stages /\ (holder[s] = r \/ s = u)
      BY <1>5, <2>1 DEF Held, Inv, TypeOK
    <3>2. CASE s = u
      BY <1>1, <1>2, <1>3, <3>2
    <3>3. CASE holder[s] = r
      <4>1. PICK i \in 1..req[r].n : req[r].order[i] = s
        BY <3>1, <3>3 DEF Inv, Course, Held
      <4>2. QED
        BY <1>1, <1>3, <4>1
    <3>4. QED
      BY <3>1, <3>2, <3>3
  <2>2. q.order \in [1..Len(q.order) -> Stages] /\ q.n <= Len(q.order)
    BY <1>1, <1>3
  <2>3. QED
    BY <1>3, <1>6, <2>1, <2>2 DEF Course, At
<1>11. r \notin stale' => Reliance(r)'
  <2>1. SUFFICES ASSUME r \notin stale PROVE Reliance(r)'
    BY DEF UpdatePosition
  <2>2. /\ Listed(req[r].order) = Live
        /\ Len(req[r].order) = Cardinality(Live)
        /\ \A i \in 1..req[r].n : holder[req[r].order[i]] = r
    BY <1>7, <2>1 DEF Inv, Reliance
  <2>3. u \in Live
    BY <1>1, <1>2, <2>2 DEF Listed
  <2>4. ASSUME NEW i \in 1..q.n PROVE holder'[q.order[i]] = r
    <3>1. CASE i = req[r].n + 1
      BY <1>2, <1>3, <1>5, <2>3, <3>1 DEF Inv, TypeOK
    <3>2. CASE i # req[r].n + 1
      <4>1. i \in 1..req[r].n /\ req[r].order[i] \in Stages
        BY <1>1, <1>3, <3>2
      <4>2. holder[req[r].order[i]] = r /\ r # None
        BY <2>2, <4>1, NoneAssumption
      <4>3. QED
        BY <1>3, <1>5, <4>1, <4>2 DEF Inv, TypeOK
    <3>3. QED
      BY <3>1, <3>2
  <2>5. QED
    BY <1>3, <1>6, <1>7, <2>2, <2>4 DEF Reliance, At, Listed
<1>12. QED
  BY <1>8, <1>9, <1>10, <1>11 DEF Inv

-----------------------------------------------------------------------------
(* The commits. *)

\* What a commit that ends the request and its writing keeps of the others: of a
\* request that it does not outdate, what that relies on.
LEMMA CommitKeeps ==
    ASSUME Inv, NEW r \in Reqs, Finish(r), Release(r),
           position' \in [Stages -> Nat], deleted' \in SUBSET Stages,
           stale' \in SUBSET Reqs, torn' \in BOOLEAN,
           Live \cup deleted \subseteq Live' \cup deleted', Live' \cap deleted' = {},
           \A s \in Stages : holder[s] \notin {None, r} => s \in Live',
           \A p \in Reqs \ {r} : At(p, "insert") => req[p].s \notin Live' \cup deleted',
           \A p \in Reqs \ {r} : p \notin stale' => Reliance(p)',
           PositionsDistinct'
    PROVE  Inv'
<1>1. /\ req' \in [Reqs -> RequestType]
      /\ \A q \in Reqs \ {r} : req'[q] = req[q]
      /\ req'[r].pc = "idle"
  BY FinishFacts DEF Inv, TypeOK
<1>2. /\ holder' \in [Stages -> Reqs \cup {None}]
      /\ \A s \in Stages : holder'[s] = IF holder[s] = r THEN None ELSE holder[s]
  BY DEF Release, Inv, TypeOK
<1>3. Held(r)' = {} /\ \A q \in Reqs \ {r} : Held(q)' = Held(q)
  BY <1>2, NoneAssumption DEF Held
<1>4. TypeOK'
  <2>1. ASSUME NEW s \in Stages, holder'[s] # None PROVE s \in Live' /\ req'[holder'[s]].pc = "reorder"
    <3>1. holder[s] \in Reqs \ {r} /\ holder'[s] = holder[s] /\ At(holder[s], "reorder")
      BY <1>2, <2>1 DEF Inv, TypeOK
    <3>2. QED
      BY <1>1, <3>1, NoneAssumption DEF At
  <2>2. QED
    BY <1>1, <1>2, <2>1 DEF TypeOK, At
<1>5. ASSUME NEW q \in Reqs \ {r} PROVE Course(q)'
  <2>1. req'[q] = req[q] /\ Held(q)' = Held(q) /\ Course(q)
    BY <1>1, <1>3 DEF Inv
  <2>2. ASSUME At(q, "insert"), NEW p \in Reqs \ {q}, At(p, "insert")' PROVE req'[p].s # req[q].s
    BY <1>1, <2>1, <2>2 DEF At, Course
  <2>3. At(q, "insert") => req[q].s \in Stages \ (Live' \cup deleted')
    BY <2>1 DEF Course
  <2>4. req[q].pc \in {"count", "delete"} => req[q].s \in Live' \cup deleted'
    BY <2>1 DEF Course
  <2>5. QED
    BY <2>1, <2>2, <2>3, <2>4 DEF Course, At
<1>6. Course(r)' /\ Reliance(r)'
  BY <1>1, <1>3 DEF Course, Reliance, At
<1>7. QED
  BY <1>4, <1>5, <1>6 DEF Inv

\* A request that is no reorder has written no row of another.
LEMMA NothingHeld ==
    ASSUME Inv, NEW r \in Reqs, ~At(r, "reorder"), UNCHANGED holder
    PROVE  Release(r)
<1>1. \A s \in Stages : holder[s] # r
  BY NoneAssumption DEF Inv, TypeOK
<1>2. QED
  BY <1>1 DEF Release, Inv, TypeOK

LEMMA CommitStageKeeps ==
    ASSUME Inv, NEW r \in Reqs, CommitStage(r)
    PROVE  Inv'
<1> DEFINE s == req[r].s
           at == req[r].at
<1>1. /\ s \in Stages \ (Live \cup deleted)
      /\ at \in Nat /\ at > 0
      /\ \A q \in Reqs \ {r} : At(q, "insert") => req[q].s # s
      /\ r \notin stale => ~torn /\ \A t \in Live : position[t] < at
  BY DEF Inv, TypeOK, RequestType, Course, Reliance, CommitStage
<1>2. position' = [position EXCEPT ![s] = at]
  BY DEF CommitStage
<1>3. \A p \in Reqs \ {r} : req'[p] = req[p]
  BY FinishFacts DEF CommitStage, Inv, TypeOK
<1>4. deleted' = deleted /\ torn' = (torn \/ r \in stale) /\ stale' \in SUBSET Reqs
  BY DEF CommitStage, Inv, TypeOK, In
<1> HIDE DEF s, at
<1>5. position' \in [Stages -> Nat] /\ Live' = Live \cup {s}
  BY <1>1, <1>2 DEF Inv, TypeOK, Live
<1>6. ASSUME NEW p \in Reqs \ {r}, p \notin stale' PROVE Reliance(p)'
  <2>1. ~At(p, "insert") /\ ~At(p, "reorder") /\ p \notin stale
    BY <1>6 DEF CommitStage, In, At
  <2>2. At(p, "delete") => \E t, u \in Live' : t # u
    BY <1>5, <2>1 DEF Inv, Reliance
  <2>3. QED
    BY <1>3, <2>1, <2>2 DEF Reliance, At
<1>7. PositionsDistinct'
  <2>1. SUFFICES ASSUME ~torn, r \notin stale PROVE Distinct(position')
    BY <1>4 DEF PositionsDistinct
  <2>2. Distinct(position) /\ \A t \in Live : position[t] < at
    BY <1>1, <2>1 DEF Inv, PositionsDistinct
  <2>3. ASSUME NEW t \in Stages, NEW u \in Stages, position'[t] # 0, position'[t] = position'[u]
        PROVE  u = t
    <3>1. CASE t # s /\ u # s
      BY <1>2, <2>2, <2>3, <3>1 DEF Distinct, Inv, TypeOK
    <3>2. CASE t = s /\ u # s
      BY <1>1, <1>2, <2>2, <2>3, <3>2 DEF Inv, TypeOK, Live
    <3>3. CASE t # s /\ u = s
      BY <1>1, <1>2, <2>2, <2>3, <3>3 DEF Inv, TypeOK, Live
    <3>4. QED
      BY <3>1, <3>2, <3>3
  <2>4. QED
    BY <2>3 DEF Distinct
<1>8. /\ \A p \in Reqs \ {r} : At(p, "insert") => req[p].s \notin Live' \cup deleted'
      /\ \A t \in Stages : holder[t] \notin {None, r} => t \in Live'
      /\ Live' \cap deleted' = {}
  BY <1>1, <1>4, <1>5 DEF Inv, TypeOK, Course
<1>9. Finish(r) /\ Release(r)
  BY NothingHeld DEF CommitStage, At
<1>10. deleted' \in SUBSET Stages /\ torn' \in BOOLEAN
  BY <1>4 DEF Inv, TypeOK
<1>11. QED
  BY <1>4, <1>5, <1>6, <1>7, <1>8, <1>9, <1>10, CommitKeeps

LEMMA DeleteKeeps ==
    ASSUME Inv, NEW r \in Reqs, DeleteStage(r)
    PROVE  Inv'
<1> DEFINE s == req[r].s
<1>1. s \in Live \cup deleted /\ s \in Stages /\ holder[s] = None
  BY DEF Inv, TypeOK, Course, DeleteStage, At, Live
<1>2. position' = [position EXCEPT ![s] = 0] /\ deleted' = deleted \cup {s} /\ torn' = torn
  BY DEF DeleteStage
<1>3. \A p \in Reqs \ {r} : req'[p] = req[p]
  BY FinishFacts DEF DeleteStage, Inv, TypeOK
<1>4. /\ stale' \in SUBSET Reqs
      /\ stale' = (IF s \in Live THEN stale \cup In({"reorder", "delete"}) ELSE stale) \ {r}
  BY DEF DeleteStage, Inv, TypeOK, In
<1> HIDE DEF s
<1>5. position' \in [Stages -> Nat] /\ Live' = Live \ {s}
  BY <1>1, <1>2 DEF Inv, TypeOK, Live
<1>6. ASSUME NEW p \in Reqs \ {r}, p \notin stale' PROVE Reliance(p)'
  <2>1. p \notin stale /\ Reliance(p) /\ (s \in Live => ~At(p, "reorder") /\ ~At(p, "delete"))
    BY <1>4, <1>6 DEF Inv, In, At
  <2>2. At(p, "insert") => ~torn' /\ \A t \in Live' : position'[t] < req[p].at
    BY <1>1, <1>2, <1>5, <2>1 DEF Reliance, Inv, TypeOK
  <2>3. CASE s \in Live
    BY <1>3, <2>1, <2>2, <2>3 DEF Reliance, At
  <2>4. CASE s \notin Live
    <3>1. Live' = Live /\ holder' = holder
      BY <1>5, <2>4 DEF DeleteStage
    <3>2. QED
      BY <1>3, <2>1, <2>2, <3>1 DEF Reliance, At, Listed
  <2>5. QED
    BY <2>3, <2>4
<1>7. PositionsDistinct'
  BY <1>1, <1>2 DEF Inv, TypeOK, PositionsDistinct, Distinct
<1>8. /\ \A p \in Reqs \ {r} : At(p, "insert") => req[p].s \notin Live' \cup deleted'
      /\ \A t \in Stages : holder[t] \notin {None, r} => t \in Live'
      /\ Live' \cap deleted' = {} /\ Live \cup deleted \subseteq Live' \cup deleted'
  BY <1>1, <1>2, <1>5 DEF Inv, TypeOK, Course
<1>9. Finish(r) /\ Release(r)
  BY NothingHeld DEF DeleteStage, At
<1>10. deleted' \in SUBSET Stages /\ torn' \in BOOLEAN
  BY <1>1, <1>2 DEF Inv, TypeOK
<1>11. QED
  BY <1>4, <1>5, <1>6, <1>7, <1>8, <1>9, <1>10, CommitKeeps

LEMMA CommitReorderKeeps ==
    ASSUME Inv, NEW r \in Reqs, CommitReorder(r)
    PROVE  Inv'
<1>1. /\ req[r].order \in [1..Len(req[r].order) -> Stages]
      /\ Len(req[r].order) \in Nat /\ req[r].n = Len(req[r].order)
  BY DEF Inv, TypeOK, RequestType, Course, CommitReorder
<1>2. ASSUME NEW t \in Held(r)
      PROVE  t \in Live /\ Index(r, t) \in 1..Len(req[r].order) /\ req[r].order[Index(r, t)] = t
  <2>1. \E i \in 1..Len(req[r].order) : req[r].order[i] = t
    BY <1>1, <1>2 DEF Inv, Course
  <2>2. t \in Live
    BY <1>2, NoneAssumption DEF Held, Inv, TypeOK
  <2>3. QED
    BY <2>1, <2>2 DEF Index
<1>3. position' = [t \in Stages |-> IF t \in Held(r) THEN Index(r, t) ELSE position[t]]
  BY DEF CommitReorder
<1>4. position' \in [Stages -> Nat] /\ Live' = Live
  BY <1>1, <1>2, <1>3 DEF Inv, TypeOK, Live
<1>5. /\ \A p \in Reqs \ {r} : req'[p] = req[p]
      /\ deleted' = deleted /\ torn' = (r \in stale)
      /\ \A t \in Stages : holder'[t] = IF holder[t] = r THEN None ELSE holder[t]
  BY FinishFacts DEF CommitReorder, Inv, TypeOK, Release
<1>6. stale' = (IF r \in stale THEN stale \cup In({"insert"}) ELSE stale) \ {r} /\ stale' \in SUBSET Reqs
  BY DEF CommitReorder, Inv, TypeOK, In
<1>7. ASSUME r \notin stale PROVE Held(r) = Live /\ Len(req[r].order) = Cardinality(Live)
  <2>1. /\ Listed(req[r].order) = Live
        /\ Len(req[r].order) = Cardinality(Live)
        /\ \A i \in 1..req[r].n : holder[req[r].order[i]] = r
    BY <1>7 DEF Inv, Reliance, CommitReorder
  <2>2. ASSUME NEW t \in Live PROVE t \in Held(r)
    <3>1. PICK i \in 1..Len(req[r].order) : req[r].order[i] = t
      BY <2>1, <2>2 DEF Listed
    <3>2. holder[t] = r
      BY <1>1, <2>1, <3>1
    <3>3. QED
      BY <2>2, <3>2 DEF Held, Live
  <2>3. QED
    BY <1>2, <2>1, <2>2
<1>8. ASSUME NEW p \in Reqs \ {r}, p \notin stale' PROVE Reliance(p)'
  <2>1. p \notin stale /\ Reliance(p) /\ Course(p) /\ (r \in stale => ~At(p, "insert"))
    BY <1>6, <1>8 DEF Inv, In, At
  <2>2. ASSUME At(p, "insert") PROVE ~torn' /\ \A t \in Live' : position'[t] < req[p].at
    <3>1. ~torn /\ r \notin stale /\ \A t \in Live : position[t] < req[p].at
      BY <2>1, <2>2 DEF Reliance
    <3>2. Distinct(position) /\ req[p].at \in Nat /\ req[p].at > 0
      BY <2>1, <2>2, <3>1 DEF Inv, PositionsDistinct, TypeOK, RequestType, Course
    <3>3. Cardinality(Live) < req[p].at
      BY <3>1, <3>2, FewerThanBound DEF Inv, TypeOK
    <3>4. ASSUME NEW t \in Live PROVE position'[t] < req[p].at
      <4>1. t \in Stages /\ t \in Held(r)
        BY <1>7, <3>1, <3>4 DEF Live
      <4>2. position'[t] \in 1..Cardinality(Live)
        BY <1>2, <1>3, <1>7, <3>1, <4>1
      <4>3. Cardinality(Live) \in Nat
        BY <1>1, <1>7, <3>1
      <4>4. QED
        BY <3>2, <3>3, <4>2, <4>3
    <3>5. QED
      BY <1>4, <1>5, <3>1, <3>4
  <2>3. ASSUME At(p, "reorder"), NEW i \in 1..req[p].n PROVE holder'[req[p].order[i]] = p
    <3>1. holder[req[p].order[i]] = p
      BY <2>1, <2>3 DEF Reliance
    <3>2. i \in 1..Len(req[p].order) /\ req[p].order[i] \in Stages
      BY <2>1, <2>3 DEF Course, Inv, TypeOK, RequestType
    <3>3. QED
      BY <1>5, <3>1, <3>2
  <2>4. QED
    BY <1>4, <1>5, <2>1, <2>2, <2>3 DEF Reliance, At, Listed
<1>9. PositionsDistinct'
  <2>1. SUFFICES ASSUME r \notin stale PROVE Distinct(position')
    BY <1>5 DEF PositionsDistinct
  <2>2. ASSUME NEW t \in Stages, NEW u \in Stages, position'[t] # 0, position'[t] = position'[u]
        PROVE  u = t
    <3>1. t \in Held(r) /\ u \in Held(r)
      BY <1>4, <1>7, <2>1, <2>2 DEF Live
    <3>2. Index(r, t) = Index(r, u)
      BY <1>3, <2>2, <3>1
    <3>3. QED
      BY <1>2, <3>1, <3>2
  <2>3. QED
    BY <2>2 DEF Distinct
<1>10. /\ \A p \in Reqs \ {r} : At(p, "insert") => req[p].s \notin Live' \cup deleted'
       /\ \A t \in Stages : holder[t] \notin {None, r} => t \in Live'
       /\ Live' \cap deleted' = {} /\ Live \cup deleted \subseteq Live' \cup deleted'
       /\ deleted' \in SUBSET Stages
  BY <1>4, <1>5 DEF Inv, TypeOK, Course
<1>11. Finish(r) /\ Release(r) /\ torn' \in BOOLEAN
  BY <1>5 DEF CommitReorder
<1>12. QED
  BY <1>4, <1>6, <1>8, <1>9, <1>10, <1>11, CommitKeeps

-----------------------------------------------------------------------------
(* The invariant. *)

LEMMA InitInv == Init => Inv
<1>1. SUFFICES ASSUME Init PROVE Inv
  OBVIOUS
<1>2. PICK list \in Orders(Seed) :
          position = [s \in Stages |-> IF s \in Seed THEN CHOOSE i \in 1..Len(list) : list[i] = s ELSE 0]
  BY <1>1 DEF Init
<1>3. IsFiniteSet(Seed) /\ Cardinality(Seed) \in Nat
  BY StagesAssumption, FS_Subset, FS_CardinalityType
<1>4. list \in [1..Cardinality(Seed) -> Seed] /\ Len(list) = Cardinality(Seed) /\ Listed(list) = Seed
  BY <1>3 DEF Orders
<1>5. ASSUME NEW s \in Seed
      PROVE  position[s] \in 1..Len(list) /\ list[position[s]] = s
  <2>1. \E i \in 1..Len(list) : list[i] = s
    BY <1>4 DEF Listed
  <2>2. position[s] = CHOOSE i \in 1..Len(list) : list[i] = s
    BY <1>2, StagesAssumption
  <2>3. QED
    BY <2>1, <2>2
<1>6. \A s \in Stages \ Seed : position[s] = 0
  BY <1>2
<1>7. position \in [Stages -> Nat] /\ Distinct(position)
  <2>1. \A s \in Stages : position[s] \in Nat
    BY <1>3, <1>4, <1>5, <1>6
  <2>2. position = [s \in Stages |-> position[s]]
    BY <1>2
  <2>3. position \in [Stages -> Nat]
    BY <2>1, <2>2
  <2>4. ASSUME NEW s \in Stages, NEW t \in Stages, position[s] # 0, position[s] = position[t]
        PROVE  s = t
    <3>1. s \in Seed /\ t \in Seed
      BY <1>6, <2>4
    <3>2. list[position[s]] = s /\ list[position[t]] = t
      BY <1>5, <3>1
    <3>3. QED
      BY <2>4, <3>2
  <2>5. QED
    BY <2>3, <2>4 DEF Distinct
<1>8. Fresh \in RequestType /\ Fresh.pc = "idle"
  <2>1. <<>> \in [1..0 -> Stages] /\ 0 \in 0..Cardinality(Stages)
    BY StagesAssumption, FS_CardinalityType
  <2>2. QED
    BY <2>1 DEF Fresh, Request, RequestType, Lists
<1>9. TypeOK
  BY <1>1, <1>7, <1>8 DEF Init, TypeOK
<1>10. ASSUME NEW r \in Reqs PROVE Course(r) /\ Reliance(r)
  <2>1. req[r].pc = "idle" /\ Held(r) = {}
    BY <1>1, <1>8, NoneAssumption DEF Init, Held
  <2>2. QED
    BY <2>1 DEF Course, Reliance, At
<1>11. QED
  BY <1>7, <1>9, <1>10 DEF Inv, PositionsDistinct

LEMMA NextInv == Inv /\ [Next]_vars => Inv'
<1> SUFFICES ASSUME Inv, [Next]_vars PROVE Inv'
  OBVIOUS
<1>1. ASSUME NEW r \in Reqs, NEW s \in Stages, InsertStage(r, s) PROVE Inv'
  BY <1>1, InsertKeeps
<1>2. ASSUME NEW r \in Reqs, NEW s \in Stages, LoadDelete(r, s) PROVE Inv'
  BY <1>2, LoadDeleteKeeps
<1>3. ASSUME NEW r \in Reqs, NEW order \in Orders(Live), LoadReorder(r, order) PROVE Inv'
  BY <1>3, LoadReorderKeeps
<1>4. ASSUME NEW r \in Reqs, CommitStage(r) PROVE Inv'
  BY <1>4, CommitStageKeeps
<1>5. ASSUME NEW r \in Reqs, UpdatePosition(r) PROVE Inv'
  BY <1>5, UpdateKeeps
<1>6. ASSUME NEW r \in Reqs, CommitReorder(r) PROVE Inv'
  BY <1>6, CommitReorderKeeps
<1>7. ASSUME NEW r \in Reqs, Deadlock(r) PROVE Inv'
  BY <1>7, LeaveKeeps DEF Deadlock
<1>8. ASSUME NEW r \in Reqs, CountStages(r) PROVE Inv'
  BY <1>8, CountKeeps, RefusedKeeps
<1>9. ASSUME NEW r \in Reqs, DeleteStage(r) PROVE Inv'
  BY <1>9, DeleteKeeps
<1>10. ASSUME NEW r \in Reqs, Abort(r) PROVE Inv'
  BY <1>10, LeaveKeeps DEF Abort
<1>11. CASE UNCHANGED vars
  <2>1. UNCHANGED <<position, deleted, holder, req, stale, torn>>
    BY <1>11 DEF vars
  <2>2. TypeOK'
    BY <2>1 DEF Inv, TypeOK, Live, At
  <2>3. ASSUME NEW r \in Reqs PROVE Course(r)'
    <3>1. Course(r)
      BY DEF Inv
    <3>2. QED
      BY <2>1, <3>1 DEF Course, At, Live, Held
  <2>4. ASSUME NEW r \in Reqs \ stale PROVE Reliance(r)'
    <3>1. Reliance(r)
      BY DEF Inv
    <3>2. QED
      BY <2>1, <3>1 DEF Reliance, At, Live, Listed
  <2>5. PositionsDistinct'
    BY <2>1 DEF Inv, PositionsDistinct, Distinct
  <2>6. QED
    BY <2>1, <2>2, <2>3, <2>4, <2>5 DEF Inv
<1>12. QED
  BY <1>1, <1>2, <1>3, <1>4, <1>5, <1>6, <1>7, <1>8, <1>9, <1>10, <1>11 DEF Next

LEMMA InvHolds == Spec => []Inv
<1>1. QED
  BY InitInv, NextInv, PTL DEF Spec

\* The type of the state, for any number of stages and requests: no deleted
\* stage comes back and no ended request keeps a row.
THEOREM TypeCorrect == Spec => []TypeOK
<1>1. Inv => TypeOK
  BY DEF Inv
<1>2. QED
  BY <1>1, InvHolds, PTL

\* The stages have different positions unless an outdated request was committed
\* after the last good reorder.
THEOREM PositionsDistinctSafe == Spec => []PositionsDistinct
<1>1. Inv => PositionsDistinct
  BY DEF Inv
<1>2. QED
  BY <1>1, InvHolds, PTL

\* The last stage goes only by a deletion that another deletion has outdated.
THEOREM LastStageByOverlapSafe == Spec => LastStageByOverlap
<1>1. ASSUME Inv, [Next]_vars, Live # {}, Live' = {}
      PROVE  \E r \in stale : At(r, "delete") /\ ~At(r, "delete")'
  <2>1. PICK t \in Live : position'[t] = 0 /\ t \in Stages /\ position[t] # 0
    BY <1>1 DEF Live
  <2>2. ASSUME NEW r \in Reqs, CommitStage(r) PROVE FALSE
    <3>1. req[r].s # t
      BY <2>1, <2>2, <1>1 DEF Inv, Course, CommitStage
    <3>2. QED
      BY <2>1, <2>2, <3>1 DEF CommitStage
  <2>3. ASSUME NEW r \in Reqs, CommitReorder(r) PROVE FALSE
    <3>1. Inv' /\ Live' = {}
      BY <1>1, <2>3, CommitReorderKeeps
    <3>2. t \in Held(r)
      BY <2>1, <2>3 DEF CommitReorder
    <3>3. Index(r, t) \in 1..Len(req[r].order) /\ position'[t] = Index(r, t)
      <4>1. \E i \in 1..Len(req[r].order) : req[r].order[i] = t
        BY <1>1, <2>3, <3>2 DEF Inv, Course, CommitReorder
      <4>2. QED
        BY <2>1, <2>3, <3>2, <4>1 DEF Index, CommitReorder
    <3>4. QED
      BY <2>1, <3>3
  <2>4. ASSUME NEW r \in Reqs, DeleteStage(r) PROVE r \in stale /\ At(r, "delete") /\ ~At(r, "delete")'
    <3>1. position' = [position EXCEPT ![req[r].s] = 0] /\ At(r, "delete")
      BY <2>4 DEF DeleteStage
    <3>2. \A u \in Live : u = req[r].s
      BY <1>1, <3>1 DEF Live, Inv, TypeOK
    <3>3. r \in stale
      BY <1>1, <3>1, <3>2 DEF Inv, Reliance
    <3>4. req'[r].pc = "idle"
      BY <1>1, <2>4, FinishFacts DEF DeleteStage, Inv, TypeOK
    <3>5. QED
      BY <3>1, <3>3, <3>4 DEF At
  <2>5. CASE UNCHANGED position
    BY <2>1, <2>5
  <2>6. QED
    BY <1>1, <2>2, <2>3, <2>4, <2>5
    DEF Next, vars, InsertStage, LoadDelete, LoadReorder, UpdatePosition, Deadlock, CountStages, Abort, Inv, TypeOK
<1>2. Inv /\ [Next]_vars => [Live # {} /\ Live' = {} => \E r \in stale : At(r, "delete") /\ ~At(r, "delete")']_vars
  BY <1>1
<1>3. QED
  BY <1>2, InvHolds, PTL DEF Spec, LastStageByOverlap

-----------------------------------------------------------------------------
(* Deadlocks.  Reorders that take the rows in one order cannot wait for     *)
(* each other in a circle: the one that waits for the row furthest down the *)
(* list waits for a row that another one has passed.                        *)

\* No stage is twice in the list.
Once(list) == \A i, j \in 1..Len(list) : list[i] = list[j] => i = j

ListsOnce == \A r \in Reqs : At(r, "reorder") => Once(req[r].order)

\* A list as long as the number of stages that names them all names each once.
LEMMA OrdersOnce == ASSUME NEW list \in Orders(Live) PROVE Once(list)
<1>1. IsFiniteSet(Live) /\ Cardinality(Live) \in Nat
  BY StagesAssumption, FS_Subset, FS_CardinalityType DEF Live
<1>2. /\ list \in [1..Cardinality(Live) -> Live] /\ Len(list) = Cardinality(Live)
      /\ \A s \in Live : \E i \in 1..Cardinality(Live) : list[i] = s
  BY <1>1 DEF Orders, Listed
<1>3. list \in Surjection(1..Cardinality(Live), Live)
  BY <1>2 DEF Surjection
<1>4. IsFiniteSet(1..Cardinality(Live)) /\ Cardinality(1..Cardinality(Live)) = Cardinality(Live)
  BY <1>1, FS_Interval
<1>5. list \in Injection(1..Cardinality(Live), Live)
  BY <1>3, <1>4, FS_SurjSameCardinalityImpliesInj
<1>6. QED
  BY <1>2, <1>5 DEF Injection, IsInjective, Once

\* No request has a list at the start.
LEMMA ListsOnceInit == Init => ListsOnce
<1>1. Fresh.pc # "reorder"
  BY DEF Fresh, Request
<1>2. QED
  BY <1>1 DEF Init, ListsOnce, At

\* Only the beginning of a reorder gives a request a list.
LEMMA ListsOnceNext == Inv /\ ListsOnce /\ [Next]_vars => ListsOnce'
<1> SUFFICES ASSUME Inv, ListsOnce, [Next]_vars PROVE ListsOnce'
  OBVIOUS
<1>0. req \in [Reqs -> RequestType] /\ \A pc, s, at, list, n : Request(pc, s, at, list, n).pc = pc
  BY DEF Inv, TypeOK, Request
<1>1. ASSUME NEW r \in Reqs, NEW q, req' = [req EXCEPT ![r] = q],
             q.pc = "reorder" => Once(q.order)
      PROVE  ListsOnce'
  BY <1>0, <1>1 DEF ListsOnce, At, Once
<1>2. ASSUME NEW r \in Reqs, NEW q, req' = [req EXCEPT ![r] = q], q.pc # "reorder"
      PROVE  ListsOnce'
  BY <1>1, <1>2
<1>3. ASSUME NEW r \in Reqs, Finish(r) PROVE ListsOnce'
  <2>1. Fresh.pc # "reorder"
    BY DEF Fresh, Request
  <2>2. QED
    BY <1>2, <1>3, <2>1 DEF Finish
<1>4. ASSUME NEW r \in Reqs, NEW s \in Stages, InsertStage(r, s) \/ LoadDelete(r, s) PROVE ListsOnce'
  BY <1>0, <1>2, <1>4 DEF InsertStage, LoadDelete
<1>5. ASSUME NEW r \in Reqs, NEW order \in Orders(Live), LoadReorder(r, order) PROVE ListsOnce'
  <2> DEFINE q == Request("reorder", None, 0, order, 0)
  <2>1. req' = [req EXCEPT ![r] = q] /\ q.order = order
    BY <1>5 DEF LoadReorder, Request
  <2> HIDE DEF q
  <2>2. QED
    BY <1>1, <2>1, OrdersOnce
<1>6. ASSUME NEW r \in Reqs, UpdatePosition(r) PROVE ListsOnce'
  <2> DEFINE q == Request("reorder", None, 0, req[r].order, req[r].n + 1)
  <2>1. req' = [req EXCEPT ![r] = q] /\ q.order = req[r].order
    BY <1>6 DEF UpdatePosition, Request
  <2>2. Once(req[r].order)
    BY <1>6 DEF UpdatePosition, Setting, ListsOnce
  <2> HIDE DEF q
  <2>3. QED
    BY <1>1, <2>1, <2>2
<1>7. ASSUME NEW r \in Reqs, CountStages(r) PROVE ListsOnce'
  BY <1>0, <1>2, <1>3, <1>7 DEF CountStages
<1>8. CASE UNCHANGED vars
  BY <1>8 DEF vars, ListsOnce, At, Once
<1>9. QED
  BY <1>3, <1>4, <1>5, <1>6, <1>7, <1>8
  DEF Next, CommitStage, CommitReorder, Deadlock, DeleteStage, Abort

\* Where a list without repetition names a stage, 0: nowhere.
Place(list) ==
    [s \in Stages |-> IF s \in Listed(list) THEN CHOOSE i \in 1..Len(list) : list[i] = s ELSE 0]

LEMMA PlaceFacts ==
    ASSUME NEW list, Once(list), Len(list) \in Nat, list \in [1..Len(list) -> Stages]
    PROVE  Place(list) \in [Stages -> Nat] /\ \A i \in 1..Len(list) : Place(list)[list[i]] = i
<1>1. ASSUME NEW i \in 1..Len(list) PROVE Place(list)[list[i]] = i
  <2> DEFINE s == list[i]
  <2>1. s \in Stages /\ s \in Listed(list)
    BY DEF Listed
  <2>2. (CHOOSE j \in 1..Len(list) : list[j] = s) = i
    BY DEF Once
  <2>3. QED
    BY <2>1, <2>2 DEF Place
<1>2. ASSUME NEW s \in Stages PROVE Place(list)[s] \in Nat
  <2>1. CASE s \in Listed(list)
    <3>1. PICK i \in 1..Len(list) : list[i] = s
      BY <2>1 DEF Listed
    <3>2. QED
      BY <1>1, <3>1
  <2>2. CASE s \notin Listed(list)
    BY <2>2 DEF Place
  <2>3. QED
    BY <2>1, <2>2
<1>3. QED
  BY <1>1, <1>2 DEF Place

\* A circle of reorders that all take the rows in one order has nobody in it.
LEMMA OneOrderNoCycle ==
    ASSUME Inv, ListsOnce, NEW S \in SUBSET Reqs, Cycle(S), S # {},
           NEW list, \A r \in S : req[r].order = list
    PROVE  FALSE
<1>1. ASSUME NEW r \in S
      PROVE  /\ Len(list) \in Nat /\ list \in [1..Len(list) -> Stages] /\ Once(list)
             /\ req[r].n \in Nat /\ req[r].n + 1 \in 1..Len(list)
             /\ Upcoming(r) = list[req[r].n + 1] /\ Upcoming(r) \in Stages
             /\ Blocks(r) \in S /\ holder[Upcoming(r)] = Blocks(r)
  <2>1. /\ r \in Reqs /\ At(r, "reorder") /\ req[r].n < Len(req[r].order) /\ req[r].order = list
        /\ Blocks(r) \in S /\ holder[Upcoming(r)] = Blocks(r)
    BY DEF Cycle, Waits, Setting, Blocks
  <2>2. Len(list) \in Nat /\ req[r].n \in Nat /\ list \in [1..Len(list) -> Stages] /\ Once(list)
    BY <2>1 DEF Inv, TypeOK, RequestType, Course, ListsOnce
  <2>3. QED
    BY <2>1, <2>2 DEF Upcoming
<1> DEFINE U == {Upcoming(r) : r \in S}
<1>2. PICK r \in S : \A q \in S : Place(list)[Upcoming(q)] <= Place(list)[Upcoming(r)]
  <2>1. U \in SUBSET Stages /\ U # {}
    BY <1>1
  <2>2. Place(list) \in [Stages -> Nat]
    BY <1>1, PlaceFacts
  <2>3. PICK m \in U : \A s \in U : Place(list)[s] <= Place(list)[m]
    <3> HIDE DEF U
    <3>1. QED
      BY <2>1, <2>2, Highest
  <2>4. QED
    BY <2>3
<1>3. PICK q \in S : q = Blocks(r) /\ holder[Upcoming(r)] = q
  BY <1>1
<1>4. PICK i \in 1..req[q].n : list[i] = Upcoming(r)
  <2>1. Upcoming(r) \in Held(q) /\ req[q].order = list
    BY <1>1, <1>3 DEF Held
  <2>2. QED
    BY <2>1 DEF Inv, Course
<1>5. i \in 1..Len(list) /\ i < req[q].n + 1
  BY <1>1, <1>4
<1>6. Place(list)[Upcoming(r)] = i /\ Place(list)[Upcoming(q)] = req[q].n + 1
  BY <1>1, <1>4, <1>5, PlaceFacts
<1>7. QED
  BY <1>1, <1>2, <1>5, <1>6

\* Reorders that wait for each other in a circle were given different orders.
DeadlockByOrders ==
    \A S \in SUBSET Reqs : S # {} /\ Cycle(S) => \E r, q \in S : req[r].order # req[q].order

\* PostgreSQL ends a reorder only when clients ask for different orders at the
\* same time: equal lists, such as a repeated request, never deadlock, and no
\* request waits for itself (service.py:397-407).
THEOREM DeadlockByOrdersSafe == Spec => []DeadlockByOrders
<1>1. Inv /\ ListsOnce => DeadlockByOrders
  <2>1. SUFFICES ASSUME Inv, ListsOnce, NEW S \in SUBSET Reqs, S # {}, Cycle(S),
                        \A r, q \in S : req[r].order = req[q].order
                 PROVE  FALSE
    BY DEF DeadlockByOrders
  <2>2. PICK p \in S : TRUE
    BY <2>1
  <2>3. \A r \in S : req[r].order = req[p].order
    BY <2>1, <2>2
  <2>4. QED
    BY <2>1, <2>3, OneOrderNoCycle
<1>2. QED
  BY <1>1, ListsOnceInit, ListsOnceNext, InvHolds, PTL DEF Spec

-----------------------------------------------------------------------------
(* Reorders and each other.  The rows are written one by one, and reorders  *)
(* do not outdate each other: each takes effect as a whole.                 *)

\* A reorder whose reading is up to date puts the stages in the order of its list.
ReorderTakes ==
    [][\A r \in Reqs \ stale : CommitReorder(r) =>
           /\ Live' = Listed(req[r].order)
           /\ \A i \in 1..Len(req[r].order) : position'[req[r].order[i]] = i]_vars

\* The board shows the order one client asked for, never some rows of one list
\* and some of another, whatever reorders overlap (service.py:391-411).
THEOREM ReorderTakesSafe == Spec => ReorderTakes
<1>1. ASSUME Inv, ListsOnce, NEW r \in Reqs \ stale, CommitReorder(r)
      PROVE  /\ Live' = Listed(req[r].order)
             /\ \A i \in 1..Len(req[r].order) : position'[req[r].order[i]] = i
  <2> DEFINE list == req[r].order
  <2>1. At(r, "reorder") /\ req[r].n = Len(list) /\ Len(list) \in Nat
    BY <1>1 DEF CommitReorder, Inv, TypeOK, RequestType
  <2>2. list \in [1..Len(list) -> Stages] /\ Listed(list) = Live
    BY <1>1, <2>1 DEF Inv, Course, Reliance
  <2>3. Once(list)
    BY <1>1, <2>1 DEF ListsOnce
  <2>4. \A i \in 1..Len(list) : holder[list[i]] = r
    BY <1>1, <2>1 DEF Inv, Reliance
  <2>5. ASSUME NEW i \in 1..Len(list)
        PROVE  list[i] \in Held(r) /\ Index(r, list[i]) = i
    <3>1. list[i] \in Held(r)
      BY <2>2, <2>4 DEF Held
    <3>2. \A j \in 1..Len(list) : list[j] = list[i] <=> j = i
      BY <2>3 DEF Once
    <3>3. QED
      BY <3>1, <3>2 DEF Index
  <2>6. position' = [s \in Stages |-> IF s \in Held(r) THEN Index(r, s) ELSE position[s]]
    BY <1>1 DEF CommitReorder
  <2> HIDE DEF list
  <2>7. \A i \in 1..Len(list) : position'[list[i]] = i
    BY <2>2, <2>5, <2>6
  <2>8. \A s \in Stages : s \notin Held(r) => position'[s] = position[s]
    BY <2>6
  <2>9. Live' = Listed(list)
    <3>1. \A s \in Live : position'[s] # 0
      BY <2>1, <2>2, <2>7 DEF Listed
    <3>2. Held(r) \subseteq Live
      BY <1>1, NoneAssumption DEF Inv, TypeOK, Held
    <3>3. \A s \in Stages \ Live : position'[s] = 0
      BY <2>8, <3>2 DEF Live
    <3>4. QED
      BY <2>2, <3>1, <3>3 DEF Live
  <2>10. QED
    BY <2>7, <2>9 DEF list
<1>2. Inv /\ ListsOnce /\ [Next]_vars =>
          [\A r \in Reqs \ stale : CommitReorder(r) =>
              /\ Live' = Listed(req[r].order)
              /\ \A i \in 1..Len(req[r].order) : position'[req[r].order[i]] = i]_vars
  BY <1>1
<1>3. Spec => [](Inv /\ ListsOnce)
  BY ListsOnceInit, ListsOnceNext, InvHolds, PTL DEF Spec
<1>4. QED
  BY <1>2, <1>3, PTL DEF Spec, ReorderTakes
=============================================================================
