------------------------------ MODULE History ------------------------------
(***************************************************************************)
(* What the histories of deals promise their readers, whatever requests    *)
(* overlap (PipelineService.deal_history): a deal is created in a stage    *)
(* with its first event, and every later event leads on from a stage where *)
(* the deal was while the request that moved it was at work.  The deal is  *)
(* where its last event says, until it is archived; events of requests     *)
(* that were at work then may still come in, the deal stays.               *)
(*                                                                         *)
(* Events are in the order of their commits.  A reader gets them in the    *)
(* order of occurred_at, the start of their transactions; "began" is how   *)
(* many events of the deal were committed at that time.                    *)
(***************************************************************************)
EXTENDS Naturals, Sequences

CONSTANTS
    Deals, Stages,
    None            \* no stage

VARIABLES
    stage,          \* the stage of each deal, None: there is no deal
    archived,       \* whether it is archived
    events          \* its history

vars == <<stage, archived, events>>

Event(from, to, began) == [from |-> from, to |-> to, began |-> began]

Init ==
    /\ stage = [d \in Deals |-> None]
    /\ archived = [d \in Deals |-> FALSE]
    /\ events = [d \in Deals |-> <<>>]

Create(d, s) ==
    /\ stage[d] = None
    /\ stage' = [stage EXCEPT ![d] = s]
    /\ events' = [events EXCEPT ![d] = <<Event(None, s, 0)>>]
    /\ UNCHANGED archived

\* A request that began after some events, and read the deal after at least
\* those: it was where the last event by then had brought it.
Record(d, s, began, read) ==
    events' = [events EXCEPT ![d] = Append(@, Event(events[d][read].to, s, began))]

Move(d, s) ==
    /\ \E read \in 1..Len(events[d]) : \E began \in 1..read : Record(d, s, began, read)
    /\ stage' = IF archived[d] THEN stage ELSE [stage EXCEPT ![d] = s]
    /\ UNCHANGED archived

Archive(d) ==
    /\ stage[d] # None
    /\ archived' = [archived EXCEPT ![d] = TRUE]
    /\ UNCHANGED <<stage, events>>

Next ==
    \E d \in Deals :
        \/ \E s \in Stages : Create(d, s) \/ Move(d, s)
        \/ Archive(d)

Spec == Init /\ [][Next]_vars
=============================================================================
