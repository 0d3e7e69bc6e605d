------------------------------- MODULE Outbox -------------------------------
(***************************************************************************)
(* The e-mail outbox: enqueue, which a request calls inside its own        *)
(* transaction and which tries to deliver at once, and the workers that    *)
(* drain what is left (send_due_mail).  Delivering is a call to an SMTP    *)
(* server: it cannot be rolled back, while the rows that record it can.    *)
(*                                                                         *)
(* A worker reads a batch, delivers its messages one by one and marks each *)
(* one, all in one transaction: its marks are seen, and may be lost, as a  *)
(* whole.  Nothing keeps two workers from reading the same messages; the   *)
(* UPDATE of a row that another worker has marked waits for its commit.    *)
(***************************************************************************)
EXTENDS Integers, FiniteSets

CONSTANTS
    Messages,    \* messages to be written, numbered in the order of scheduled_at
    Unreadable,  \* those whose token the present data key does not decrypt
    Workers,     \* worker processes
    Limit,       \* size of a batch
    MaxAttempts, \* _MAX_ATTEMPTS
    None         \* absence of a message

ASSUME MessagesAssumption == Messages \subseteq Nat /\ Unreadable \subseteq Messages
ASSUME WorkersAssumption  == IsFiniteSet(Workers) /\ Workers # {}
ASSUME LimitsAssumption   == Limit \in Nat \ {0} /\ MaxAttempts \in Nat \ {0}
ASSUME NoneAssumption     == None \notin Messages

VARIABLES
    row,    \* email_outbox: state, whether sent_at is set, attempts
    mail,   \* deliveries of each message: 0, 1 or 2, which stands for more
    job,    \* what each worker is doing
    lost,   \* history: messages with a delivery that left no mark
    shared  \* history: messages that two workers had in their batches at once

vars == <<row, mail, job, lost, shared>>

\* The row of a message: "posted" by a running request, "stored" when that has
\* committed, "dropped" when it has not.
Row(state, sent, attempts) == [state |-> state, sent |-> sent, attempts |-> attempts]

\* A worker: where it is, its batch, what is left of it, the message it has
\* just tried, and the marks it has written so far.
Job(pc, batch, due, at, done, failed) ==
    [pc |-> pc, batch |-> batch, due |-> due, at |-> at, done |-> done, failed |-> failed]

Idle == Job("idle", {}, {}, None, {}, {})

Marked(w)  == job[w].done \cup job[w].failed
Stored(m)  == row[m].state = "stored"
Deliver(m) == mail' = [mail EXCEPT ![m] = IF @ = 0 THEN 1 ELSE 2]

Init ==
    /\ row = [m \in Messages |-> Row("absent", FALSE, 0)]
    /\ mail = [m \in Messages |-> 0]
    /\ job = [w \in Workers |-> Idle]
    /\ lost = {}
    /\ shared = {}

-----------------------------------------------------------------------------
(* Requests. *)

\* The row is inserted and the message delivered and marked, before the commit.
PostSent(m) ==
    /\ row[m].state = "absent"
    /\ row' = [row EXCEPT ![m] = Row("posted", TRUE, 0)]
    /\ Deliver(m)
    /\ UNCHANGED <<job, lost, shared>>

\* The delivery fails, perhaps after the server has taken the message.
PostFailed(m) ==
    /\ row[m].state = "absent"
    /\ row' = [row EXCEPT ![m] = Row("posted", FALSE, 1)]
    /\ \/ UNCHANGED <<mail, lost>>
       \/ Deliver(m) /\ lost' = lost \cup {m}
    /\ UNCHANGED <<job, shared>>

\* Mutant: the row of a failing request is left behind.
EndPostFailed(m) ==
    /\ row[m].state = "posted"
    /\ \E end \in {"stored", "failed"} :
          row' = [row EXCEPT ![m] = Row(end, @.sent, @.attempts)]
    /\ UNCHANGED <<mail, job, lost, shared>>

\* The request commits, or fails after its message has gone out.
EndPost(m) ==
    /\ row[m].state = "posted"
    /\ \E end \in {"stored", "dropped"} :
          row' = [row EXCEPT ![m] = Row(end, @.sent, @.attempts)]
    /\ UNCHANGED <<mail, job, lost, shared>>

-----------------------------------------------------------------------------
(* Workers. *)

\* Mutant: the comparison is off by one.
DueOneMore == {m \in Messages : Stored(m) /\ ~row[m].sent /\ row[m].attempts <= MaxAttempts}

\* Mutant: messages already sent are read as well.
DueSentToo == {m \in Messages : Stored(m) /\ row[m].attempts < MaxAttempts}

Due == {m \in Messages : Stored(m) /\ ~row[m].sent /\ row[m].attempts < MaxAttempts}

\* Mutant: the messages are read in any order.
IsBatchAnyOrder(S) ==
    /\ Cardinality(S) <= Limit
    /\ S = Due \/ Cardinality(S) = Limit

\* The oldest messages, at most Limit of them.
IsBatch(S) ==
    /\ Cardinality(S) <= Limit
    /\ S = Due \/ Cardinality(S) = Limit
    /\ \A m \in S, n \in Due \ S : m < n

Fetch(w) ==
    /\ job[w] = Idle
    /\ Due # {}
    /\ \E S \in SUBSET Due :
          /\ IsBatch(S)
          /\ job' = [job EXCEPT ![w] = Job("mail", S, S, None, {}, {})]
          /\ shared' = shared \cup UNION {S \cap job[v].batch : v \in Workers \ {w}}
    /\ UNCHANGED <<row, mail, lost>>

IsNext(w, m) ==
    /\ job[w].pc = "mail"
    /\ m \in job[w].due
    /\ \A n \in job[w].due : m <= n

Try(w, m, result) ==
    job' = [job EXCEPT ![w] = Job(result, @.batch, @.due, m, @.done, @.failed)]

\* The token is decrypted and the message handed to the server.
Send(w, m) ==
    /\ IsNext(w, m)
    /\ m \notin Unreadable
    /\ \/ Try(w, m, "mark_sent") /\ Deliver(m) /\ UNCHANGED lost
       \/ Try(w, m, "mark_failed") /\ UNCHANGED <<mail, lost>>
       \/ Try(w, m, "mark_failed") /\ Deliver(m) /\ lost' = lost \cup {m}
    /\ UNCHANGED <<row, shared>>

\* The UPDATE of the row, which waits for a worker that has marked it.
Mark(w, m) ==
    /\ job[w].at = m
    /\ \A v \in Workers \ {w} : m \notin Marked(v)
    /\ \/ /\ job[w].pc = "mark_sent"
          /\ job' = [job EXCEPT ![w] =
                 Job("mail", @.batch, @.due \ {m}, None, @.done \cup {m}, @.failed)]
       \/ /\ job[w].pc = "mark_failed"
          /\ job' = [job EXCEPT ![w] =
                 Job("mail", @.batch, @.due \ {m}, None, @.done, @.failed \cup {m})]
    /\ UNCHANGED <<row, mail, lost, shared>>

Commit(w) ==
    /\ job[w].pc = "mail"
    /\ job[w].due = {}
    /\ row' = [m \in Messages |->
           CASE m \in job[w].done   -> Row("stored", TRUE, row[m].attempts)
             [] m \in job[w].failed -> Row("stored", row[m].sent, row[m].attempts + 1)
             [] OTHER               -> row[m]]
    /\ job' = [job EXCEPT ![w] = Idle]
    /\ UNCHANGED <<mail, lost, shared>>

\* Deliveries that the worker has made and not yet committed.
Delivered(w) == job[w].done \cup {m \in {job[w].at} : job[w].pc = "mark_sent"}

\* The transaction is rolled back: the marks go, the deliveries stay.
Rollback(w) ==
    /\ job' = [job EXCEPT ![w] = Idle]
    /\ lost' = lost \cup Delivered(w)
    /\ UNCHANGED <<row, mail, shared>>

\* Decrypting is outside the try statement: its error ends the batch.
Raise(w, m) == IsNext(w, m) /\ m \in Unreadable /\ Rollback(w)

\* A crash, a restart, a lost connection.
Crash(w) == job[w] # Idle /\ Rollback(w)

-----------------------------------------------------------------------------

Next ==
    \/ \E m \in Messages : PostSent(m) \/ PostFailed(m) \/ EndPost(m)
    \/ \E w \in Workers : Fetch(w) \/ Commit(w) \/ Crash(w)
    \/ \E w \in Workers, m \in Messages : Send(w, m) \/ Mark(w, m) \/ Raise(w, m)

\* What a worker does, but for its failures.
Turn(w) ==
    \/ Fetch(w) \/ Commit(w)
    \/ \E m \in Messages : Send(w, m) \/ Mark(w, m) \/ Raise(w, m)

\* The batch is worked through, or ends with the error of an unreadable message.
EndBatch(w) == Commit(w) \/ \E m \in Messages : Raise(w, m)

\* The worker's loop goes on, and a worker that reads batches again and again does
\* not crash in all of them from some time on.
Fairness ==
    \A w \in Workers :
        /\ WF_vars(Turn(w))
        /\ []<><<Fetch(w)>>_vars => []<><<EndBatch(w)>>_vars

Spec == Init /\ [][Next]_vars /\ Fairness

-----------------------------------------------------------------------------
(* Properties. *)

JobType == [pc : {"idle", "mail", "mark_sent", "mark_failed"}, batch : SUBSET Messages,
            due : SUBSET Messages, at : Messages \cup {None},
            done : SUBSET Messages, failed : SUBSET Messages]

\* The type of the state.
TypeOK ==
    /\ row \in [Messages -> [state : {"absent", "posted", "stored", "dropped"},
                             sent : BOOLEAN, attempts : Nat]]
    /\ mail \in [Messages -> 0..2]
    /\ job \in [Workers -> JobType]
    /\ lost \subseteq Messages
    /\ shared \subseteq Messages

\* What is recorded as sent has gone out (outbox.py:124-135), and nothing goes
\* out twice but for two reasons: a delivery that left no mark, or two workers
\* that read the message at the same time (worker.py:25, 49).
SentOnce ==
    \A m \in Messages :
        /\ row[m].sent => mail[m] >= 1
        /\ mail[m] = 2 => m \in lost \cup shared

\* The failed attempts recorded of a message stay below _MAX_ATTEMPTS (outbox.py:98),
\* but for those of other workers that had read it before the last one was counted.
\* Deliveries that a crash or an unreadable message leaves without a mark are not
\* recorded: of these nothing bounds the number.
AttemptsUpToWorkers ==
    \A m \in Messages : row[m].attempts < MaxAttempts + Cardinality(Workers)

Ended(m) == row[m].sent \/ row[m].attempts >= MaxAttempts

\* An unreadable message is among those a worker reads next: whatever else is
\* delivered from that batch is not recorded.
Blocked == \E u \in Unreadable \cap Due : Cardinality({m \in Due : m < u}) < Limit

\* Of finitely many messages, sooner or later every one in the outbox is recorded as
\* sent or given up for good, unless from some time on a message that cannot be read
\* gets into every batch (worker.py:23-49).
EndsUnlessBlocked ==
    <>[](\A m \in Messages : Stored(m) => Ended(m)) \/ <>[]Blocked
=============================================================================
