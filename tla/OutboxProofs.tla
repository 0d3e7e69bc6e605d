---------------------------- MODULE OutboxProofs ----------------------------
(***************************************************************************)
(* Safety of Outbox for every value of the constants: a message goes out   *)
(* twice only for one of two reasons, and the failed attempts recorded of  *)
(* it stay below what the limit and the number of workers allow.           *)
(*                                                                         *)
(* Neither property is inductive.  OutboxInv says in addition where the    *)
(* trace of a delivery is while its mark is not committed (MailTraced),    *)
(* that workers with a common message know of each other (SharedKnown),    *)
(* that a message recorded as sent is only in batches read before          *)
(* (SentShared), and it counts the workers that may still add an attempt   *)
(* (AttemptsLeft).  BatchDue and BatchWorked say what a batch is worth:    *)
(* its messages are still due, and each one will be marked.                *)
(***************************************************************************)
EXTENDS Outbox, FiniteSetTheorems, TLAPS

\* What a worker's transaction has done fits the batch it has read.
JobOK(w) ==
    /\ job[w].due \subseteq job[w].batch
    /\ Marked(w) \subseteq job[w].batch \ job[w].due
    /\ job[w].done \cap job[w].failed = {}
    /\ job[w].pc \in {"mark_sent", "mark_failed"} => job[w].at \in job[w].due
    /\ job[w].pc \in {"idle", "mail"} => job[w].at = None
    /\ \A m \in job[w].batch : Stored(m)
    /\ \A m \in Delivered(w) : mail[m] >= 1

\* A delivery has left its mark, or its worker is about to commit it.
MailTraced(m) ==
    mail[m] >= 1 /\ m \notin lost => row[m].sent \/ \E w \in Workers : m \in Delivered(w)

\* A message of two batches is recorded as such.
SharedKnown ==
    \A v, w \in Workers, m \in Messages :
        v # w /\ m \in job[v].batch /\ m \in job[w].batch => m \in shared

\* A worker has a message that is recorded as sent only if another one had it.
SentShared ==
    \A w \in Workers, m \in Messages :
        m \in job[w].batch /\ row[m].sent => m \in shared

\* A message that nobody has written yet has no trace.
AbsentClean(m) == row[m].state = "absent" => mail[m] = 0 /\ ~row[m].sent

\* The workers that may still add an attempt to a message.
Readers(m) == {w \in Workers : m \in job[w].batch}

AttemptsLeft ==
    \A m \in Messages :
        row[m].attempts + Cardinality(Readers(m)) < MaxAttempts + Cardinality(Workers)

OutboxInv ==
    /\ TypeOK
    /\ \A w \in Workers : JobOK(w)
    /\ \A m \in Messages : MailTraced(m) /\ AbsentClean(m)
    /\ SharedKnown
    /\ SentShared
    /\ SentOnce
    /\ AttemptsLeft

USE MessagesAssumption, LimitsAssumption, NoneAssumption

\* Sets of workers are finite and no larger than that of all workers.
LEMMA Count ==
    /\ Cardinality(Workers) \in Nat \ {0}
    /\ \A S \in SUBSET Workers : /\ Cardinality(S) \in Nat
                                 /\ Cardinality(S) <= Cardinality(Workers)
    /\ \A S \in SUBSET Workers, w \in Workers :
           w \in S => Cardinality(S \ {w}) + 1 = Cardinality(S)
<1>1. Cardinality(Workers) \in Nat /\ Cardinality(Workers) # 0
  BY WorkersAssumption, FS_CardinalityType, FS_EmptySet
<1>2. ASSUME NEW S \in SUBSET Workers
      PROVE  /\ IsFiniteSet(S) /\ Cardinality(S) \in Nat
             /\ Cardinality(S) <= Cardinality(Workers)
  BY WorkersAssumption, FS_Subset, FS_CardinalityType
<1>3. ASSUME NEW S \in SUBSET Workers, NEW w \in S
      PROVE  Cardinality(S \ {w}) + 1 = Cardinality(S)
  <2>1. Cardinality(S \ {w}) = Cardinality(S) - 1
    BY <1>2, FS_RemoveElement
  <2>2. QED
    BY <2>1, <1>2
<1>4. QED
  BY <1>1, <1>2, <1>3

\* The constructors are typed.
LEMMA Constructed ==
    /\ \A st \in {"absent", "posted", "stored", "dropped"}, b \in BOOLEAN, a \in Nat :
           Row(st, b, a) \in [state : {"absent", "posted", "stored", "dropped"},
                              sent : BOOLEAN, attempts : Nat]
    /\ \A pc \in {"idle", "mail", "mark_sent", "mark_failed"}, b, d \in SUBSET Messages,
          a \in Messages \cup {None}, y, z \in SUBSET Messages : Job(pc, b, d, a, y, z) \in JobType
    /\ Idle \in JobType
  BY DEF Row, Job, JobType, Idle

\* The fields of a worker's record.
LEMMA JobFields ==
    ASSUME NEW j \in JobType
    PROVE  /\ j.pc \in {"idle", "mail", "mark_sent", "mark_failed"}
           /\ j.batch \in SUBSET Messages /\ j.due \in SUBSET Messages
           /\ j.at \in Messages \cup {None}
           /\ j.done \in SUBSET Messages /\ j.failed \in SUBSET Messages
  BY DEF JobType

\* The invariant holds in an empty outbox.
LEMMA EmptyOutbox == Init => OutboxInv
<1> SUFFICES ASSUME Init PROVE OutboxInv
  OBVIOUS
<1>1. TypeOK
  <2>1. Row("absent", FALSE, 0) \in [state : {"absent", "posted", "stored", "dropped"},
                                     sent : BOOLEAN, attempts : Nat]
    BY Constructed
  <2>2. Idle \in JobType
    BY Constructed
  <2>3. job \in [Workers -> JobType] /\ mail \in [Messages -> 0..2]
    BY <2>2 DEF Init
  <2>4. row \in [Messages -> [state : {"absent", "posted", "stored", "dropped"},
                              sent : BOOLEAN, attempts : Nat]]
    BY <2>1 DEF Init
  <2>5. QED
    BY <2>3, <2>4 DEF Init, TypeOK
<1>2. \A w \in Workers : JobOK(w)
  BY DEF Init, JobOK, Idle, Job, Marked, Delivered
<1>3. \A m \in Messages : MailTraced(m) /\ AbsentClean(m)
  BY DEF Init, MailTraced, AbsentClean, Row
<1>4. SharedKnown /\ SentShared
  BY DEF Init, SharedKnown, SentShared, Idle, Job
<1>5. SentOnce
  BY DEF Init, SentOnce, Row
<1>6. AttemptsLeft
  <2>1. \A m \in Messages : Readers(m) = {}
    BY DEF Init, Readers, Idle, Job
  <2>2. QED
    BY <2>1, Count, FS_EmptySet DEF Init, AttemptsLeft, Row
<1>7. QED
  BY <1>1, <1>2, <1>3, <1>4, <1>5, <1>6 DEF OutboxInv

-----------------------------------------------------------------------------

\* A request posts a message that no worker sees, and sends it once at most.
LEMMA PostStep ==
    ASSUME OutboxInv, NEW m \in Messages, PostSent(m) \/ PostFailed(m)
    PROVE  OutboxInv'
<1> USE DEF OutboxInv
<1>1. PICK b \in BOOLEAN, a \in {0, 1} : row' = [row EXCEPT ![m] = Row("posted", b, a)]
  BY DEF PostSent, PostFailed
<1>2. /\ row'[m].state = "posted" /\ row'[m].sent = b /\ row'[m].attempts = a
      /\ \A n \in Messages \ {m} : row'[n] = row[n]
  BY <1>1 DEF TypeOK, Row
<1>3. /\ row[m].state = "absent" /\ mail[m] = 0 /\ UNCHANGED <<job, shared>>
      /\ \A n \in Messages \ {m} : mail'[n] = mail[n]
      /\ mail'[m] \in {0, 1} /\ mail' \in [Messages -> 0..2]
      /\ lost' \subseteq Messages /\ lost \subseteq lost' /\ lost' \subseteq lost \cup {m}
      /\ b => mail'[m] = 1
      /\ mail'[m] = 1 => b \/ m \in lost'
  <2>1. row[m].state = "absent" /\ mail[m] = 0 /\ UNCHANGED <<job, shared>>
    BY DEF PostSent, PostFailed, AbsentClean
  <2>2. CASE PostSent(m)
    <3>1. mail' = [mail EXCEPT ![m] = 1] /\ lost' = lost /\ b = TRUE
      BY <2>1, <2>2, <1>2 DEF PostSent, Deliver, TypeOK, Row
    <3>2. QED
      BY <2>1, <3>1 DEF TypeOK
  <2>3. CASE PostFailed(m)
    <3>1. b = FALSE
      BY <2>3, <1>2 DEF PostFailed, TypeOK, Row
    <3>2. \/ mail' = mail /\ lost' = lost
          \/ mail' = [mail EXCEPT ![m] = 1] /\ lost' = lost \cup {m}
      BY <2>1, <2>3 DEF PostFailed, Deliver
    <3>3. CASE mail' = mail /\ lost' = lost
      BY <2>1, <3>1, <3>3 DEF TypeOK
    <3>4. CASE mail' = [mail EXCEPT ![m] = 1] /\ lost' = lost \cup {m}
      BY <2>1, <3>1, <3>4 DEF TypeOK
    <3>5. QED
      BY <3>2, <3>3, <3>4
  <2>4. QED
    BY <2>2, <2>3
<1>4. \A w \in Workers : m \notin job[w].batch
  BY <1>3 DEF JobOK, Stored
<1>5. TypeOK'
  <2>1. Row("posted", b, a) \in [state : {"absent", "posted", "stored", "dropped"},
                                 sent : BOOLEAN, attempts : Nat]
    BY Constructed
  <2>2. QED
    BY <1>1, <1>3, <2>1 DEF TypeOK
<1>6. (\A w \in Workers : JobOK(w))'
  <2> SUFFICES ASSUME NEW w \in Workers PROVE JobOK(w)'
    OBVIOUS
  <2>1. JobOK(w) /\ job'[w] = job[w] /\ job[w] \in JobType
    BY <1>3 DEF TypeOK
  <2>2. \A n \in job[w].batch : n \in Messages \ {m}
    BY <2>1, <1>4 DEF JobType
  <2>3. (\A n \in job[w].batch : Stored(n))'
    BY <2>1, <2>2, <1>2 DEF JobOK, Stored
  <2>4. Delivered(w) \subseteq job[w].batch
    BY <2>1 DEF JobOK, Delivered, Marked
  <2>5. Delivered(w)' = Delivered(w)
    BY <2>1 DEF Delivered
  <2>6. (\A n \in Delivered(w) : mail[n] >= 1)'
    <3>1. \A n \in Delivered(w) : mail[n] >= 1 /\ n \in Messages \ {m}
      BY <2>1, <2>2, <2>4 DEF JobOK
    <3>2. QED
      BY <3>1, <2>5, <1>3
  <2>7. QED
    BY <2>1, <2>3, <2>6 DEF JobOK, Marked
<1>7. (\A n \in Messages : MailTraced(n) /\ AbsentClean(n))'
  <2>1. \A w \in Workers : Delivered(w)' = Delivered(w)
    BY <1>3 DEF Delivered
  <2>2. MailTraced(m)' /\ AbsentClean(m)'
    BY <1>2, <1>3 DEF MailTraced, AbsentClean
  <2>3. \A n \in Messages \ {m} : MailTraced(n)' /\ AbsentClean(n)'
    BY <1>2, <1>3, <2>1 DEF MailTraced, AbsentClean
  <2>4. QED
    BY <2>2, <2>3
<1>8. SharedKnown'
  BY <1>3 DEF SharedKnown
<1>9. SentShared'
  BY <1>2, <1>3, <1>4 DEF SentShared
<1>10. SentOnce'
  BY <1>2, <1>3 DEF SentOnce
<1>11. AttemptsLeft'
  <2>1. \A n \in Messages : Readers(n)' = Readers(n)
    BY <1>3 DEF Readers
  <2>2. Readers(m)' = {}
    BY <1>4, <2>1 DEF Readers
  <2>3. row'[m].attempts + Cardinality(Readers(m)') < MaxAttempts + Cardinality(Workers)
    BY <1>2, <2>2, Count, FS_EmptySet
  <2>4. QED
    BY <1>2, <2>1, <2>3 DEF AttemptsLeft
<1>12. QED
  BY <1>5, <1>6, <1>7, <1>8, <1>9, <1>10, <1>11

\* The end of the request shows the message to the workers, or takes it away.
LEMMA EndPostStep ==
    ASSUME OutboxInv, NEW m \in Messages, EndPost(m)
    PROVE  OutboxInv'
<1> USE DEF OutboxInv
<1>1. PICK end \in {"stored", "dropped"} :
          row' = [row EXCEPT ![m] = Row(end, row[m].sent, row[m].attempts)]
  BY DEF EndPost
<1>2. /\ \A n \in Messages : row'[n].sent = row[n].sent /\ row'[n].attempts = row[n].attempts
      /\ \A n \in Messages \ {m} : row'[n] = row[n]
      /\ row'[m].state = end
      /\ row[m].state = "posted" /\ UNCHANGED <<mail, job, lost, shared>>
  BY <1>1 DEF EndPost, TypeOK, Row
<1>3. TypeOK'
  BY <1>1, <1>2, Constructed DEF TypeOK
<1>4. (\A w \in Workers : JobOK(w))'
  <2> SUFFICES ASSUME NEW w \in Workers PROVE JobOK(w)'
    OBVIOUS
  <2>1. \A n \in job[w].batch : n \in Messages \ {m} /\ Stored(n)
    BY <1>2 DEF JobOK, Stored, TypeOK, JobType
  <2>2. (\A n \in job[w].batch : Stored(n))'
    BY <1>2, <2>1 DEF Stored
  <2>3. Marked(w)' = Marked(w) /\ Delivered(w)' = Delivered(w)
    BY <1>2 DEF Marked, Delivered
  <2>4. QED
    BY <1>2, <2>2, <2>3 DEF JobOK
<1>5. (\A n \in Messages : MailTraced(n) /\ AbsentClean(n))'
  <2>1. \A w \in Workers : Delivered(w)' = Delivered(w)
    BY <1>2 DEF Delivered
  <2>2. (\A n \in Messages : MailTraced(n))'
    BY <1>2, <2>1 DEF MailTraced
  <2>3. (\A n \in Messages : AbsentClean(n))'
    BY <1>2 DEF AbsentClean
  <2>4. QED
    BY <2>2, <2>3
<1>6. SharedKnown' /\ SentShared' /\ SentOnce'
  BY <1>2 DEF SharedKnown, SentShared, SentOnce
<1>7. AttemptsLeft'
  BY <1>2 DEF AttemptsLeft, Readers
<1>8. QED
  BY <1>3, <1>4, <1>5, <1>6, <1>7

-----------------------------------------------------------------------------

\* What a delivered message is in.
LEMMA DeliveredInBatch ==
    ASSUME TypeOK, NEW w \in Workers, JobOK(w)
    PROVE  /\ Delivered(w) \subseteq job[w].batch
           /\ job[w].batch \subseteq Messages
           /\ job[w].pc \in {"idle", "mail"} => Delivered(w) = job[w].done
  BY DEF TypeOK, JobType, JobOK, Delivered, Marked

\* The other workers do not notice a step of one of them.
LEMMA OtherWorkers ==
    ASSUME OutboxInv, NEW w \in Workers, NEW q \in JobType, job' = [job EXCEPT ![w] = q],
           mail' \in [Messages -> 0..2], \A m \in Messages : mail'[m] >= mail[m],
           \A m \in Messages : Stored(m) => Stored(m)'
    PROVE  /\ job'[w] = q
           /\ \A v \in Workers \ {w} :
                  job'[v] = job[v] /\ JobOK(v)' /\ Delivered(v)' = Delivered(v)
<1> USE DEF OutboxInv
<1>1. job'[w] = q /\ \A v \in Workers \ {w} : job'[v] = job[v]
  BY DEF TypeOK
<1>2. ASSUME NEW v \in Workers \ {w}
      PROVE  JobOK(v)' /\ Delivered(v)' = Delivered(v)
  <2>1. Delivered(v)' = Delivered(v)
    BY <1>1 DEF Delivered
  <2>2. Delivered(v) \subseteq Messages /\ job[v].batch \subseteq Messages
    BY DeliveredInBatch
  <2>3. \A m \in job[v].batch : Stored(m)
    BY DEF JobOK
  <2>4. (\A m \in job[v].batch : Stored(m))'
    BY <1>1, <2>2, <2>3
  <2>5. \A m \in Delivered(v) : mail[m] >= 1
    BY DEF JobOK
  <2>6. \A m \in Messages : mail[m] >= 1 => mail'[m] >= 1
    BY DEF TypeOK
  <2>7. (\A m \in Delivered(v) : mail[m] >= 1)'
    BY <2>1, <2>2, <2>5, <2>6
  <2>8. JobOK(v)
    OBVIOUS
  <2>9. QED
    BY <1>1, <2>1, <2>4, <2>7, <2>8 DEF JobOK, Marked
<1>3. QED
  BY <1>1, <1>2

\* As long as no batch grows and the rows stay, what is said of batches holds.
LEMMA BatchesKept ==
    ASSUME OutboxInv, TypeOK', UNCHANGED row, shared \subseteq shared',
           \A v \in Workers : job'[v].batch \subseteq job[v].batch
    PROVE  SharedKnown' /\ SentShared' /\ AttemptsLeft'
<1> USE DEF OutboxInv
<1>1. SharedKnown' /\ SentShared'
  BY DEF SharedKnown, SentShared
<1>2. ASSUME NEW m \in Messages
      PROVE  row'[m].attempts + Cardinality(Readers(m)') < MaxAttempts + Cardinality(Workers)
  <2>1. Readers(m)' \subseteq Readers(m) /\ Readers(m) \subseteq Workers
    BY DEF Readers
  <2>2. Cardinality(Readers(m)') <= Cardinality(Readers(m))
    BY <2>1, WorkersAssumption, FS_Subset
  <2>3. Cardinality(Readers(m)') \in Nat /\ Cardinality(Readers(m)) \in Nat
    BY <2>1, Count
  <2>4. row[m].attempts \in Nat
    BY DEF TypeOK
  <2>5. row[m].attempts + Cardinality(Readers(m)) < MaxAttempts + Cardinality(Workers)
    BY DEF AttemptsLeft
  <2>6. QED
    BY <2>2, <2>3, <2>4, <2>5, Count
<1>3. QED
  BY <1>1, <1>2 DEF AttemptsLeft

\* A new batch holds messages that wait to be sent.
LEMMA FetchStep ==
    ASSUME OutboxInv, NEW w \in Workers, Fetch(w)
    PROVE  OutboxInv'
<1> USE DEF OutboxInv
<1>1. PICK S \in SUBSET Due :
          /\ job' = [job EXCEPT ![w] = Job("mail", S, S, None, {}, {})]
          /\ shared' = shared \cup UNION {S \cap job[v].batch : v \in Workers \ {w}}
  BY DEF Fetch
<1> DEFINE q == Job("mail", S, S, None, {}, {})
<1>2. UNCHANGED <<row, mail, lost>> /\ job[w] = Idle /\ S \subseteq Messages
  BY <1>1 DEF Fetch, Due
<1>3. q \in JobType
  BY <1>2, Constructed
<1>4. /\ job'[w] = q
      /\ \A v \in Workers \ {w} :
             job'[v] = job[v] /\ JobOK(v)' /\ Delivered(v)' = Delivered(v)
  <2>1. mail' \in [Messages -> 0..2] /\ \A m \in Messages : mail'[m] >= mail[m]
    BY <1>2 DEF TypeOK
  <2>2. \A m \in Messages : Stored(m) => Stored(m)'
    BY <1>2 DEF Stored
  <2>3. QED
    BY <1>1, <1>3, <2>1, <2>2, OtherWorkers
<1>5. TypeOK'
  <2>1. shared' \subseteq Messages
    BY <1>1, <1>2 DEF TypeOK
  <2>2. job' \in [Workers -> JobType]
    BY <1>1, <1>3 DEF TypeOK
  <2>3. QED
    BY <1>2, <2>1, <2>2 DEF TypeOK
<1>6. (\A v \in Workers : JobOK(v))'
  <2>1. \A m \in S : Stored(m)'
    BY <1>2 DEF Due, Stored
  <2>2. JobOK(w)'
    BY <1>4, <2>1 DEF JobOK, Marked, Delivered, Job
  <2>3. QED
    BY <1>4, <2>2
<1>7. (\A m \in Messages : MailTraced(m) /\ AbsentClean(m))'
  <2>1. Delivered(w) = {}
    BY <1>2 DEF Delivered, Idle, Job
  <2>2. QED
    BY <1>2, <1>4, <2>1 DEF MailTraced, AbsentClean
<1>8. SharedKnown'
  <2> SUFFICES ASSUME NEW v \in Workers, NEW u \in Workers, NEW m \in Messages, v # u,
                      m \in job'[v].batch, m \in job'[u].batch
               PROVE  m \in shared'
    BY DEF SharedKnown
  <2>1. CASE v # w /\ u # w
    BY <2>1, <1>1, <1>4 DEF SharedKnown
  <2>2. CASE v = w
    <3>1. m \in S \cap job[u].batch /\ u \in Workers \ {w}
      BY <2>2, <1>4 DEF Job
    <3>2. QED
      BY <3>1, <1>1
  <2>3. CASE u = w
    <3>1. m \in S \cap job[v].batch /\ v \in Workers \ {w}
      BY <2>3, <1>4 DEF Job
    <3>2. QED
      BY <3>1, <1>1
  <2>4. QED
    BY <2>1, <2>2, <2>3
<1>9. SentShared'
  <2>1. \A m \in job'[w].batch : ~row'[m].sent
    <3>1. job'[w].batch = S
      BY <1>4 DEF Job
    <3>2. \A m \in S : ~row[m].sent
      BY DEF Due
    <3>3. QED
      BY <3>1, <3>2, <1>2
  <2>2. QED
    BY <1>1, <1>2, <1>4, <2>1 DEF SentShared
<1>10. SentOnce'
  BY <1>1, <1>2 DEF SentOnce
<1>11. AttemptsLeft'
  <2> SUFFICES ASSUME NEW m \in Messages
               PROVE  row'[m].attempts + Cardinality(Readers(m)')
                          < MaxAttempts + Cardinality(Workers)
    BY DEF AttemptsLeft
  <2>1. CASE m \in S
    <3>1. row'[m].attempts \in Nat /\ row'[m].attempts < MaxAttempts
      BY <2>1, <1>2 DEF Due, TypeOK
    <3>2. Readers(m)' \subseteq Workers
      BY DEF Readers
    <3>3. QED
      BY <3>1, <3>2, Count
  <2>2. CASE m \notin S
    <3>1. Readers(m)' = Readers(m)
      BY <2>2, <1>2, <1>4 DEF Readers, Job, Idle
    <3>2. QED
      BY <3>1, <1>2 DEF AttemptsLeft
  <2>3. QED
    BY <2>1, <2>2
<1>12. QED
  BY <1>5, <1>6, <1>7, <1>8, <1>9, <1>10, <1>11

\* Handing a message over leaves a trace of it at the worker, or in lost.
LEMMA SendStep ==
    ASSUME OutboxInv, NEW w \in Workers, NEW m \in Messages, Send(w, m)
    PROVE  OutboxInv'
<1> USE DEF OutboxInv
<1>1. PICK result \in {"mark_sent", "mark_failed"} :
          /\ Try(w, m, result)
          /\ \/ mail' = mail /\ lost' = lost /\ result = "mark_failed"
             \/ Deliver(m) /\ lost' = lost /\ result = "mark_sent"
             \/ Deliver(m) /\ lost' = lost \cup {m} /\ result = "mark_failed"
  BY DEF Send
<1> DEFINE j == job[w]
           q == Job(result, j.batch, j.due, m, j.done, j.failed)
<1>2. /\ job' = [job EXCEPT ![w] = q] /\ UNCHANGED <<row, shared>>
      /\ j.pc = "mail" /\ m \in j.due
  BY <1>1 DEF Try, Send, IsNext
<1>3. j \in JobType /\ JobOK(w)
  BY DEF TypeOK
<1>4. q \in JobType
  <2>1. /\ j.batch \in SUBSET Messages /\ j.due \in SUBSET Messages
        /\ j.done \in SUBSET Messages /\ j.failed \in SUBSET Messages
    BY <1>3, JobFields
  <2>2. result \in {"idle", "mail", "mark_sent", "mark_failed"} /\ m \in Messages \cup {None}
    OBVIOUS
  <2>3. QED
    BY <2>1, <2>2, Constructed
<1>5. /\ mail' \in [Messages -> 0..2] /\ \A n \in Messages : mail'[n] >= mail[n]
      /\ \A n \in Messages \ {m} : mail'[n] = mail[n]
      /\ result = "mark_sent" => mail'[m] >= 1
      /\ mail'[m] # mail[m] => result = "mark_sent" \/ m \in lost'
      /\ mail'[m] = 2 => mail[m] >= 1 \/ m \in lost'
      /\ lost \subseteq lost' /\ lost' \subseteq Messages
  <2>1. CASE mail' = mail /\ lost' = lost /\ result = "mark_failed"
    BY <2>1 DEF TypeOK
  <2>2. CASE Deliver(m) /\ lost' \in {lost, lost \cup {m}}
                        /\ (result = "mark_sent" \/ m \in lost')
    <3>1. mail' = [mail EXCEPT ![m] = IF mail[m] = 0 THEN 1 ELSE 2] /\ mail[m] \in 0..2
      BY <2>2 DEF TypeOK, Deliver
    <3>2. mail' \in [Messages -> 0..2] /\ \A n \in Messages \ {m} : mail'[n] = mail[n]
      BY <3>1 DEF TypeOK
    <3>3. mail'[m] >= 1 /\ mail'[m] >= mail[m] /\ (mail'[m] = 2 => mail[m] >= 1)
      BY <3>1 DEF TypeOK
    <3>4. \A n \in Messages : mail'[n] >= mail[n]
      BY <3>2, <3>3 DEF TypeOK
    <3>5. QED
      BY <2>2, <3>2, <3>3, <3>4 DEF TypeOK
  <2>3. QED
    BY <1>1, <2>1, <2>2
<1>6. /\ job'[w] = q
      /\ \A v \in Workers \ {w} :
             job'[v] = job[v] /\ JobOK(v)' /\ Delivered(v)' = Delivered(v)
  <2>1. \A n \in Messages : Stored(n) => Stored(n)'
    BY <1>2 DEF Stored
  <2>2. QED
    BY <1>2, <1>4, <1>5, <2>1, OtherWorkers
<1>7. /\ j.batch = q.batch /\ j.due = q.due /\ j.done = q.done /\ j.failed = q.failed
      /\ q.pc = result /\ q.at = m
  BY DEF Job
<1>8. /\ Delivered(w) = j.done
      /\ Delivered(w)' = j.done \cup {n \in {m} : result = "mark_sent"}
  BY <1>2, <1>3, <1>6, <1>7, DeliveredInBatch DEF Delivered
<1>9. TypeOK'
  BY <1>2, <1>4, <1>5 DEF TypeOK
<1>10. (\A v \in Workers : JobOK(v))'
  <2>1. (\A n \in job[w].batch : Stored(n))'
    BY <1>2, <1>3, <1>6, <1>7 DEF JobOK, Stored
  <2>2. (\A n \in Delivered(w) : mail[n] >= 1)'
    <3>1. \A n \in j.done : mail[n] >= 1 /\ n \in Messages
      BY <1>3, <1>8, DeliveredInBatch DEF JobOK
    <3>2. \A n \in Messages : mail[n] >= 1 => mail'[n] >= 1
      BY <1>5 DEF TypeOK
    <3>3. Delivered(w)' = j.done \/ (Delivered(w)' = j.done \cup {m} /\ result = "mark_sent")
      BY <1>8
    <3>4. QED
      BY <1>5, <3>1, <3>2, <3>3
  <2>3. Marked(w)' = Marked(w)
    BY <1>6, <1>7 DEF Marked
  <2>4. JobOK(w)'
    <3>1. /\ job'[w].batch = j.batch /\ job'[w].due = j.due /\ job'[w].done = j.done
          /\ job'[w].failed = j.failed /\ job'[w].pc = result /\ job'[w].at = m
      BY <1>6, <1>7
    <3>2. result \notin {"idle", "mail"}
      BY <1>1
    <3>3. QED
      BY <1>2, <1>3, <2>1, <2>2, <2>3, <3>1, <3>2 DEF JobOK
  <2>5. QED
    BY <1>6, <2>4
<1>11. (\A n \in Messages : MailTraced(n) /\ AbsentClean(n))'
  <2>1. \A v \in Workers : Delivered(v) \subseteq Delivered(v)'
    BY <1>6, <1>8
  <2>2. Stored(m)
    BY <1>2, <1>3 DEF JobOK
  <2>3. (\A n \in Messages : AbsentClean(n))'
    BY <1>2, <1>5, <2>2 DEF AbsentClean, Stored
  <2>4. \A n \in Messages \ {m} : MailTraced(n)'
    BY <1>2, <1>5, <2>1 DEF MailTraced
  <2>5. MailTraced(m)'
    <3>1. CASE mail'[m] = mail[m]
      BY <1>2, <1>5, <2>1, <3>1 DEF MailTraced
    <3>2. CASE result = "mark_sent"
      BY <1>8, <3>2 DEF MailTraced
    <3>3. QED
      BY <1>5, <3>1, <3>2 DEF MailTraced
  <2>6. QED
    BY <2>3, <2>4, <2>5
<1>12. SharedKnown' /\ SentShared' /\ AttemptsLeft'
  <2>1. \A v \in Workers : job'[v].batch = job[v].batch
    BY <1>6, <1>7
  <2>2. QED
    BY <1>2, <1>9, <2>1, BatchesKept
<1>13. SentOnce'
  <2>1. mail[m] >= 1 => m \in lost \cup shared
    <3> SUFFICES ASSUME mail[m] >= 1, m \notin lost PROVE m \in shared
      OBVIOUS
    <3>1. m \in j.batch /\ m \notin Delivered(w)
      BY <1>2, <1>3, <1>8 DEF JobOK, Marked
    <3>2. CASE row[m].sent
      BY <3>1, <3>2 DEF SentShared
    <3>3. CASE \E v \in Workers : m \in Delivered(v)
      <4>1. PICK v \in Workers \ {w} : m \in Delivered(v)
        BY <3>1, <3>3
      <4>2. m \in job[v].batch
        BY <4>1, DeliveredInBatch
      <4>3. QED
        BY <3>1, <4>2 DEF SharedKnown
    <3>4. QED
      BY <3>2, <3>3 DEF MailTraced
  <2>2. \A n \in Messages : row'[n].sent => mail'[n] >= 1
    BY <1>2, <1>5 DEF SentOnce, TypeOK
  <2>3. \A n \in Messages : mail'[n] = 2 => n \in lost' \cup shared'
    BY <1>2, <1>5, <2>1 DEF SentOnce
  <2>4. QED
    BY <2>2, <2>3 DEF SentOnce
<1>14. QED
  BY <1>9, <1>10, <1>11, <1>12, <1>13

\* Marking a message moves its trace from the message just tried to the marks.
LEMMA MarkStep ==
    ASSUME OutboxInv, NEW w \in Workers, NEW m \in Messages, Mark(w, m)
    PROVE  OutboxInv'
<1> USE DEF OutboxInv
<1> DEFINE j == job[w]
<1>1. j \in JobType /\ JobOK(w)
  BY DEF TypeOK
<1>2. UNCHANGED <<row, mail, lost, shared>> /\ j.at = m
  BY DEF Mark
<1>3. PICK done \in SUBSET Messages, failed \in SUBSET Messages :
          /\ job' = [job EXCEPT ![w] = Job("mail", j.batch, j.due \ {m}, None, done, failed)]
          /\ \/ j.pc = "mark_sent" /\ done = j.done \cup {m} /\ failed = j.failed
             \/ j.pc = "mark_failed" /\ done = j.done /\ failed = j.failed \cup {m}
  BY <1>1 DEF Mark, JobType
<1> DEFINE q == Job("mail", j.batch, j.due \ {m}, None, done, failed)
<1>4. q \in JobType
  <2>1. j.batch \in SUBSET Messages /\ j.due \ {m} \in SUBSET Messages
    BY <1>1, JobFields
  <2>2. QED
    BY <2>1, Constructed
<1>5. /\ job'[w] = q
      /\ \A v \in Workers \ {w} :
             job'[v] = job[v] /\ JobOK(v)' /\ Delivered(v)' = Delivered(v)
  <2>1. mail' \in [Messages -> 0..2] /\ \A n \in Messages : mail'[n] >= mail[n]
    BY <1>2 DEF TypeOK
  <2>2. \A n \in Messages : Stored(n) => Stored(n)'
    BY <1>2 DEF Stored
  <2>3. QED
    BY <1>3, <1>4, <2>1, <2>2, OtherWorkers
<1>6. /\ q.batch = j.batch /\ q.due = j.due \ {m} /\ q.at = None /\ q.pc = "mail"
      /\ q.done = done /\ q.failed = failed
  BY DEF Job
<1>7. Delivered(w)' = done /\ Delivered(w) = done
  BY <1>2, <1>3, <1>5, <1>6 DEF Delivered
<1>8. TypeOK'
  BY <1>2, <1>3, <1>4 DEF TypeOK
<1>9. (\A v \in Workers : JobOK(v))'
  <2>1. m \in j.due
    BY <1>1, <1>2, <1>3 DEF JobOK
  <2>2. (\A n \in job[w].batch : Stored(n))'
    BY <1>1, <1>2, <1>5, <1>6 DEF JobOK, Stored
  <2>3. (\A n \in Delivered(w) : mail[n] >= 1)'
    BY <1>1, <1>2, <1>7 DEF JobOK
  <2>4. /\ q.due \subseteq q.batch /\ done \cap failed = {}
        /\ done \cup failed \subseteq q.batch \ q.due
    <3>1. /\ j.due \subseteq j.batch /\ j.done \cap j.failed = {}
          /\ j.done \cup j.failed \subseteq j.batch \ j.due
      BY <1>1 DEF JobOK, Marked
    <3>2. \/ done = j.done \cup {m} /\ failed = j.failed
          \/ done = j.done /\ failed = j.failed \cup {m}
      BY <1>3
    <3> HIDE DEF j, q
    <3>3. \A n \in done \cup failed : n = m \/ n \in j.done \cup j.failed
      BY <3>2
    <3>4. m \notin j.done /\ m \notin j.failed /\ m \in j.batch
      BY <2>1, <3>1
    <3>5. done \cup failed \subseteq j.batch \ (j.due \ {m})
      BY <3>1, <3>3, <3>4
    <3>6. done \cap failed = {}
      BY <3>1, <3>2, <3>4
    <3>7. QED
      BY <1>6, <3>1, <3>5, <3>6
  <2>5. JobOK(w)'
    BY <1>5, <1>6, <2>2, <2>3, <2>4 DEF JobOK, Marked
  <2>6. QED
    BY <1>5, <2>5
<1>10. (\A n \in Messages : MailTraced(n) /\ AbsentClean(n))'
  <2>1. \A v \in Workers : Delivered(v)' = Delivered(v)
    BY <1>5, <1>7
  <2>2. QED
    BY <1>2, <2>1 DEF MailTraced, AbsentClean
<1>11. SharedKnown' /\ SentShared' /\ AttemptsLeft'
  <2>1. \A v \in Workers : job'[v].batch = job[v].batch
    BY <1>5, <1>6
  <2>2. QED
    BY <1>2, <1>8, <2>1, BatchesKept
<1>12. SentOnce'
  BY <1>2 DEF SentOnce
<1>13. QED
  BY <1>8, <1>9, <1>10, <1>11, <1>12

\* A worker that gives up leaves the traces of its deliveries in lost.
LEMMA RollbackStep ==
    ASSUME OutboxInv, NEW w \in Workers, Rollback(w)
    PROVE  OutboxInv'
<1> USE DEF OutboxInv
<1>1. /\ job' = [job EXCEPT ![w] = Idle] /\ UNCHANGED <<row, mail, shared>>
      /\ lost' = lost \cup Delivered(w)
  BY DEF Rollback
<1>2. /\ job'[w] = Idle
      /\ \A v \in Workers \ {w} :
             job'[v] = job[v] /\ JobOK(v)' /\ Delivered(v)' = Delivered(v)
  <2>1. mail' \in [Messages -> 0..2] /\ \A n \in Messages : mail'[n] >= mail[n]
    BY <1>1 DEF TypeOK
  <2>2. \A n \in Messages : Stored(n) => Stored(n)'
    BY <1>1 DEF Stored
  <2>3. QED
    BY <1>1, <2>1, <2>2, OtherWorkers, Constructed
<1>3. TypeOK'
  <2>1. job' \in [Workers -> JobType]
    BY <1>1, Constructed DEF TypeOK
  <2>2. lost' \subseteq Messages
    BY <1>1, DeliveredInBatch DEF TypeOK
  <2>3. QED
    BY <1>1, <2>1, <2>2 DEF TypeOK
<1>4. (\A v \in Workers : JobOK(v))'
  <2>1. JobOK(w)'
    BY <1>2 DEF JobOK, Idle, Job, Marked, Delivered
  <2>2. QED
    BY <1>2, <2>1
<1>5. (\A m \in Messages : MailTraced(m) /\ AbsentClean(m))'
  BY <1>1, <1>2 DEF MailTraced, AbsentClean
<1>6. SharedKnown' /\ SentShared' /\ AttemptsLeft'
  <2>1. \A v \in Workers : job'[v].batch \subseteq job[v].batch
    BY <1>2 DEF Idle, Job
  <2>2. QED
    BY <1>1, <1>3, <2>1, BatchesKept
<1>7. SentOnce'
  BY <1>1 DEF SentOnce
<1>8. QED
  BY <1>3, <1>4, <1>5, <1>6, <1>7

\* A commit turns the traces at the worker into what is recorded as sent, and
\* counts an attempt for which the worker no longer counts as a reader.
LEMMA CommitStep ==
    ASSUME OutboxInv, NEW w \in Workers, Commit(w)
    PROVE  OutboxInv'
<1> USE DEF OutboxInv
<1> DEFINE j == job[w]
<1>1. /\ job' = [job EXCEPT ![w] = Idle] /\ UNCHANGED <<mail, lost, shared>>
      /\ j.pc = "mail"
  BY DEF Commit
<1>2. /\ j \in JobType /\ JobOK(w)
      /\ Delivered(w) = j.done /\ j.batch \subseteq Messages
      /\ j.done \subseteq j.batch /\ j.failed \subseteq j.batch /\ j.done \cap j.failed = {}
  BY <1>1, DeliveredInBatch DEF TypeOK, JobOK, Marked
<1>3. ASSUME NEW m \in Messages
      PROVE  /\ row'[m].state = row[m].state
             /\ row'[m].sent <=> row[m].sent \/ m \in j.done
             /\ m \in j.failed => row'[m].attempts = row[m].attempts + 1
             /\ m \notin j.failed => row'[m].attempts = row[m].attempts
             /\ row'[m] \in [state : {"absent", "posted", "stored", "dropped"},
                             sent : BOOLEAN, attempts : Nat]
  <2>1. row'[m] = CASE m \in j.done   -> Row("stored", TRUE, row[m].attempts)
                    [] m \in j.failed -> Row("stored", row[m].sent, row[m].attempts + 1)
                    [] OTHER          -> row[m]
    BY DEF Commit
  <2>2. row[m] \in [state : {"absent", "posted", "stored", "dropped"},
                    sent : BOOLEAN, attempts : Nat]
    BY DEF TypeOK
  <2>3. m \in j.batch => row[m].state = "stored"
    BY <1>2 DEF JobOK, Stored
  <2>4. CASE m \in j.done
    <3>1. row'[m] = [state |-> "stored", sent |-> TRUE, attempts |-> row[m].attempts]
      BY <1>2, <2>1, <2>4 DEF Row
    <3>2. m \notin j.failed /\ row[m].state = "stored"
      BY <1>2, <2>3, <2>4
    <3>3. QED
      BY <2>2, <2>4, <3>1, <3>2
  <2>5. CASE m \in j.failed
    <3>1. m \notin j.done /\ row[m].state = "stored"
      BY <1>2, <2>3, <2>5
    <3>2. row'[m] = [state |-> "stored", sent |-> row[m].sent,
                     attempts |-> row[m].attempts + 1]
      BY <2>1, <2>5, <3>1 DEF Row
    <3>3. QED
      BY <2>2, <2>5, <3>1, <3>2
  <2>6. CASE m \notin j.done \cup j.failed
    BY <2>1, <2>2, <2>6
  <2>7. QED
    BY <2>4, <2>5, <2>6
<1>4. /\ job'[w] = Idle
      /\ \A v \in Workers \ {w} :
             job'[v] = job[v] /\ JobOK(v)' /\ Delivered(v)' = Delivered(v)
  <2>1. mail' \in [Messages -> 0..2] /\ \A n \in Messages : mail'[n] >= mail[n]
    BY <1>1 DEF TypeOK
  <2>2. \A n \in Messages : Stored(n) => Stored(n)'
    BY <1>3 DEF Stored
  <2>3. QED
    BY <1>1, <2>1, <2>2, OtherWorkers, Constructed
<1>5. TypeOK'
  <2>1. row' \in [Messages -> [state : {"absent", "posted", "stored", "dropped"},
                               sent : BOOLEAN, attempts : Nat]]
    <3>1. DOMAIN row' = Messages /\ row' = [m \in Messages |-> row'[m]]
      BY DEF Commit
    <3>2. QED
      BY <3>1, <1>3
  <2>2. job' \in [Workers -> JobType]
    BY <1>1, Constructed DEF TypeOK
  <2>3. QED
    BY <1>1, <2>1, <2>2 DEF TypeOK
<1>6. (\A v \in Workers : JobOK(v))'
  <2>1. JobOK(w)'
    BY <1>4 DEF JobOK, Idle, Job, Marked, Delivered
  <2>2. QED
    BY <1>4, <2>1
<1>7. (\A m \in Messages : MailTraced(m) /\ AbsentClean(m))'
  <2> SUFFICES ASSUME NEW m \in Messages PROVE MailTraced(m)' /\ AbsentClean(m)'
    OBVIOUS
  <2>1. MailTraced(m)'
    BY <1>1, <1>2, <1>3, <1>4 DEF MailTraced
  <2>2. m \in j.done => row[m].state = "stored"
    BY <1>2 DEF JobOK, Stored
  <2>3. QED
    BY <1>1, <1>3, <2>1, <2>2 DEF AbsentClean
<1>8. SharedKnown'
  BY <1>1, <1>4 DEF SharedKnown, Idle, Job
<1>9. SentShared'
  <2> SUFFICES ASSUME NEW v \in Workers, NEW m \in Messages,
                      m \in job'[v].batch, row'[m].sent
               PROVE  m \in shared'
    BY DEF SentShared
  <2>1. v # w /\ m \in job[v].batch
    BY <1>4 DEF Idle, Job
  <2>2. CASE row[m].sent
    BY <1>1, <2>1, <2>2 DEF SentShared
  <2>3. CASE m \in j.done
    BY <1>1, <1>2, <2>1, <2>3 DEF SharedKnown
  <2>4. QED
    BY <1>3, <2>2, <2>3
<1>10. SentOnce'
  <2>1. \A m \in j.done : mail[m] >= 1
    BY <1>2 DEF JobOK
  <2>2. QED
    BY <1>1, <1>3, <2>1 DEF SentOnce
<1>11. AttemptsLeft'
  <2> SUFFICES ASSUME NEW m \in Messages
               PROVE  row'[m].attempts + Cardinality(Readers(m)')
                          < MaxAttempts + Cardinality(Workers)
    BY DEF AttemptsLeft
  <2>1. /\ row[m].attempts \in Nat
        /\ row[m].attempts + Cardinality(Readers(m)) < MaxAttempts + Cardinality(Workers)
    BY DEF AttemptsLeft, TypeOK
  <2>2. Readers(m) \in SUBSET Workers /\ Readers(m)' = Readers(m) \ {w}
    BY <1>4 DEF Readers, Idle, Job
  <2>3. /\ Cardinality(Readers(m)) \in Nat /\ Cardinality(Readers(m)') \in Nat
        /\ Cardinality(Readers(m)') <= Cardinality(Readers(m))
        /\ w \in Readers(m) => Cardinality(Readers(m)') + 1 = Cardinality(Readers(m))
    <3>1. Cardinality(Readers(m)) \in Nat /\ Cardinality(Readers(m)') \in Nat
      BY <2>2, Count
    <3>2. CASE w \in Readers(m)
      <4>1. Cardinality(Readers(m) \ {w}) + 1 = Cardinality(Readers(m))
        BY <2>2, <3>2, Count
      <4>2. QED
        BY <2>2, <3>1, <4>1
    <3>3. CASE w \notin Readers(m)
      BY <2>2, <3>1, <3>3
    <3>4. QED
      BY <3>2, <3>3, <3>1
  <2>4. CASE m \in j.failed
    <3>1. w \in Readers(m)
      BY <1>2, <2>4 DEF Readers
    <3>2. row'[m].attempts = row[m].attempts + 1
      BY <1>3, <2>4
    <3>3. QED
      BY <2>1, <2>3, <3>1, <3>2, Count
  <2>5. CASE m \notin j.failed
    <3>1. row'[m].attempts = row[m].attempts
      BY <1>3, <2>1, <2>5
    <3>2. QED
      BY <2>1, <2>3, <3>1, Count
  <2>6. QED
    BY <2>4, <2>5
<1>12. QED
  BY <1>5, <1>6, <1>7, <1>8, <1>9, <1>10, <1>11

-----------------------------------------------------------------------------

\* The invariant is inductive.
LEMMA OutboxStep == OutboxInv /\ [Next]_vars => OutboxInv'
<1> SUFFICES ASSUME OutboxInv, [Next]_vars PROVE OutboxInv'
  OBVIOUS
<1>1. ASSUME NEW m \in Messages, PostSent(m) \/ PostFailed(m) \/ EndPost(m)
      PROVE  OutboxInv'
  BY <1>1, PostStep, EndPostStep
<1>2. ASSUME NEW w \in Workers, Fetch(w) \/ Commit(w) \/ Crash(w)
      PROVE  OutboxInv'
  BY <1>2, FetchStep, CommitStep, RollbackStep DEF Crash
<1>3. ASSUME NEW w \in Workers, NEW m \in Messages, Send(w, m) \/ Mark(w, m) \/ Raise(w, m)
      PROVE  OutboxInv'
  BY <1>3, SendStep, MarkStep, RollbackStep DEF Raise
<1>4. CASE UNCHANGED vars
  <2>1. TypeOK' /\ SharedKnown' /\ SentShared' /\ SentOnce'
    BY <1>4 DEF OutboxInv, vars, TypeOK, SharedKnown, SentShared, SentOnce
  <2>2. (\A w \in Workers : JobOK(w))'
    BY <1>4 DEF OutboxInv, vars, JobOK, Marked, Delivered, Stored
  <2>3. (\A m \in Messages : MailTraced(m) /\ AbsentClean(m))'
    BY <1>4 DEF OutboxInv, vars, MailTraced, AbsentClean, Delivered
  <2>4. AttemptsLeft'
    BY <1>4 DEF OutboxInv, vars, AttemptsLeft, Readers
  <2>5. QED
    BY <2>1, <2>2, <2>3, <2>4 DEF OutboxInv
<1>5. QED
  BY <1>1, <1>2, <1>3, <1>4 DEF Next

\* The invariant holds in every reachable state.
LEMMA OutboxAlways == Spec => []OutboxInv
  BY EmptyOutbox, OutboxStep, PTL DEF Spec

\* The state keeps its type: no worker's record and no row leaves it in any
\* order of requests, workers and crashes (outbox.py:48-149, worker.py:23-49).
THEOREM TypeCorrect == Spec => []TypeOK
<1>1. OutboxInv => TypeOK
  BY DEF OutboxInv
<1>2. QED
  BY <1>1, OutboxAlways, PTL

\* What is recorded as sent has gone out, and a message that goes out twice has
\* lost the mark of a delivery or was read by two workers (worker.py:25, 49).
THEOREM SentOnceSafe == Spec => []SentOnce
<1>1. OutboxInv => SentOnce
  BY DEF OutboxInv
<1>2. QED
  BY <1>1, OutboxAlways, PTL

\* The recorded attempts of a message exceed _MAX_ATTEMPTS by less than the number
\* of workers (outbox.py:98, 138-149).
THEOREM AttemptsBounded == Spec => []AttemptsUpToWorkers
<1>1. OutboxInv => AttemptsUpToWorkers
  <2> SUFFICES ASSUME OutboxInv, NEW m \in Messages
               PROVE  row[m].attempts < MaxAttempts + Cardinality(Workers)
    BY DEF AttemptsUpToWorkers
  <2>1. Readers(m) \in SUBSET Workers
    BY DEF Readers
  <2>2. QED
    BY <2>1, Count DEF OutboxInv, AttemptsLeft, TypeOK
<1>2. QED
  BY <1>1, OutboxAlways, PTL

-----------------------------------------------------------------------------
(* What is sent is due.  A batch is what was due when it was read; only the *)
(* commit of another worker that had read the message changes that.         *)

BatchDue == \A w \in Workers : job[w].batch \subseteq Due \cup shared

\* One case for what can change the rows of a batch, the commit; the batches
\* change when one is read.
LEMMA BatchDueNext == OutboxInv /\ BatchDue /\ [Next]_vars => BatchDue'
<1> SUFFICES ASSUME OutboxInv, BatchDue, [Next]_vars, NEW v \in Workers, NEW n \in job'[v].batch
             PROVE  n \in Due' \cup shared'
  BY DEF BatchDue
<1> USE DEF OutboxInv
<1>1. job[v] \in JobType /\ \A w \in Workers : job[w] \in JobType /\ JobOK(w)
  BY DEF TypeOK
<1>2. ASSUME shared \subseteq shared', n \in Messages, n \in job[v].batch, row'[n] = row[n]
      PROVE  n \in Due' \cup shared'
  BY <1>2 DEF BatchDue, Due, Stored
<1>3. ASSUME NEW m \in Messages, PostSent(m) \/ PostFailed(m) \/ EndPost(m)
      PROVE  n \in Due' \cup shared'
  <2>1. UNCHANGED <<job, shared>> /\ ~Stored(m)
    BY <1>3 DEF PostSent, PostFailed, EndPost, Stored
  <2>2. n \in job[v].batch /\ n \in Messages /\ Stored(n)
    BY <1>1, <2>1 DEF JobOK, JobType
  <2>3. row'[n] = row[n]
    BY <1>3, <2>1, <2>2 DEF PostSent, PostFailed, EndPost, TypeOK
  <2>4. QED
    BY <1>2, <2>1, <2>2, <2>3
<1>4. ASSUME NEW w \in Workers, Fetch(w)
      PROVE  n \in Due' \cup shared'
  <2>1. PICK S \in SUBSET Due : job' = [job EXCEPT ![w] = Job("mail", S, S, None, {}, {})]
    BY <1>4 DEF Fetch
  <2>2. row' = row /\ shared \subseteq shared' /\ Due' = Due
    BY <1>4 DEF Fetch, Due, Stored
  <2>3. CASE v = w
    BY <2>1, <2>2, <2>3 DEF TypeOK, Job
  <2>4. CASE v # w
    <3>1. n \in job[v].batch /\ n \in Messages
      BY <1>1, <2>1, <2>4 DEF TypeOK, JobType
    <3>2. QED
      BY <1>2, <2>2, <3>1
  <2>5. QED
    BY <2>3, <2>4
<1>5. ASSUME NEW w \in Workers, Commit(w)
      PROVE  n \in Due' \cup shared'
  <2>1. job' = [job EXCEPT ![w] = Idle] /\ shared' = shared
    BY <1>5 DEF Commit
  <2>2. v # w /\ n \in job[v].batch /\ n \in Messages
    BY <1>1, <2>1 DEF TypeOK, Idle, Job, JobType
  <2>3. CASE n \in job[w].batch
    BY <2>1, <2>2, <2>3 DEF SharedKnown
  <2>4. CASE n \notin job[w].batch
    <3>1. n \notin job[w].done /\ n \notin job[w].failed
      BY <1>1, <2>4 DEF JobOK, Marked
    <3>2. row'[n] = row[n]
      BY <1>5, <2>2, <3>1 DEF Commit
    <3>3. QED
      BY <1>2, <2>1, <2>2, <3>2
  <2>5. QED
    BY <2>3, <2>4
<1>6. ASSUME NEW w \in Workers, Rollback(w)
      PROVE  n \in Due' \cup shared'
  <2>1. job' = [job EXCEPT ![w] = Idle] /\ shared' = shared /\ row' = row
    BY <1>6 DEF Rollback
  <2>2. n \in job[v].batch /\ n \in Messages
    BY <1>1, <2>1 DEF TypeOK, Idle, Job, JobType
  <2>3. QED
    BY <1>2, <2>1, <2>2
<1>7. ASSUME NEW w \in Workers, NEW m \in Messages, Send(w, m) \/ Mark(w, m)
      PROVE  n \in Due' \cup shared'
  <2>1. row' = row /\ shared' = shared
    BY <1>7 DEF Send, Mark
  <2>2. job'[v].batch = job[v].batch
    <3>1. CASE Send(w, m)
      BY <3>1 DEF Send, Try, Job, TypeOK
    <3>2. CASE Mark(w, m)
      BY <3>2 DEF Mark, Job, TypeOK
    <3>3. QED
      BY <1>7, <3>1, <3>2
  <2>3. n \in job[v].batch /\ n \in Messages
    BY <1>1, <2>2 DEF JobType
  <2>4. QED
    BY <1>2, <2>1, <2>3
<1>8. CASE UNCHANGED vars
  <2>1. n \in job[v].batch /\ n \in Messages /\ row' = row /\ shared' = shared
    BY <1>1, <1>8 DEF vars, JobType
  <2>2. QED
    BY <1>2, <2>1
<1>9. QED
  BY <1>3, <1>4, <1>5, <1>6, <1>7, <1>8 DEF Next, Crash, Raise

\* What a worker is about to hand to the server waits to be sent.
SendsWhatIsDue ==
    \A w \in Workers, m \in Messages : IsNext(w, m) => m \in Due \cup shared

\* However old its batch is, a worker hands over no message that has been sent
\* or given up since it read it, unless another worker had read it as well
\* (worker.py:25-49): with one worker there is no such message.
THEOREM SendsWhatIsDueSafe == Spec => []SendsWhatIsDue
<1>1. Init => BatchDue
  BY DEF Init, BatchDue, Idle, Job
<1>2. OutboxInv /\ BatchDue => SendsWhatIsDue
  <2>1. SUFFICES ASSUME OutboxInv, BatchDue, NEW w \in Workers, NEW m \in Messages, IsNext(w, m)
                 PROVE  m \in Due \cup shared
    BY DEF SendsWhatIsDue
  <2>2. m \in job[w].batch
    BY <2>1 DEF OutboxInv, JobOK, IsNext
  <2>3. QED
    BY <2>1, <2>2 DEF BatchDue
<1>3. QED
  BY <1>1, <1>2, BatchDueNext, OutboxAlways, PTL DEF Spec

-----------------------------------------------------------------------------
(* What a turn of a worker is worth: the measure behind the liveness of the *)
(* outbox, which only grows when a batch is committed.                      *)

BatchWorked == \A w \in Workers : job[w].batch \subseteq job[w].due \cup Marked(w)

\* A message leaves what is left of a batch when it is marked.
LEMMA BatchWorkedNext == OutboxInv /\ BatchWorked /\ [Next]_vars => BatchWorked'
<1> SUFFICES ASSUME OutboxInv, BatchWorked, [Next]_vars, NEW v \in Workers
             PROVE  (job[v].batch \subseteq job[v].due \cup Marked(v))'
  BY DEF BatchWorked
<1> USE DEF OutboxInv, BatchWorked, Marked
<1>1. ASSUME NEW m \in Messages, PostSent(m) \/ PostFailed(m) \/ EndPost(m)
      PROVE  (job[v].batch \subseteq job[v].due \cup Marked(v))'
  BY <1>1 DEF PostSent, PostFailed, EndPost
<1>2. ASSUME NEW w \in Workers, Fetch(w)
      PROVE  (job[v].batch \subseteq job[v].due \cup Marked(v))'
  BY <1>2 DEF Fetch, Job, TypeOK
<1>3. ASSUME NEW w \in Workers, Commit(w) \/ Rollback(w)
      PROVE  (job[v].batch \subseteq job[v].due \cup Marked(v))'
  <2>1. job' = [job EXCEPT ![w] = Idle]
    BY <1>3 DEF Commit, Rollback
  <2>2. CASE v = w
    BY <2>1, <2>2 DEF Idle, Job, TypeOK
  <2>3. CASE v # w
    BY <2>1, <2>3 DEF TypeOK
  <2>4. QED
    BY <2>2, <2>3
<1>4. ASSUME NEW w \in Workers, NEW m \in Messages, Send(w, m)
      PROVE  (job[v].batch \subseteq job[v].due \cup Marked(v))'
  BY <1>4 DEF Send, Try, Job, TypeOK
<1>5. ASSUME NEW w \in Workers, NEW m \in Messages, Mark(w, m)
      PROVE  (job[v].batch \subseteq job[v].due \cup Marked(v))'
  BY <1>5 DEF Mark, Job, TypeOK
<1>6. CASE UNCHANGED vars
  BY <1>6 DEF vars
<1>7. QED
  BY <1>1, <1>2, <1>3, <1>4, <1>5, <1>6 DEF Next, Crash, Raise

\* A turn that is committed counts for every message of its batch.
TurnCounts ==
    [][\A w \in Workers : Commit(w) =>
           \A m \in job[w].batch :
               row'[m].sent \/ row'[m].attempts = row[m].attempts + 1]_vars

\* No message is passed over: each one of a batch is recorded as sent or has an
\* attempt more when the batch is committed (worker.py:27-49), so after
\* MaxAttempts such batches it is sent or given up.
THEOREM TurnCountsSafe == Spec => TurnCounts
<1>1. Init => BatchWorked
  BY DEF Init, BatchWorked, Idle, Job
<1>2. OutboxInv /\ BatchWorked /\ [Next]_vars =>
          [\A w \in Workers : Commit(w) =>
              \A m \in job[w].batch :
                  row'[m].sent \/ row'[m].attempts = row[m].attempts + 1]_vars
  <2>1. ASSUME OutboxInv, BatchWorked, NEW w \in Workers, Commit(w), NEW m \in job[w].batch
        PROVE  row'[m].sent \/ row'[m].attempts = row[m].attempts + 1
    <3>1. m \in job[w].done \cup job[w].failed /\ m \in Messages
      BY <2>1 DEF BatchWorked, Marked, Commit, OutboxInv, TypeOK, JobType
    <3>2. row'[m] = CASE m \in job[w].done   -> Row("stored", TRUE, row[m].attempts)
                      [] m \in job[w].failed -> Row("stored", row[m].sent, row[m].attempts + 1)
                      [] OTHER               -> row[m]
      BY <2>1, <3>1 DEF Commit
    <3>3. job[w].done \cap job[w].failed = {}
      BY <2>1 DEF OutboxInv, JobOK
    <3>4. QED
      BY <3>1, <3>2, <3>3 DEF Row
  <2>2. QED
    BY <2>1
<1>3. QED
  BY <1>1, <1>2, BatchWorkedNext, OutboxAlways, PTL DEF Spec, TurnCounts
=============================================================================
