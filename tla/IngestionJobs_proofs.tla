------------------------ MODULE IngestionJobs_proofs ------------------------
(***************************************************************************)
(* Theorems about IngestionJobs, for all values of its constants.          *)
(***************************************************************************)
EXTENDS IngestionJobs, FiniteSetTheorems, TLAPS

\* What the proofs need of the constants.
LEMMA ConstantFacts ==
    /\ MaxRetries \in Nat /\ MaxDisruptions \in Nat /\ Len(StageWrites) \in Nat
    /\ DOMAIN StageWrites = 1..Len(StageWrites)
    /\ \A i \in DOMAIN StageWrites : StageWrites[i] \in Permille
    /\ NoJob \notin Jobs
BY ConstantsAssumption

\* A worker in a task holds the message of a job, and one that is about to
\* publish a retry has not used them up.
WorkerInv ==
    /\ WorkerTypeOK
    /\ \A w \in Workers : pc[w] \in Phases => job[w] \in Jobs
    /\ \A w \in Workers : pc[w] = "retry" => RetriesLeft(w)

\* The type invariant, made inductive.
TypeInv == ApiTypeOK /\ RowTypeOK /\ BrokerTypeOK /\ WorkerInv /\ HistoryTypeOK

-----------------------------------------------------------------------------
(***************************************************************************)
(* What the building blocks of the actions preserve.                       *)
(***************************************************************************)
LEMMA UntouchedTypes ==
    /\ ApiTypeOK /\ UNCHANGED apiVars => ApiTypeOK'
    /\ RowTypeOK /\ UNCHANGED rowVars => RowTypeOK'
    /\ BrokerTypeOK /\ UNCHANGED brokerVars => BrokerTypeOK'
    /\ WorkerInv /\ UNCHANGED workerVars => WorkerInv'
    /\ HistoryTypeOK /\ UNCHANGED <<canonicalized, historyVars>> => HistoryTypeOK'
<1>1. ApiTypeOK /\ UNCHANGED apiVars => ApiTypeOK'
      BY DEF ApiTypeOK, apiVars
<1>2. RowTypeOK /\ UNCHANGED rowVars => RowTypeOK'
      BY DEF RowTypeOK, rowVars
<1>3. BrokerTypeOK /\ UNCHANGED brokerVars => BrokerTypeOK'
      BY DEF BrokerTypeOK, brokerVars
<1>4. WorkerInv /\ UNCHANGED workerVars => WorkerInv'
      BY DEF WorkerInv, WorkerTypeOK, RetriesLeft, workerVars
<1>5. HistoryTypeOK /\ UNCHANGED <<canonicalized, historyVars>> => HistoryTypeOK'
      BY DEF HistoryTypeOK, historyVars
<1>6. QED
      BY <1>1, <1>2, <1>3, <1>4, <1>5

LEMMA GotoTypes ==
    ASSUME WorkerInv, NEW w \in Workers, pc[w] \in Phases, NEW next \in Phases,
           next = "retry" => RetriesLeft(w), Goto(w, next)
    PROVE  WorkerInv'
<1>1. WorkerTypeOK'
      BY ConstantFacts DEF Goto, WorkerInv, WorkerTypeOK
<1>2. QED
      BY <1>1 DEF Goto, WorkerInv, WorkerTypeOK, RetriesLeft

LEMMA ReleaseTypes ==
    ASSUME WorkerInv, NEW w \in Workers, NEW next \in Idle, Release(w, next)
    PROVE  WorkerInv'
<1>1. WorkerTypeOK'
      BY ConstantFacts DEF Release, WorkerInv, WorkerTypeOK
<1>2. QED
      BY <1>1 DEF Release, WorkerInv, WorkerTypeOK, RetriesLeft, Idle, Phases

LEMMA SetStatusTypes ==
    ASSUME RowTypeOK, NEW j \in Jobs, NEW s \in Active \cup Terminal,
           SetStatus(j, s), UNCHANGED progress
    PROVE  RowTypeOK'
BY DEF SetStatus, RowTypeOK, Active, Terminal

LEMMA SetBothTypes ==
    ASSUME RowTypeOK, NEW j \in Jobs, NEW s \in Active \cup Terminal, NEW p \in Permille,
           SetStatus(j, s), SetProgress(j, p)
    PROVE  RowTypeOK'
BY DEF SetStatus, SetProgress, RowTypeOK, Active, Terminal

LEMMA PublishTypes ==
    ASSUME BrokerTypeOK, NEW j \in Jobs, NEW k \in 0..MaxRetries, Publish(j, k),
           UNCHANGED <<control, revoked>>
    PROVE  BrokerTypeOK'
BY ConstantFacts DEF Publish, BrokerTypeOK

LEMMA RedeliverTypes ==
    ASSUME BrokerTypeOK, NEW j \in Jobs, NEW k \in 0..MaxRetries
    PROVE  Redeliver(j, k) \in [Jobs -> [0..MaxRetries -> Nat]]
BY ConstantFacts DEF Redeliver, BrokerTypeOK

LEMMA TakeTypes ==
    ASSUME BrokerTypeOK, NEW j \in Jobs, NEW k \in 0..MaxRetries, HasMessage(j, k),
           ready' = [ready EXCEPT ![j][k] = @ - 1], UNCHANGED <<control, revoked>>
    PROVE  BrokerTypeOK'
BY ConstantFacts DEF HasMessage, BrokerTypeOK

LEMMA ExcuseTypes ==
    ASSUME HistoryTypeOK, NEW j \in Jobs, excused' \in {excused, excused \cup {j}},
           UNCHANGED <<canonicalized, duplicates, disruptions>>
    PROVE  HistoryTypeOK'
BY DEF HistoryTypeOK

LEMMA DisruptTypes ==
    ASSUME HistoryTypeOK, NEW j, Disrupt, Duplicate(j) \/ UNCHANGED duplicates,
           UNCHANGED <<canonicalized, excused>>
    PROVE  HistoryTypeOK'
<1>1. disruptions' \in 0..MaxDisruptions
      BY ConstantFacts DEF HistoryTypeOK, Disrupt
<1>2. duplicates' \in [Jobs -> Nat]
  <2>1. CASE UNCHANGED duplicates
        BY <2>1 DEF HistoryTypeOK
  <2>2. CASE Duplicate(j) /\ j \in Jobs
    <3>1. duplicates[j] + 1 \in Nat
          BY <2>2 DEF HistoryTypeOK
    <3>2. QED
          BY <2>2, <3>1 DEF HistoryTypeOK, Duplicate
  <2>3. CASE Duplicate(j) /\ j \notin Jobs
        BY <2>3 DEF HistoryTypeOK, Duplicate
  <2>4. QED
        BY <2>1, <2>2, <2>3
<1>3. QED
      BY <1>1, <1>2 DEF HistoryTypeOK

LEMMA GiveUpTypes ==
    ASSUME TypeInv, NEW w \in Workers, pc[w] \in Phases, GiveUp(w)
    PROVE  TypeInv'
<1>1. WorkerInv'
      BY ReleaseTypes DEF TypeInv, GiveUp, Idle
<1>2. HistoryTypeOK'
      BY ExcuseTypes DEF TypeInv, GiveUp, Excuse, WorkerInv
<1>3. QED
      BY <1>1, <1>2, UntouchedTypes DEF TypeInv, GiveUp

-----------------------------------------------------------------------------
LEMMA InitTypeInv == Init => TypeInv
<1> SUFFICES ASSUME Init PROVE TypeInv
    OBVIOUS
<1> USE DEF Init
<1>1. ApiTypeOK
      BY DEF ApiTypeOK
<1>2. RowTypeOK
      BY DEF RowTypeOK, Permille
<1>3. BrokerTypeOK
      BY ConstantFacts DEF BrokerTypeOK
<1>4. WorkerInv
      BY ConstantFacts DEF WorkerInv, WorkerTypeOK, Idle, Phases
<1>5. HistoryTypeOK
      BY ConstantFacts DEF HistoryTypeOK
<1>6. QED
      BY <1>1, <1>2, <1>3, <1>4, <1>5 DEF TypeInv

LEMMA ApiTypeInv ==
    ASSUME TypeInv,
           \/ UserStep
           \/ \E j \in Jobs : ApiStep(j) \/ EnqueueFails(j) \/ Rollback(j)
    PROVE  TypeInv'
<1> USE UntouchedTypes DEF TypeInv
<1>1. ASSUME NEW b \in Books, VerifyUpload(b) \/ DeleteBook(b) PROVE TypeInv'
      BY <1>1 DEF VerifyUpload, DeleteBook, ApiTypeOK
<1>2. ASSUME NEW j \in Jobs, NEW b \in Books \cup {NoBook}, CreateRow(j, b) PROVE TypeInv'
      BY <1>2 DEF CreateRow, ApiTypeOK
<1>3. ASSUME NEW j \in Jobs, NEW b \in Books, StartIngestion(j, b) PROVE TypeInv'
      BY <1>2, <1>3 DEF StartIngestion
<1>4. ASSUME NEW j \in Jobs, NEW n \in Jobs, RetryJob(j, n) PROVE TypeInv'
  <2>1. book[j] \in Books \cup {NoBook}
        BY DEF ApiTypeOK
  <2>2. QED
        BY <1>2, <1>4, <2>1 DEF RetryJob
<1>5. ASSUME NEW j \in Jobs, CancelRevokes(j) PROVE TypeInv'
  <2>1. ApiTypeOK'
        BY <1>5 DEF CancelRevokes, ApiTypeOK
  <2>2. BrokerTypeOK'
        BY <1>5 DEF CancelRevokes, BrokerTypeOK
  <2>3. QED
        BY <1>5, <2>1, <2>2 DEF CancelRevokes
<1>6. ASSUME NEW j \in Jobs, Enqueue(j) PROVE TypeInv'
  <2>1. ApiTypeOK'
        BY <1>6 DEF Enqueue, ApiTypeOK
  <2>2. BrokerTypeOK'
        BY <1>6, ConstantFacts DEF Enqueue, BrokerTypeOK
  <2>3. QED
        BY <1>6, <2>1, <2>2 DEF Enqueue
<1>7. ASSUME NEW j \in Jobs, EnqueueFails(j) \/ Rollback(j) PROVE TypeInv'
      BY <1>7 DEF EnqueueFails, Rollback, ApiTypeOK
<1>8. ASSUME NEW j \in Jobs, Commit(j) \/ CancelCommits(j) PROVE TypeInv'
  <2>1. ApiTypeOK'
        BY <1>8 DEF Commit, CancelCommits, ApiTypeOK
  <2>2. RowTypeOK'
        BY <1>8 DEF Commit, CancelCommits, RowTypeOK, Active, Terminal, Permille
  <2>3. QED
        BY <1>8, <2>1, <2>2 DEF Commit, CancelCommits
<1>9. QED
      BY <1>1, <1>3, <1>4, <1>5, <1>6, <1>7, <1>8 DEF UserStep, ApiStep

LEMMA WorkerTypeInv ==
    ASSUME TypeInv, NEW w \in Workers, Receive(w) \/ WorkerStep(w)
    PROVE  TypeInv'
<1> USE UntouchedTypes DEF TypeInv
<1>1. pc[w] \in Phases => job[w] \in Jobs /\ retries[w] \in 0..MaxRetries
      BY DEF WorkerInv, WorkerTypeOK
<1>2. ASSUME NEW j \in Jobs, NEW k \in 0..MaxRetries, Deliver(w, j, k) PROVE TypeInv'
  <2>1. BrokerTypeOK'
        BY <1>2, TakeTypes DEF Deliver
  <2>2. WorkerInv'
        BY <1>2 DEF Deliver, WorkerInv, WorkerTypeOK, RetriesLeft, Phases
  <2>3. HistoryTypeOK'
        BY <1>2, ExcuseTypes DEF Deliver
  <2>4. QED
        BY <1>2, <2>1, <2>2, <2>3 DEF Deliver
<1>3. ASSUME NEW j \in Jobs, NEW k \in 0..MaxRetries, Discard(w, j, k) PROVE TypeInv'
      BY <1>3, TakeTypes, ExcuseTypes DEF Discard, Excuse
<1>4. CASE Begin(w)
      BY <1>1, <1>4, SetStatusTypes, GotoTypes DEF Begin, Active, Phases
<1>5. CASE Setup(w)
      BY <1>5, GotoTypes DEF Setup, Phases
<1>6. CASE ReportStage(w)
  <2>1. RowTypeOK'
        BY <1>1, <1>6, ConstantFacts, SetBothTypes DEF ReportStage, Active, Phases
  <2>2. WorkerInv'
        BY <1>6, ConstantFacts DEF ReportStage, WorkerInv, WorkerTypeOK, RetriesLeft
  <2>3. QED
        BY <1>6, <2>1, <2>2 DEF ReportStage
<1>7. CASE MarkDone(w)
  <2>1. RowTypeOK'
        BY <1>1, <1>7, SetBothTypes DEF MarkDone, Terminal, Phases, Permille
  <2>2. QED
        BY <1>7, <2>1, GotoTypes DEF MarkDone, Phases
<1>8. CASE Canonicalize(w)
  <2>1. HistoryTypeOK'
        BY <1>1, <1>8 DEF Canonicalize, HistoryTypeOK, historyVars, Phases
  <2>2. QED
        BY <1>8, <2>1, GotoTypes DEF Canonicalize, Phases
<1>9. CASE Retry(w)
  <2>1. retries[w] + 1 \in 0..MaxRetries
        BY <1>9, ConstantFacts DEF Retry, WorkerInv, WorkerTypeOK, RetriesLeft
  <2>2. BrokerTypeOK'
        BY <1>1, <1>9, <2>1, PublishTypes DEF Retry, Phases
  <2>3. QED
        BY <1>9, <2>2, GotoTypes DEF Retry, AfterRetry, Phases
<1>10. CASE MarkFailed(w)
       BY <1>1, <1>10, SetStatusTypes, GotoTypes DEF MarkFailed, Terminal, Phases
<1>11. CASE Ack(w)
       BY <1>11, ReleaseTypes DEF Ack, Idle
<1>12. CASE Restart(w)
  <2>1. WorkerInv'
        BY <1>12 DEF Restart, WorkerInv, WorkerTypeOK, RetriesLeft, Idle, Phases
  <2>2. QED
        BY <1>12, <2>1 DEF Restart
<1>13. ASSUME NEW j \in Jobs, HandleRevoke(w, j) PROVE TypeInv'
  <2>1. BrokerTypeOK'
        BY <1>13 DEF HandleRevoke, BrokerTypeOK
  <2>2. WorkerInv'
        BY <1>13, ReleaseTypes DEF HandleRevoke, Idle
  <2>3. HistoryTypeOK'
        BY <1>13, ExcuseTypes DEF HandleRevoke, Excuse
  <2>4. QED
        BY <1>13, <2>1, <2>2, <2>3 DEF HandleRevoke
<1>14. QED
       BY <1>2, <1>3, <1>4, <1>5, <1>6, <1>7, <1>8, <1>9, <1>10, <1>11, <1>12, <1>13
       DEF Receive, WorkerStep

LEMMA FailureTypeInv ==
    ASSUME TypeInv, NEW w \in Workers,
           \/ BeginFails(w) \/ SetupFails(w) \/ PipelineFails(w)
           \/ CanonicalizeFails(w) \/ RetryFails(w) \/ MarkFailedFails(w)
           \/ ChildKilled(w) \/ Crash(w) \/ VisibilityTimeout(w)
    PROVE  TypeInv'
<1> USE UntouchedTypes DEF TypeInv
<1>1. pc[w] \in Phases => job[w] \in Jobs /\ retries[w] \in 0..MaxRetries
      BY DEF WorkerInv, WorkerTypeOK
<1>2. CASE BeginFails(w) \/ SetupFails(w) \/ RetryFails(w) \/ MarkFailedFails(w) \/ ChildKilled(w)
      BY <1>2, GiveUpTypes
      DEF BeginFails, SetupFails, RetryFails, MarkFailedFails, ChildKilled, Phases
<1>3. CASE PipelineFails(w) \/ CanonicalizeFails(w)
  <2>1. PICK t \in BOOLEAN : pc[w] \in Phases /\ Raise(w, t)
        BY <1>3 DEF PipelineFails, CanonicalizeFails, Phases
  <2>2. /\ AfterError(w, t) \in Phases
        /\ AfterError(w, t) = "retry" => RetriesLeft(w)
        BY DEF AfterError, Phases
  <2>3. QED
        BY <2>1, <2>2, GotoTypes DEF Raise
<1>4. CASE Crash(w)
  <2>1. BrokerTypeOK'
    <3>1. ready' \in [Jobs -> [0..MaxRetries -> Nat]]
      <4>1. CASE pc[w] \in Phases
            BY <1>1, <1>4, <4>1, RedeliverTypes DEF Crash
      <4>2. CASE pc[w] \notin Phases
            BY <1>4, <4>2 DEF Crash, BrokerTypeOK
      <4>3. QED
            BY <4>1, <4>2
    <3>2. control' \in [Workers -> SUBSET Jobs] /\ revoked' \in [Workers -> SUBSET Jobs]
          BY <1>4 DEF Crash, BrokerTypeOK
    <3>3. QED
          BY <3>1, <3>2 DEF BrokerTypeOK
  <2>2. HistoryTypeOK'
    <3>1. /\ Disrupt /\ (Duplicate(job[w]) \/ UNCHANGED duplicates)
          /\ UNCHANGED <<canonicalized, excused>>
          BY <1>4 DEF Crash
    <3>2. QED
          BY <3>1, DisruptTypes
  <2>3. QED
        BY <1>4, <2>1, <2>2, ReleaseTypes DEF Crash, Idle
<1>5. CASE VisibilityTimeout(w)
  <2>1. BrokerTypeOK'
        BY <1>1, <1>5, PublishTypes DEF VisibilityTimeout
  <2>2. HistoryTypeOK'
        BY <1>5, DisruptTypes DEF VisibilityTimeout
  <2>3. QED
        BY <1>5, <2>1, <2>2 DEF VisibilityTimeout
<1>6. QED
      BY <1>2, <1>3, <1>4, <1>5

LEMMA NextTypeInv == TypeInv /\ [Next]_vars => TypeInv'
<1> SUFFICES ASSUME TypeInv, [Next]_vars PROVE TypeInv'
    OBVIOUS
<1>1. CASE UNCHANGED vars
      BY <1>1, UntouchedTypes DEF vars, TypeInv
<1>2. CASE Next
      BY <1>2, ApiTypeInv, WorkerTypeInv, FailureTypeInv DEF Next, Failure
<1>3. QED
      BY <1>1, <1>2

\* The variables keep their types, whatever fails and in whatever order.
THEOREM TypeCorrect == Spec => []TypeOK
<1>1. TypeInv => TypeOK
      BY DEF TypeInv, TypeOK, WorkerInv
<1>2. QED
      BY <1>1, InitTypeInv, NextTypeInv, PTL DEF Spec

-----------------------------------------------------------------------------
(***************************************************************************)
(* The invariant of each job.  A row appears only with its commit; a job   *)
(* that is not excused has its message in the queue until then, and from   *)
(* then on whatever its status calls for is still to come.                 *)
(***************************************************************************)
JobInv(j) ==
    /\ ~RowExists(j) => status[j] = "none" /\ ~cancel[j]
    /\ api[j] \in {"unused", "created"} => ~sent[j]
    /\ api[j] = "enqueued" /\ sent[j] /\ j \notin excused => InQueue(j)
    /\ RowExists(j) /\ sent[j] /\ status[j] \in Active /\ j \notin excused => Pending(j)
    /\ BuildGraph /\ status[j] = "completed" /\ j \notin excused
           => j \in canonicalized \/ InQueue(j) \/ Held(j) # {}

IInv == TypeInv /\ \A j \in Jobs : JobInv(j)

\* No worker but w does anything, and the request of job j does not either.
OnlyWorker(w, j) ==
    /\ \A v \in Workers \ {w} : pc'[v] = pc[v] /\ job'[v] = job[v]
    /\ api'[j] = api[j] /\ sent'[j] = sent[j] /\ cancel'[j] = cancel[j]
    /\ j \in excused => j \in excused'
    /\ j \in canonicalized => j \in canonicalized'

\* A step of worker w leaves job j what it needs: what w held of it is still
\* being worked on, or is back in the queue, or needs nothing more.
LEMMA WorkerFrame ==
    ASSUME NEW w \in Workers, NEW j \in Jobs, JobInv(j), OnlyWorker(w, j),
           status'[j] = status[j],
           InQueue(j) => InQueue(j)' \/ j \in excused' \/ (RowExists(j) /\ w \in Held(j)' /\ pc'[w] # "canonicalize"),
           w \in Held(j) => \/ w \in Held(j)' /\ (pc'[w] = "canonicalize" => pc[w] = "canonicalize")
                            \/ InQueue(j)'
                            \/ j \in excused'
                            \/ pc[w] = "canonicalize" /\ j \in canonicalized'
    PROVE  JobInv(j)'
<1>1. ASSUME NEW v \in Held(j), v # w
      PROVE  v \in Held(j)' /\ pc'[v] = pc[v]
      BY <1>1 DEF Held, Holds, OnlyWorker
<1>2. RowExists(j)' = RowExists(j)
      BY DEF RowExists, OnlyWorker
<1>3. (RowExists(j) /\ sent[j] /\ status[j] \in Active /\ j \notin excused => Pending(j))'
  <2>1. CASE InQueue(j)
        BY <1>2, <2>1 DEF Pending, OnlyWorker
  <2>2. ASSUME NEW v \in Held(j), pc[v] # "canonicalize"
        PROVE  Pending(j)' \/ j \in excused'
        BY <1>1, <2>2 DEF Pending
  <2>3. QED
        BY <1>2, <2>1, <2>2 DEF JobInv, Pending, OnlyWorker
<1>4. (BuildGraph /\ status[j] = "completed" /\ j \notin excused
           => j \in canonicalized \/ InQueue(j) \/ Held(j) # {})'
      BY <1>1 DEF JobInv, OnlyWorker
<1>5. (api[j] = "enqueued" /\ sent[j] /\ j \notin excused => InQueue(j))'
      BY DEF JobInv, OnlyWorker, RowExists
<1>6. QED
      BY <1>2, <1>3, <1>4, <1>5 DEF JobInv, OnlyWorker

\* A published message is in the queue, and no other leaves it.
LEMMA PublishQueues ==
    ASSUME TypeInv, NEW i \in Jobs, NEW k \in 0..MaxRetries, ready' = Redeliver(i, k)
    PROVE  InQueue(i)' /\ \A j \in Jobs : InQueue(j) => InQueue(j)'
<1>1. \A j \in Jobs, n \in 0..MaxRetries : ready[j][n] \in Nat
      BY DEF TypeInv, BrokerTypeOK
<1>2. \A j \in Jobs, n \in 0..MaxRetries :
          ready'[j][n] = IF j = i /\ n = k THEN ready[j][n] + 1 ELSE ready[j][n]
      BY DEF Redeliver, TypeInv, BrokerTypeOK
<1>3. QED
      BY <1>1, <1>2 DEF InQueue, HasMessage

\* Taking a message of job i leaves the messages of the others.
LEMMA TakeLeavesOthers ==
    ASSUME TypeInv, NEW i \in Jobs, NEW k \in 0..MaxRetries,
           ready' = [ready EXCEPT ![i][k] = @ - 1]
    PROVE  \A j \in Jobs \ {i} : InQueue(j) => InQueue(j)'
BY DEF InQueue, HasMessage, TypeInv, BrokerTypeOK

-----------------------------------------------------------------------------
LEMMA InitIInv == Init => IInv
BY InitTypeInv DEF Init, IInv, JobInv, RowExists, Active

\* A step that leaves job j, the queue and the workers alone.
LEMMA JobUntouched ==
    ASSUME NEW j \in Jobs, JobInv(j),
           UNCHANGED <<api[j], sent[j], cancel[j], status[j], ready, pc, job, canonicalized, excused>>
    PROVE  JobInv(j)'
BY DEF JobInv, RowExists, Pending, InQueue, HasMessage, Held, Holds

LEMMA ApiJobInv ==
    ASSUME IInv, NEW j \in Jobs,
           \/ UserStep
           \/ \E i \in Jobs : ApiStep(i) \/ EnqueueFails(i) \/ Rollback(i)
    PROVE  JobInv(j)'
<1> USE DEF IInv
<1> DEFINE Types ==
        /\ api \in [Jobs -> {"unused", "created", "enqueued", "committed", "rolledback"}]
        /\ sent \in [Jobs -> BOOLEAN] /\ cancel \in [Jobs -> BOOLEAN]
        /\ status \in [Jobs -> {"none"} \cup Active \cup Terminal]
<1>1. Types
      BY DEF TypeInv, ApiTypeOK, RowTypeOK
<1> HIDE DEF Types
<1>2. ASSUME NEW b \in Books, VerifyUpload(b) \/ DeleteBook(b) PROVE JobInv(j)'
      BY <1>2, JobUntouched
      DEF VerifyUpload, DeleteBook, rowVars, brokerVars, workerVars, historyVars
<1>3. ASSUME NEW i \in Jobs, NEW b, CreateRow(i, b) PROVE JobInv(j)'
  <2>1. CASE i = j
        BY <1>1, <1>3, <2>1 DEF CreateRow, JobInv, RowExists, rowVars, Types, Active
  <2>2. CASE i # j
        BY <1>1, <1>3, <2>2, JobUntouched
        DEF CreateRow, rowVars, brokerVars, workerVars, historyVars, Types
  <2>3. QED
        BY <2>1, <2>2
<1>4. ASSUME NEW i \in Jobs, CancelRevokes(i) PROVE JobInv(j)'
  <2>1. CASE i = j
        BY <1>1, <1>4, <2>1
        DEF CancelRevokes, JobInv, RowExists, Pending, InQueue, HasMessage, Held, Holds,
            rowVars, workerVars, historyVars, Types
  <2>2. CASE i # j
        BY <1>1, <1>4, <2>2, JobUntouched
        DEF CancelRevokes, rowVars, workerVars, historyVars, Types
  <2>3. QED
        BY <2>1, <2>2
<1>5. ASSUME NEW i \in Jobs, Enqueue(i) PROVE JobInv(j)'
  <2>1. InQueue(i)' /\ (InQueue(j) => InQueue(j)')
    <3>1. 0 \in 0..MaxRetries
          BY ConstantFacts
    <3>2. ready' = Redeliver(i, 0)
          BY <1>5 DEF Enqueue, Redeliver
    <3>3. QED
          BY <3>1, <3>2, PublishQueues
  <2>2. CASE i = j
        BY <1>1, <1>5, <2>1, <2>2 DEF Enqueue, JobInv, RowExists, rowVars, Types, Active
  <2>3. CASE i # j
        BY <1>1, <1>5, <2>1, <2>3
        DEF Enqueue, JobInv, RowExists, Pending, Held, Holds, rowVars, workerVars,
            historyVars, Types
  <2>4. QED
        BY <2>2, <2>3
<1>6. ASSUME NEW i \in Jobs, EnqueueFails(i) \/ Rollback(i) PROVE JobInv(j)'
  <2>1. CASE i = j
        BY <1>1, <1>6, <2>1
        DEF EnqueueFails, Rollback, JobInv, RowExists, rowVars, Types, Active
  <2>2. CASE i # j
        BY <1>1, <1>6, <2>2, JobUntouched
        DEF EnqueueFails, Rollback, rowVars, brokerVars, workerVars, historyVars, Types
  <2>3. QED
        BY <2>1, <2>2
<1>7. ASSUME NEW i \in Jobs, Commit(i) \/ CancelCommits(i) PROVE JobInv(j)'
  <2>1. CASE i = j /\ Commit(i)
        BY <1>1, <2>1
        DEF Commit, JobInv, RowExists, Pending, InQueue, HasMessage, brokerVars,
            historyVars, Types
  <2>2. CASE i = j /\ CancelCommits(i)
        BY <1>1, <2>2 DEF CancelCommits, JobInv, RowExists, Types, Active
  <2>3. CASE i # j
        BY <1>1, <1>7, <2>3, JobUntouched
        DEF Commit, CancelCommits, brokerVars, workerVars, historyVars, Types
  <2>4. QED
        BY <1>7, <2>1, <2>2, <2>3
<1>8. QED
      BY <1>2, <1>3, <1>4, <1>5, <1>6, <1>7
      DEF UserStep, ApiStep, StartIngestion, RetryJob

\* A worker that gives up owes its job nothing more.
LEMMA GiveUpJobInv ==
    ASSUME IInv, NEW j \in Jobs, NEW w \in Workers, pc[w] \in Phases, GiveUp(w)
    PROVE  JobInv(j)'
<1>1. OnlyWorker(w, j)
      BY DEF GiveUp, Release, Excuse, OnlyWorker, apiVars, IInv, TypeInv, WorkerInv, WorkerTypeOK
<1>2. status'[j] = status[j] /\ (InQueue(j) => InQueue(j)')
      BY DEF GiveUp, rowVars, brokerVars, InQueue, HasMessage
<1>3. w \in Held(j) => j \in excused'
      BY DEF GiveUp, Excuse, Held, Holds
<1>4. QED
      BY <1>1, <1>2, <1>3, WorkerFrame DEF IInv

\* A worker that goes on with its job, or drops it at its very end.
LEMMA GotoJobInv ==
    ASSUME IInv, NEW j \in Jobs, NEW w \in Workers, pc[w] \in Phases,
           NEW next \in Phases, Goto(w, next),
           UNCHANGED <<apiVars, historyVars, ready>>, status'[j] = status[j],
           canonicalized \subseteq canonicalized',
           \/ next \notin {"ack", "canonicalize"}
           \/ pc[w] = "canonicalize" /\ job[w] \in canonicalized'
    PROVE  JobInv(j)'
<1>1. OnlyWorker(w, j)
      BY DEF Goto, OnlyWorker, apiVars, historyVars, IInv, TypeInv, WorkerInv, WorkerTypeOK
<1>2. InQueue(j) => InQueue(j)'
      BY DEF InQueue, HasMessage
<1>3. w \in Held(j) => \/ w \in Held(j)' /\ pc'[w] # "canonicalize"
                       \/ pc[w] = "canonicalize" /\ j \in canonicalized'
      BY DEF Goto, Held, Holds, IInv, TypeInv, WorkerInv, WorkerTypeOK
<1>4. QED
      BY <1>1, <1>2, <1>3, WorkerFrame DEF IInv

LEMMA StatusOfOthers ==
    ASSUME NEW i, NEW j, NEW s, SetStatus(i, s),
           status \in [Jobs -> {"none"} \cup Active \cup Terminal], j \in Jobs
    PROVE  status'[j] = IF i = j /\ RowExists(j) THEN s ELSE status[j]
BY DEF SetStatus

LEMMA WorkerJobInv ==
    ASSUME IInv, NEW j \in Jobs, NEW w \in Workers, Receive(w) \/ WorkerStep(w)
    PROVE  JobInv(j)'
<1> USE DEF IInv
<1>1. /\ JobInv(j) /\ RowTypeOK /\ WorkerTypeOK
      /\ pc[w] \in Phases => job[w] \in Jobs /\ retries[w] \in 0..MaxRetries
      BY DEF TypeInv, WorkerInv, WorkerTypeOK
<1>2. ASSUME NEW i \in Jobs, NEW k \in 0..MaxRetries, Deliver(w, i, k) PROVE JobInv(j)'
  <2>1. OnlyWorker(w, j)
        BY <1>1, <1>2 DEF Deliver, OnlyWorker, apiVars, WorkerTypeOK
  <2>2. status'[j] = status[j] /\ w \notin Held(j)
        BY <1>2 DEF Deliver, rowVars, Held, Holds, Phases
  <2>3. InQueue(j) => \/ InQueue(j)' \/ j \in excused'
                      \/ RowExists(j) /\ w \in Held(j)' /\ pc'[w] # "canonicalize"
    <3>1. CASE i # j
          BY <1>2, <3>1, TakeLeavesOthers DEF Deliver
    <3>2. CASE i = j
          BY <1>1, <1>2, <3>2 DEF Deliver, Held, Holds, Phases, WorkerTypeOK
    <3>3. QED
          BY <3>1, <3>2
  <2>4. QED
        BY <1>1, <2>1, <2>2, <2>3, WorkerFrame
<1>3. ASSUME NEW i \in Jobs, NEW k \in 0..MaxRetries, Discard(w, i, k) PROVE JobInv(j)'
  <2>1. OnlyWorker(w, j)
        BY <1>3 DEF Discard, Excuse, OnlyWorker, apiVars, workerVars
  <2>2. status'[j] = status[j] /\ w \notin Held(j)
        BY <1>3 DEF Discard, rowVars, Held, Holds, Phases
  <2>3. InQueue(j) => InQueue(j)' \/ j \in excused'
        BY <1>3, TakeLeavesOthers DEF Discard, Excuse
  <2>4. QED
        BY <1>1, <2>1, <2>2, <2>3, WorkerFrame
<1>4. CASE Setup(w)
  <2>1. /\ pc[w] \in Phases /\ Goto(w, "pipeline") /\ "pipeline" \in Phases
        /\ UNCHANGED <<apiVars, historyVars, ready, canonicalized, status>>
        BY <1>4 DEF Setup, rowVars, brokerVars, Phases
  <2>2. QED
        BY <2>1, GotoJobInv
<1>5. CASE Canonicalize(w)
  <2>1. /\ pc[w] \in Phases /\ Goto(w, "ack") /\ "ack" \in Phases
        /\ UNCHANGED <<apiVars, historyVars, ready, status>>
        /\ canonicalized \subseteq canonicalized'
        /\ pc[w] = "canonicalize" /\ job[w] \in canonicalized'
        BY <1>5 DEF Canonicalize, rowVars, brokerVars, Phases
  <2>2. QED
        BY <2>1, GotoJobInv
<1>6. CASE Retry(w)
  <2>1. OnlyWorker(w, j)
        BY <1>1, <1>6 DEF Retry, Goto, OnlyWorker, apiVars, historyVars, WorkerTypeOK
  <2>2. (job[w] = j => InQueue(j)') /\ (InQueue(j) => InQueue(j)')
    <3>1. retries[w] + 1 \in 0..MaxRetries
          BY <1>6, ConstantFacts DEF Retry, TypeInv, WorkerInv, WorkerTypeOK, RetriesLeft
    <3>2. job[w] \in Jobs /\ ready' = Redeliver(job[w], retries[w] + 1)
          BY <1>1, <1>6 DEF Retry, Publish, Redeliver, Phases
    <3>3. QED
          BY <3>1, <3>2, PublishQueues
  <2>3. status'[j] = status[j]
        BY <1>6 DEF Retry, rowVars
  <2>4. w \in Held(j) => InQueue(j)'
        BY <2>2 DEF Held, Holds
  <2>5. QED
        BY <1>1, <2>1, <2>2, <2>3, <2>4, WorkerFrame
<1>7. CASE Ack(w)
  <2>1. OnlyWorker(w, j)
        BY <1>1, <1>7 DEF Ack, Release, OnlyWorker, apiVars, historyVars, WorkerTypeOK
  <2>2. /\ status'[j] = status[j] /\ w \notin Held(j)
        /\ InQueue(j) => InQueue(j)'
        BY <1>7 DEF Ack, Held, rowVars, brokerVars, InQueue, HasMessage
  <2>3. QED
        BY <1>1, <2>1, <2>2, WorkerFrame
<1>8. CASE Restart(w)
  <2>1. OnlyWorker(w, j)
        BY <1>1, <1>8 DEF Restart, OnlyWorker, apiVars, historyVars, WorkerTypeOK
  <2>2. /\ status'[j] = status[j] /\ w \notin Held(j)
        /\ InQueue(j) => InQueue(j)'
        BY <1>8 DEF Restart, Held, Holds, Phases, rowVars, brokerVars, InQueue, HasMessage
  <2>3. QED
        BY <1>1, <2>1, <2>2, WorkerFrame
<1>9. ASSUME Begin(w) \/ ReportStage(w) PROVE JobInv(j)'
  <2>1. /\ OnlyWorker(w, j)
        /\ pc[w] \in Phases /\ pc'[w] \in {"setup", "pipeline"} /\ job'[w] = job[w]
        /\ SetStatus(job[w], "running") /\ UNCHANGED ready
        BY <1>1, <1>9
        DEF Begin, ReportStage, Goto, OnlyWorker, apiVars, historyVars, brokerVars,
            WorkerTypeOK, Phases
  <2>2. job[w] = j => w \in Held(j)' /\ pc'[w] # "canonicalize"
        BY <2>1 DEF Held, Holds, Phases
  <2>3. status'[j] = IF job[w] = j /\ RowExists(j) THEN "running" ELSE status[j]
        BY <1>1, <2>1, StatusOfOthers DEF RowTypeOK
  <2>4. CASE job[w] = j /\ RowExists(j)
        BY <1>1, <2>1, <2>2, <2>3, <2>4 DEF JobInv, OnlyWorker, RowExists, Pending
  <2>5. CASE ~(job[w] = j /\ RowExists(j))
    <3>1. InQueue(j) => InQueue(j)'
          BY <2>1 DEF InQueue, HasMessage
    <3>2. w \in Held(j) => w \in Held(j)' /\ pc'[w] # "canonicalize"
          BY <2>2 DEF Held, Holds
    <3>3. QED
          BY <1>1, <2>1, <2>3, <2>5, <3>1, <3>2, WorkerFrame
  <2>6. QED
        BY <2>4, <2>5
<1>10. ASSUME MarkDone(w) \/ MarkFailed(w) PROVE JobInv(j)'
  <2> DEFINE s == IF MarkDone(w) THEN "completed" ELSE "failed"
  <2>1. /\ OnlyWorker(w, j)
        /\ pc[w] \in {"pipeline", "fail"} /\ pc'[w] \in Phases /\ job'[w] = job[w]
        /\ MarkDone(w) => pc'[w] = IF BuildGraph THEN "canonicalize" ELSE "ack"
        /\ SetStatus(job[w], s) /\ UNCHANGED ready
        BY <1>1, <1>10
        DEF MarkDone, MarkFailed, Goto, OnlyWorker, apiVars, historyVars, brokerVars,
            WorkerTypeOK, Phases
  <2> HIDE DEF s
  <2>2. status'[j] = IF job[w] = j /\ RowExists(j) THEN s ELSE status[j]
        BY <1>1, <2>1, StatusOfOthers DEF RowTypeOK
  <2>3. CASE job[w] = j /\ RowExists(j)
    <3>1. RowExists(j)' /\ status'[j] = s /\ s \in {"completed", "failed"}
          BY <2>1, <2>2, <2>3 DEF RowExists, OnlyWorker, s
    <3>2. s = "completed" /\ BuildGraph => w \in Held(j)'
          BY <2>1, <2>3 DEF s, Held, Holds, Phases
    <3>3. QED
          BY <3>1, <3>2 DEF JobInv, RowExists, Active
  <2>4. CASE job[w] # j
    <3>1. InQueue(j) => InQueue(j)'
          BY <2>1 DEF InQueue, HasMessage
    <3>2. w \notin Held(j)
          BY <2>4 DEF Held, Holds
    <3>3. QED
          BY <1>1, <2>1, <2>2, <2>4, <3>1, <3>2, WorkerFrame
  <2>5. CASE job[w] = j /\ ~RowExists(j)
    <3>1. ~RowExists(j)' /\ status'[j] = "none" /\ ~cancel'[j]
          BY <1>1, <2>1, <2>2, <2>5 DEF JobInv, RowExists, OnlyWorker
    <3>2. InQueue(j)' <=> InQueue(j)
          BY <2>1 DEF InQueue, HasMessage
    <3>3. QED
          BY <1>1, <2>1, <3>1, <3>2 DEF JobInv, OnlyWorker, RowExists
  <2>6. QED
        BY <2>3, <2>4, <2>5
<1>11. ASSUME NEW i \in Jobs, HandleRevoke(w, i) PROVE JobInv(j)'
  <2>1. OnlyWorker(w, j)
        BY <1>1, <1>11
        DEF HandleRevoke, Release, Excuse, OnlyWorker, apiVars, workerVars, WorkerTypeOK
  <2>2. status'[j] = status[j] /\ (InQueue(j) => InQueue(j)')
        BY <1>11 DEF HandleRevoke, rowVars, InQueue, HasMessage
  <2>3. w \in Held(j) => j \in excused' \/ (w \in Held(j)' /\ pc'[w] = pc[w])
        BY <1>11 DEF HandleRevoke, Excuse, Held, Holds, workerVars
  <2>4. QED
        BY <1>1, <2>1, <2>2, <2>3, WorkerFrame
<1>12. QED
       BY <1>2, <1>3, <1>4, <1>5, <1>6, <1>7, <1>8, <1>9, <1>10, <1>11
       DEF Receive, WorkerStep

LEMMA FailureJobInv ==
    ASSUME IInv, NEW j \in Jobs, NEW w \in Workers,
           \/ BeginFails(w) \/ SetupFails(w) \/ PipelineFails(w)
           \/ CanonicalizeFails(w) \/ RetryFails(w) \/ MarkFailedFails(w)
           \/ ChildKilled(w) \/ Crash(w) \/ VisibilityTimeout(w)
    PROVE  JobInv(j)'
<1> USE DEF IInv
<1>1. /\ JobInv(j) /\ RowTypeOK /\ WorkerTypeOK
      /\ pc[w] \in Phases => job[w] \in Jobs /\ retries[w] \in 0..MaxRetries
      BY DEF TypeInv, WorkerInv, WorkerTypeOK
<1>2. CASE BeginFails(w) \/ SetupFails(w) \/ RetryFails(w) \/ MarkFailedFails(w) \/ ChildKilled(w)
      BY <1>2, GiveUpJobInv
      DEF BeginFails, SetupFails, RetryFails, MarkFailedFails, ChildKilled, Phases
<1>3. CASE PipelineFails(w) \/ CanonicalizeFails(w)
  <2>1. PICK t \in BOOLEAN : pc[w] \in Phases /\ Raise(w, t)
        BY <1>3 DEF PipelineFails, CanonicalizeFails, Phases
  <2>2. AfterError(w, t) \in Phases /\ AfterError(w, t) \notin {"ack", "canonicalize"}
        BY DEF AfterError, Phases
  <2>3. /\ Goto(w, AfterError(w, t))
        /\ UNCHANGED <<apiVars, historyVars, ready, canonicalized, status>>
        BY <2>1 DEF Raise, rowVars, brokerVars
  <2>4. QED
        BY <2>1, <2>2, <2>3, GotoJobInv
<1>4. CASE Crash(w)
  <2>1. OnlyWorker(w, j)
        BY <1>1, <1>4 DEF Crash, Release, OnlyWorker, apiVars, WorkerTypeOK
  <2>2. /\ InQueue(j) => InQueue(j)'
        /\ w \in Held(j) => InQueue(j)'
    <3>1. CASE pc[w] \in Phases
          BY <1>1, <1>4, <3>1, PublishQueues DEF Crash, Held, Holds
    <3>2. CASE pc[w] \notin Phases
          BY <1>4, <3>2 DEF Crash, Held, Holds, InQueue, HasMessage
    <3>3. QED
          BY <3>1, <3>2
  <2>3. status'[j] = status[j]
        BY <1>4 DEF Crash, rowVars
  <2>4. QED
        BY <1>1, <2>1, <2>2, <2>3, WorkerFrame
<1>5. CASE VisibilityTimeout(w)
  <2>1. OnlyWorker(w, j)
        BY <1>5 DEF VisibilityTimeout, OnlyWorker, apiVars, workerVars
  <2>2. job[w] \in Jobs /\ ready' = Redeliver(job[w], retries[w])
        BY <1>1, <1>5 DEF VisibilityTimeout, Publish, Redeliver
  <2>3. /\ InQueue(j) => InQueue(j)'
        /\ w \in Held(j) => InQueue(j)'
        BY <1>1, <1>5, <2>2, PublishQueues DEF VisibilityTimeout, Held, Holds
  <2>4. status'[j] = status[j]
        BY <1>5 DEF VisibilityTimeout, rowVars
  <2>5. QED
        BY <1>1, <2>1, <2>3, <2>4, WorkerFrame
<1>6. QED
      BY <1>2, <1>3, <1>4, <1>5

LEMMA NextIInv == IInv /\ [Next]_vars => IInv'
<1> SUFFICES ASSUME IInv, [Next]_vars PROVE IInv'
    OBVIOUS
<1>1. ASSUME NEW j \in Jobs PROVE JobInv(j)'
  <2>1. CASE UNCHANGED vars
        BY <2>1, JobUntouched
        DEF IInv, vars, apiVars, rowVars, brokerVars, workerVars, historyVars
  <2>2. CASE Next
        BY <2>2, ApiJobInv, WorkerJobInv, FailureJobInv DEF Next, Failure
  <2>3. QED
        BY <2>1, <2>2
<1>2. QED
      BY <1>1, NextTypeInv DEF IInv

LEMMA IInvHolds == Spec => []IInv
BY InitIInv, NextIInv, PTL DEF Spec

\* Late acknowledgement loses no job, whatever the number of workers, retries,
\* crashes and redeliveries.
THEOREM JobsAreNotLost == Spec => []NoLostJob
<1>1. IInv => NoLostJob
      BY DEF IInv, JobInv, NoLostJob
<1>2. QED
      BY <1>1, IInvHolds, PTL

\* No crash or redelivery makes a completed job skip entity resolution.
THEOREM CanonicalizationIsNotMissed == Spec => []NoMissedCanonicalize
<1>1. IInv => NoMissedCanonicalize
      BY DEF IInv, JobInv, NoMissedCanonicalize
<1>2. QED
      BY <1>1, IInvHolds, PTL

-----------------------------------------------------------------------------
(***************************************************************************)
(* A settled cancellation.                                                 *)
(***************************************************************************)
Crashes == \E w \in Workers : pc[w] # "down" /\ pc'[w] = "down"

LEMMA ApiKeepsSettled ==
    ASSUME IInv, NEW j \in Jobs, Settled(j),
           \/ UserStep
           \/ \E i \in Jobs : ApiStep(i) \/ EnqueueFails(i) \/ Rollback(i)
    PROVE  Settled(j)'
<1>1. status'[j] = "canceled"
  <2>1. ASSUME NEW i \in Jobs, Commit(i) PROVE status'[j] = "canceled"
        BY <2>1 DEF Commit, Settled, IInv, JobInv, RowExists, TypeInv, RowTypeOK
  <2>2. ASSUME NEW i \in Jobs, CancelCommits(i) PROVE status'[j] = "canceled"
        BY <2>2 DEF CancelCommits, Settled, IInv, TypeInv, RowTypeOK
  <2>3. QED
        BY <2>1, <2>2
        DEF Settled, UserStep, VerifyUpload, DeleteBook, StartIngestion, RetryJob, CreateRow,
            CancelRevokes, ApiStep, Enqueue, EnqueueFails, Rollback, rowVars
<1>2. UNCHANGED <<revoked, pc, job>>
      BY DEF UserStep, VerifyUpload, DeleteBook, StartIngestion, RetryJob, CreateRow,
             CancelRevokes, ApiStep, Enqueue, EnqueueFails, Rollback, Commit, CancelCommits,
             brokerVars, workerVars
<1>3. QED
      BY <1>1, <1>2 DEF Settled, Holds

LEMMA WorkerKeepsSettled ==
    ASSUME IInv, NEW j \in Jobs, Settled(j), NEW w \in Workers, Receive(w) \/ WorkerStep(w)
    PROVE  Settled(j)'
<1>1. /\ status \in [Jobs -> {"none"} \cup Active \cup Terminal]
      /\ revoked \in [Workers -> SUBSET Jobs] /\ WorkerTypeOK
      BY DEF IInv, TypeInv, RowTypeOK, BrokerTypeOK, WorkerInv
<1>2. status'[j] = "canceled"
  <2>1. ASSUME pc[w] \in Phases, NEW s, SetStatus(job[w], s) PROVE status'[j] = "canceled"
        BY <1>1, <2>1, StatusOfOthers DEF Settled, Holds
  <2>2. QED
        BY <2>1
        DEF Settled, Receive, Deliver, Discard, WorkerStep, Begin, Setup, ReportStage, MarkDone,
            Canonicalize, Retry, MarkFailed, Ack, Restart, HandleRevoke, rowVars, Phases
<1>3. ASSUME NEW v \in Workers PROVE j \in revoked'[v]
      BY <1>1
      DEF Settled, Receive, Deliver, Discard, WorkerStep, Begin, Setup, ReportStage, MarkDone,
          Canonicalize, Retry, MarkFailed, Ack, Restart, HandleRevoke, brokerVars
<1>4. ASSUME NEW v \in Workers PROVE ~Holds(v, j)'
  <2>1. CASE Receive(w)
        BY <1>1, <2>1
        DEF Settled, Holds, IsRevoked, Receive, Deliver, Discard, workerVars, WorkerTypeOK
  <2>2. CASE WorkerStep(w)
    <3>1. \/ UNCHANGED job /\ (pc'[v] \in Phases => pc[v] \in Phases)
          \/ Release(w, "idle")
          BY <1>1, <2>2
          DEF WorkerStep, Begin, Setup, ReportStage, MarkDone, Canonicalize, Retry, AfterRetry,
              MarkFailed, Ack, Restart, HandleRevoke, Goto, workerVars, WorkerTypeOK, Phases
    <3>2. QED
          BY <1>1, <3>1 DEF Settled, Holds, Release, WorkerTypeOK, Phases
  <2>3. QED
        BY <2>1, <2>2
<1>5. QED
      BY <1>2, <1>3, <1>4 DEF Settled

LEMMA FailureKeepsSettled ==
    ASSUME IInv, NEW j \in Jobs, Settled(j), NEW w \in Workers,
           \/ BeginFails(w) \/ SetupFails(w) \/ PipelineFails(w)
           \/ CanonicalizeFails(w) \/ RetryFails(w) \/ MarkFailedFails(w)
           \/ ChildKilled(w) \/ Crash(w) \/ VisibilityTimeout(w)
    PROVE  Settled(j)' \/ Crashes
<1>1. WorkerTypeOK
      BY DEF IInv, TypeInv, WorkerInv
<1>2. CASE Crash(w)
      BY <1>1, <1>2 DEF Crash, Release, Crashes, WorkerTypeOK
<1>3. ASSUME pc[w] \in Phases, GiveUp(w) PROVE Settled(j)'
      BY <1>1, <1>3 DEF GiveUp, Release, Settled, Holds, rowVars, brokerVars, WorkerTypeOK, Phases
<1>4. ASSUME pc[w] \in Phases, NEW t \in BOOLEAN, Raise(w, t) PROVE Settled(j)'
      BY <1>1, <1>4
      DEF Raise, AfterError, Goto, Settled, Holds, rowVars, brokerVars, WorkerTypeOK, Phases
<1>5. CASE VisibilityTimeout(w)
      BY <1>5 DEF VisibilityTimeout, Settled, Holds, rowVars, workerVars
<1>6. QED
      BY <1>2, <1>3, <1>4, <1>5
      DEF BeginFails, SetupFails, PipelineFails, CanonicalizeFails, RetryFails, MarkFailedFails,
          ChildKilled, Phases

\* Once every worker knows of a cancellation and none is at work on the job,
\* only a crash can let it be taken up again.
THEOREM CancellationSettles == Spec => SettledCancel
<1>1. ASSUME IInv, [Next]_vars
      PROVE  [\A j \in Jobs : Settled(j) => Settled(j)' \/ Crashes]_vars
  <2>1. ASSUME NEW j \in Jobs, Settled(j), Next PROVE Settled(j)' \/ Crashes
        BY <1>1, <2>1, ApiKeepsSettled, WorkerKeepsSettled, FailureKeepsSettled
        DEF Next, Failure
  <2>2. QED
        BY <1>1, <2>1
<1>2. QED
      BY <1>1, IInvHolds, PTL DEF Spec, SettledCancel, Crashes

-----------------------------------------------------------------------------
(***************************************************************************)
(* The copies of a message.  A message joins the queue when it is sent,    *)
(* when the worker that held it hands it back, or on top of one that is    *)
(* still being served, which is counted.  No job has a message before its  *)
(* request has sent one.                                                   *)
(***************************************************************************)
Queued(j) ==
    {c \in (0..MaxRetries) \X (1..(2 + MaxDisruptions)) : c[2] <= ready[j][c[1]]}

CopyInv(j) ==
    /\ api[j] \in {"unused", "created"} =>
          /\ \A k \in 0..MaxRetries : ready[j][k] = 0
          /\ \A w \in Workers : ~Holds(w, j)
    /\ Cardinality(Queued(j)) + Cardinality(Held(j)) <= 1 + duplicates[j]
    /\ duplicates[j] <= disruptions

CopiesInv == TypeInv /\ \A j \in Jobs : CopyInv(j)

LEMMA CopiesAreFinite ==
    ASSUME NEW j
    PROVE  /\ IsFiniteSet(Queued(j)) /\ Cardinality(Queued(j)) \in Nat
           /\ IsFiniteSet(Queued(j)') /\ Cardinality(Queued(j)') \in Nat
           /\ IsFiniteSet(Held(j)) /\ Cardinality(Held(j)) \in Nat
           /\ IsFiniteSet(Held(j)') /\ Cardinality(Held(j)') \in Nat
<1> DEFINE All == (0..MaxRetries) \X (1..(2 + MaxDisruptions))
<1>1. IsFiniteSet(All)
  <2>1. IsFiniteSet(0..MaxRetries) /\ IsFiniteSet(1..(2 + MaxDisruptions))
        BY ConstantFacts, FS_Interval
  <2>2. QED
        BY <2>1, FS_Product
<1>2. Queued(j) \in SUBSET All /\ Queued(j)' \in SUBSET All
      BY DEF Queued
<1>3. Held(j) \in SUBSET Workers /\ Held(j)' \in SUBSET Workers /\ IsFiniteSet(Workers)
      BY ConstantsAssumption DEF Held
<1> HIDE DEF All
<1>4. /\ IsFiniteSet(Queued(j)) /\ IsFiniteSet(Queued(j)')
      /\ IsFiniteSet(Held(j)) /\ IsFiniteSet(Held(j)')
      BY <1>1, <1>2, <1>3, FS_Subset
<1>5. QED
      BY <1>4, FS_CardinalityType

\* A message more: one copy more of its job, and none of the others.
LEMMA MoreQueued ==
    ASSUME TypeInv, NEW i \in Jobs, NEW k \in 0..MaxRetries, ready' = Redeliver(i, k)
    PROVE  /\ Cardinality(Queued(i)') <= Cardinality(Queued(i)) + 1
           /\ \A j \in Jobs \ {i} : Queued(j)' = Queued(j)
<1>1. \A j \in Jobs, n \in 0..MaxRetries :
          /\ ready[j][n] \in Nat
          /\ ready'[j][n] = IF j = i /\ n = k THEN ready[j][n] + 1 ELSE ready[j][n]
      BY DEF Redeliver, TypeInv, BrokerTypeOK
<1> DEFINE new == <<k, ready[i][k] + 1>>
<1>2. Queued(i)' \in SUBSET (Queued(i) \cup {new})
  <2>1. ASSUME NEW c \in Queued(i)' PROVE c \in Queued(i) \cup {new}
    <3>1. PICK n \in 0..MaxRetries, m \in 1..(2 + MaxDisruptions) :
              c = <<n, m>> /\ m <= ready'[i][n]
          BY <2>1 DEF Queued
    <3>2. CASE n = k /\ m = ready[i][k] + 1
          BY <3>1, <3>2
    <3>3. CASE ~(n = k /\ m = ready[i][k] + 1)
      <4>1. m \in Nat /\ ready[i][n] \in Nat
            BY <1>1
      <4>2. m <= ready[i][n]
            BY <1>1, <3>1, <3>3, <4>1
      <4>3. QED
            BY <3>1, <4>2 DEF Queued
    <3>4. QED
          BY <3>2, <3>3
  <2>2. QED
        BY <2>1
<1> HIDE DEF new
<1>3. /\ IsFiniteSet(Queued(i) \cup {new})
      /\ Cardinality(Queued(i) \cup {new}) <= Cardinality(Queued(i)) + 1
  <2>1. IsFiniteSet(Queued(i)) /\ Cardinality(Queued(i)) \in Nat
        BY CopiesAreFinite
  <2>2. /\ IsFiniteSet(Queued(i) \cup {new})
        /\ Cardinality(Queued(i) \cup {new}) =
              IF new \in Queued(i) THEN Cardinality(Queued(i)) ELSE Cardinality(Queued(i)) + 1
        BY <2>1, FS_AddElement
  <2>3. QED
        BY <2>1, <2>2
<1>4. Cardinality(Queued(i)') <= Cardinality(Queued(i) \cup {new})
      BY <1>2, <1>3, FS_Subset
<1>5. Cardinality(Queued(i) \cup {new}) \in Nat
      BY <1>3, FS_CardinalityType
<1>6. ASSUME NEW j \in Jobs \ {i} PROVE Queued(j)' = Queued(j)
      BY <1>1, <1>6 DEF Queued
<1>7. QED
      BY <1>3, <1>4, <1>5, <1>6, CopiesAreFinite

\* As few copies as there are of a job are all seen by Queued.
LEMMA QueueIsBounded ==
    ASSUME CopiesInv, NEW j \in Jobs, NEW k \in 0..MaxRetries
    PROVE  ready[j][k] \in Nat /\ ready[j][k] <= 2 + MaxDisruptions
<1> DEFINE n == 2 + MaxDisruptions
           f == [c \in 1..n |-> <<k, c>>]
<1>1. n \in Nat /\ ready[j][k] \in Nat
      BY ConstantFacts DEF CopiesInv, TypeInv, BrokerTypeOK
<1>2. SUFFICES ASSUME ready[j][k] > n PROVE FALSE
      BY <1>1
<1>3. f \in Injection(1..n, Queued(j))
  <2>1. \A c \in 1..n : f[c] \in Queued(j)
        BY <1>1, <1>2 DEF Queued
  <2>2. \A c, d \in 1..n : f[c] = f[d] => c = d
        OBVIOUS
  <2>3. f \in [1..n -> Queued(j)]
        BY <2>1
  <2>4. QED
        BY <2>2, <2>3 DEF Injection, IsInjective
<1> HIDE DEF f
<1>4. Cardinality(1..n) <= Cardinality(Queued(j))
      BY <1>3, CopiesAreFinite, FS_Injection
<1>5. Cardinality(1..n) = n
      BY <1>1, FS_Interval
<1>6. /\ Cardinality(Queued(j)) + Cardinality(Held(j)) <= 1 + duplicates[j]
      /\ duplicates[j] <= disruptions /\ duplicates[j] \in Nat
      /\ disruptions \in 0..MaxDisruptions
      BY DEF CopiesInv, CopyInv, TypeInv, HistoryTypeOK
<1>7. QED
      BY <1>1, <1>4, <1>5, <1>6, ConstantFacts, CopiesAreFinite

\* A message taken: one copy less of its job.
LEMMA FewerQueued ==
    ASSUME CopiesInv, NEW i \in Jobs, NEW k \in 0..MaxRetries, HasMessage(i, k),
           ready' = [ready EXCEPT ![i][k] = @ - 1]
    PROVE  /\ Cardinality(Queued(i)') = Cardinality(Queued(i)) - 1
           /\ \A j \in Jobs \ {i} : Queued(j)' = Queued(j)
<1>1. \A j \in Jobs, n \in 0..MaxRetries :
          /\ ready[j][n] \in Nat
          /\ ready'[j][n] = IF j = i /\ n = k THEN ready[j][n] - 1 ELSE ready[j][n]
      BY DEF CopiesInv, TypeInv, BrokerTypeOK
<1>2. ready[i][k] \in 1..(2 + MaxDisruptions)
      BY QueueIsBounded, ConstantFacts DEF HasMessage
<1> DEFINE last == <<k, ready[i][k]>>
<1>3. last \in Queued(i)
      BY <1>2 DEF Queued
<1>4. Queued(i)' = Queued(i) \ {last}
  <2>1. ASSUME NEW n \in 0..MaxRetries, NEW m \in 1..(2 + MaxDisruptions)
        PROVE  m <= ready'[i][n] <=> m <= ready[i][n] /\ ~(n = k /\ m = ready[i][k])
    <3>1. m \in Nat /\ ready[i][n] \in Nat
          BY <1>1
    <3>2. QED
          BY <1>1, <3>1
  <2>2. QED
        BY <2>1 DEF Queued
<1> HIDE DEF last
<1>5. Cardinality(Queued(i)') = Cardinality(Queued(i)) - 1
      BY <1>3, <1>4, CopiesAreFinite, FS_RemoveElement
<1>6. ASSUME NEW j \in Jobs \ {i} PROVE Queued(j)' = Queued(j)
      BY <1>1, <1>6 DEF Queued
<1>7. QED
      BY <1>5, <1>6

\* No worker but w does anything.
Others(w) == \A v \in Workers \ {w} : pc'[v] = pc[v] /\ job'[v] = job[v]

LEMMA HeldCounts ==
    ASSUME NEW w \in Workers, NEW j, Others(w)
    PROVE  /\ w \notin Held(j)' \/ w \in Held(j) => Cardinality(Held(j)') <= Cardinality(Held(j))
           /\ w \notin Held(j)' /\ w \in Held(j) => Cardinality(Held(j)') = Cardinality(Held(j)) - 1
           /\ Cardinality(Held(j)') <= Cardinality(Held(j)) + 1
<1>0. IsFiniteSet(Held(j)) /\ Cardinality(Held(j)) \in Nat
      BY CopiesAreFinite
<1>1. Held(j)' \ {w} = Held(j) \ {w}
      BY DEF Others, Held, Holds
<1>2. CASE w \in Held(j)' /\ w \in Held(j)
  <2>1. Held(j)' = Held(j)
        BY <1>1, <1>2
  <2>2. QED
        BY <1>2, <2>1, CopiesAreFinite
<1>3. CASE w \in Held(j)' /\ w \notin Held(j)
  <2>1. Held(j)' = Held(j) \cup {w}
        BY <1>1, <1>3
  <2>2. Cardinality(Held(j) \cup {w}) = Cardinality(Held(j)) + 1
        BY <1>0, <1>3, FS_AddElement
  <2>3. QED
        BY <1>0, <1>3, <2>1, <2>2
<1>4. CASE w \notin Held(j)' /\ w \in Held(j)
  <2>1. Held(j)' = Held(j) \ {w}
        BY <1>1, <1>4
  <2>2. Cardinality(Held(j) \ {w}) = Cardinality(Held(j)) - 1
        BY <1>0, <1>4, FS_RemoveElement
  <2>3. QED
        BY <1>0, <1>4, <2>1, <2>2
<1>5. CASE w \notin Held(j)' /\ w \notin Held(j)
  <2>1. Held(j)' = Held(j)
        BY <1>1, <1>5
  <2>2. QED
        BY <1>5, <2>1, CopiesAreFinite
<1>6. QED
      BY <1>2, <1>3, <1>4, <1>5

\* A step that leaves the queue alone and gives no worker a message.
LEMMA CopyFrame ==
    ASSUME NEW w \in Workers, NEW j \in Jobs, CopyInv(j), Others(w),
           UNCHANGED <<api, ready, duplicates, disruptions>>,
           Holds(w, j)' => Holds(w, j) /\ (pc[w] = "ack" => pc'[w] = "ack"),
           duplicates[j] \in Nat
    PROVE  CopyInv(j)'
<1>1. Queued(j)' = Queued(j)
      BY DEF Queued
<1>2. Cardinality(Held(j)') <= Cardinality(Held(j))
      BY HeldCounts DEF Held
<1>3. \A v \in Workers : Holds(v, j)' => Holds(v, j)
      BY DEF Others, Holds
<1>4. QED
      BY <1>1, <1>2, <1>3, CopiesAreFinite DEF CopyInv

LEMMA ApiCopyInv ==
    ASSUME CopiesInv, NEW j \in Jobs,
           \/ UserStep
           \/ \E i \in Jobs : ApiStep(i) \/ EnqueueFails(i) \/ Rollback(i)
    PROVE  CopyInv(j)'
<1>1. /\ api \in [Jobs -> {"unused", "created", "enqueued", "committed", "rolledback"}]
      /\ duplicates[j] \in Nat /\ CopyInv(j)
      BY DEF CopiesInv, TypeInv, ApiTypeOK, HistoryTypeOK
<1>2. ASSUME UNCHANGED <<pc, job, duplicates, disruptions>>, UNCHANGED ready,
             api'[j] \in {"unused", "created"} => api[j] \in {"unused", "created"}
      PROVE  CopyInv(j)'
  <2>1. Queued(j)' = Queued(j) /\ Held(j)' = Held(j) /\ \A w \in Workers : Holds(w, j)' = Holds(w, j)
        BY <1>2 DEF Queued, Held, Holds
  <2>2. QED
        BY <1>1, <1>2, <2>1 DEF CopyInv
<1>3. ASSUME NEW i \in Jobs, NEW b, CreateRow(i, b) PROVE CopyInv(j)'
      BY <1>1, <1>2, <1>3 DEF CreateRow, brokerVars, workerVars, historyVars
<1>4. ASSUME NEW i \in Jobs, EnqueueFails(i) \/ Rollback(i) \/ Commit(i) PROVE CopyInv(j)'
      BY <1>1, <1>2, <1>4 DEF EnqueueFails, Rollback, Commit, brokerVars, workerVars, historyVars
<1>5. ASSUME NEW i \in Jobs, CancelRevokes(i) \/ CancelCommits(i) PROVE CopyInv(j)'
      BY <1>2, <1>5 DEF CancelRevokes, CancelCommits, brokerVars, workerVars, historyVars
<1>6. ASSUME NEW b \in Books, VerifyUpload(b) \/ DeleteBook(b) PROVE CopyInv(j)'
      BY <1>2, <1>6 DEF VerifyUpload, DeleteBook, brokerVars, workerVars, historyVars
<1>7. ASSUME NEW i \in Jobs, Enqueue(i) PROVE CopyInv(j)'
  <2>1. 0 \in 0..MaxRetries /\ ready' = Redeliver(i, 0) /\ UNCHANGED <<pc, job, duplicates, disruptions>>
        BY <1>7, ConstantFacts DEF Enqueue, Redeliver, workerVars, historyVars
  <2>2. Held(j)' = Held(j) /\ \A w \in Workers : Holds(w, j)' = Holds(w, j)
        BY <2>1 DEF Held, Holds
  <2>3. CASE i = j
    <3>1. api[j] = "created" /\ api'[j] = "enqueued"
          BY <1>1, <1>7, <2>3 DEF Enqueue
    <3>2. Held(j) = {}
          BY <1>1, <3>1 DEF CopyInv, Held
    <3>3. Queued(j) = {}
      <4>1. \A k \in 0..MaxRetries : ready[j][k] = 0
            BY <1>1, <3>1 DEF CopyInv
      <4>2. QED
            BY <4>1 DEF Queued
    <3>4. Cardinality(Queued(j)) = 0 /\ Cardinality(Held(j)) = 0
          BY <3>2, <3>3, FS_EmptySet
    <3>5. Cardinality(Queued(j)') <= Cardinality(Queued(j)) + 1
          BY <2>1, <2>3, MoreQueued DEF CopiesInv
    <3>6. QED
          BY <1>1, <2>1, <2>2, <3>1, <3>4, <3>5, CopiesAreFinite DEF CopyInv
  <2>4. CASE i # j
    <3>1. Queued(j)' = Queued(j)
          BY <2>1, <2>4, MoreQueued DEF CopiesInv
    <3>2. api'[j] = api[j] /\ ready'[j] = ready[j]
          BY <1>1, <1>7, <2>4 DEF Enqueue, CopiesInv, TypeInv, BrokerTypeOK
    <3>3. QED
          BY <1>1, <2>1, <2>2, <3>1, <3>2 DEF CopyInv
  <2>5. QED
        BY <2>3, <2>4
<1>8. QED
      BY <1>3, <1>4, <1>5, <1>6, <1>7 DEF UserStep, ApiStep, StartIngestion, RetryJob

\* A message of job i goes to the queue; what else happens to worker w or to
\* the count of duplicates makes up for it.
LEMMA PublishCopyInv ==
    ASSUME CopiesInv, NEW j \in Jobs, NEW w \in Workers, Others(w),
           NEW i \in Jobs, Holds(w, i),
           NEW k \in 0..MaxRetries, ready' = Redeliver(i, k),
           UNCHANGED api, disruptions' \in Nat, disruptions' >= disruptions,
           Holds(w, j)' => Holds(w, j),
           \/ w \in Held(i) /\ w \notin Held(i)' /\ UNCHANGED duplicates
           \/ Duplicate(i) /\ disruptions' = disruptions + 1,
           w \in Held(j)' => w \in Held(j)
    PROVE  CopyInv(j)'
<1>1. /\ duplicates \in [Jobs -> Nat] /\ disruptions \in Nat /\ CopyInv(j)
      /\ ready \in [Jobs -> [0..MaxRetries -> Nat]]
  <2>1. disruptions \in Nat
        BY ConstantFacts DEF CopiesInv, TypeInv, HistoryTypeOK
  <2>2. QED
        BY <2>1 DEF CopiesInv, TypeInv, BrokerTypeOK, HistoryTypeOK
<1> DEFINE q == Cardinality(Queued(j))
           h == Cardinality(Held(j))
<1>0. /\ q \in Nat /\ h \in Nat /\ q' \in Nat /\ h' \in Nat
      /\ q + h <= 1 + duplicates[j] /\ duplicates[j] <= disruptions /\ duplicates[j] \in Nat
      BY <1>1, CopiesAreFinite DEF CopyInv
<1> HIDE DEF q, h
<1>2. \A v \in Workers : Holds(v, j)' => Holds(v, j)
      BY DEF Others, Holds
<1>3. h' <= h
      BY HeldCounts DEF h
<1>4. CASE j = i
  <2>1. q' <= q + 1
        BY <1>1, <1>4, MoreQueued DEF q, CopiesInv
  <2>2. api[j] \notin {"unused", "created"}
        BY <1>1, <1>4 DEF CopyInv
  <2>3. CASE w \in Held(j) /\ w \notin Held(j)' /\ UNCHANGED duplicates
    <3>1. h' = h - 1
          BY <2>3, HeldCounts DEF h
    <3>2. q' + h' <= 1 + duplicates'[j] /\ duplicates'[j] <= disruptions'
          BY <1>0, <1>1, <2>1, <2>3, <3>1
    <3>3. QED
          BY <2>2, <3>2 DEF q, h, CopyInv
  <2>4. CASE Duplicate(j) /\ disruptions' = disruptions + 1
    <3>1. duplicates'[j] = duplicates[j] + 1
          BY <1>1, <2>4 DEF Duplicate
    <3>2. q' + h' <= 1 + duplicates'[j] /\ duplicates'[j] <= disruptions'
          BY <1>0, <1>1, <1>3, <2>1, <2>4, <3>1
    <3>3. QED
          BY <2>2, <3>2 DEF q, h, CopyInv
  <2>5. \/ w \in Held(j) /\ w \notin Held(j)' /\ UNCHANGED duplicates
        \/ Duplicate(j) /\ disruptions' = disruptions + 1
        BY <1>4
  <2>6. QED
        BY <2>3, <2>4, <2>5
<1>5. CASE j # i
  <2>1. Queued(j)' = Queued(j)
        BY <1>1, <1>5, MoreQueued DEF CopiesInv
  <2>2. duplicates'[j] = duplicates[j] /\ ready'[j] = ready[j]
        BY <1>1, <1>5 DEF Duplicate, Redeliver
  <2>3. q' + h' <= 1 + duplicates'[j] /\ duplicates'[j] <= disruptions'
        BY <1>0, <1>1, <1>3, <2>1, <2>2 DEF q
  <2>4. QED
        BY <1>1, <1>2, <2>2, <2>3 DEF q, h, CopyInv
<1>6. QED
      BY <1>4, <1>5

\* A message of job i leaves the queue, for worker w or for nobody.
LEMMA TakeCopyInv ==
    ASSUME CopiesInv, NEW j \in Jobs, NEW w \in Workers, Others(w), NEW i \in Jobs,
           NEW k \in 0..MaxRetries, HasMessage(i, k),
           ready' = [ready EXCEPT ![i][k] = @ - 1],
           UNCHANGED <<api, duplicates, disruptions>>,
           \/ UNCHANGED <<pc, job>>
           \/ pc[w] = "idle" /\ job'[w] = i
    PROVE  CopyInv(j)'
<1>1. /\ duplicates[j] \in Nat /\ CopyInv(j) /\ CopyInv(i)
      /\ ready \in [Jobs -> [0..MaxRetries -> Nat]]
      BY DEF CopiesInv, TypeInv, BrokerTypeOK, HistoryTypeOK
<1>2. api[i] \notin {"unused", "created"}
      BY <1>1 DEF CopyInv, HasMessage
<1>3. CASE j = i
  <2>1. Cardinality(Queued(j)') = Cardinality(Queued(j)) - 1
        BY <1>3, FewerQueued
  <2>2. Cardinality(Held(j)') <= Cardinality(Held(j)) + 1
        BY HeldCounts
  <2>3. QED
        BY <1>1, <1>2, <1>3, <2>1, <2>2, CopiesAreFinite DEF CopyInv
<1>4. CASE j # i
  <2>1. Queued(j)' = Queued(j) /\ ready'[j] = ready[j]
        BY <1>1, <1>4, FewerQueued
  <2>2. \A v \in Workers : Holds(v, j)' => Holds(v, j)
        BY <1>4 DEF Others, Holds
  <2>3. w \in Held(j)' => w \in Held(j)
        BY <1>4 DEF Held, Holds
  <2>4. Cardinality(Held(j)') <= Cardinality(Held(j))
        BY <2>3, HeldCounts
  <2>5. QED
        BY <1>1, <2>1, <2>2, <2>4, CopiesAreFinite DEF CopyInv
<1>5. QED
      BY <1>3, <1>4

LEMMA WorkerCopyInv ==
    ASSUME CopiesInv, NEW j \in Jobs, NEW w \in Workers, Receive(w) \/ WorkerStep(w)
    PROVE  CopyInv(j)'
<1>1. /\ WorkerTypeOK /\ duplicates[j] \in Nat /\ CopyInv(j)
      /\ pc[w] \in Phases => job[w] \in Jobs
      BY DEF CopiesInv, TypeInv, WorkerInv, HistoryTypeOK
<1>2. ASSUME NEW i \in Jobs, NEW k \in 0..MaxRetries, Deliver(w, i, k) \/ Discard(w, i, k)
      PROVE  CopyInv(j)'
  <2>1. Others(w) /\ job' \in [Workers -> Jobs \cup {NoJob}]
        BY <1>1, <1>2 DEF Deliver, Discard, Others, workerVars, WorkerTypeOK
  <2>2. /\ HasMessage(i, k) /\ ready' = [ready EXCEPT ![i][k] = @ - 1]
        /\ UNCHANGED <<api, duplicates, disruptions>>
        BY <1>2 DEF Deliver, Discard, apiVars
  <2>3. \/ UNCHANGED <<pc, job>>
        \/ pc[w] = "idle" /\ job'[w] = i
        BY <1>1, <1>2 DEF Deliver, Discard, workerVars, WorkerTypeOK
  <2>4. QED
        BY <2>1, <2>2, <2>3, TakeCopyInv
<1>3. ASSUME pc[w] \in Phases \ {"ack"}, NEW next \in Phases, Goto(w, next),
             UNCHANGED <<api, ready, duplicates, disruptions>>
      PROVE  CopyInv(j)'
  <2>1. Others(w) /\ (Holds(w, j)' => Holds(w, j) /\ pc[w] # "ack")
        BY <1>1, <1>3 DEF Goto, Others, Holds, WorkerTypeOK
  <2>2. QED
        BY <1>1, <1>3, <2>1, CopyFrame
<1>4. ASSUME NEW next \in Idle, Release(w, next), UNCHANGED <<api, ready, duplicates, disruptions>>
      PROVE  CopyInv(j)'
  <2>1. Others(w) /\ ~Holds(w, j)'
        BY <1>1, <1>4 DEF Release, Others, Holds, WorkerTypeOK, Idle, Phases
  <2>2. QED
        BY <1>1, <1>4, <2>1, CopyFrame
<1>5. ASSUME UNCHANGED <<pc, job>>, UNCHANGED <<api, ready, duplicates, disruptions>>
      PROVE  CopyInv(j)'
  <2>1. Others(w) /\ Holds(w, j)' = Holds(w, j)
        BY <1>5 DEF Others, Holds
  <2>2. QED
        BY <1>1, <1>5, <2>1, CopyFrame
<1>6. CASE Begin(w) \/ Setup(w) \/ MarkDone(w) \/ Canonicalize(w) \/ MarkFailed(w)
      BY <1>3, <1>6
      DEF Begin, Setup, MarkDone, Canonicalize, MarkFailed, apiVars, brokerVars, historyVars, Phases
<1>7. CASE ReportStage(w)
      BY <1>5, <1>7 DEF ReportStage, apiVars, brokerVars, historyVars
<1>8. CASE Retry(w)
  <2>1. /\ Holds(w, job[w]) /\ pc[w] = "retry" /\ retries[w] \in 0..MaxRetries
        /\ retries[w] + 1 \in 0..MaxRetries
        BY <1>8, ConstantFacts
        DEF Retry, Holds, Phases, CopiesInv, TypeInv, WorkerInv, WorkerTypeOK, RetriesLeft
  <2>2. ready' = Redeliver(job[w], retries[w] + 1)
        BY <1>8 DEF Retry, Publish, Redeliver
  <2>3. /\ Others(w) /\ (Holds(w, j)' => Holds(w, j))
        /\ w \in Held(job[w]) /\ \A i : w \notin Held(i)'
        /\ job[w] \in Jobs
        BY <1>1, <1>8 DEF Retry, AfterRetry, Goto, Others, Holds, Held, WorkerTypeOK, Phases
  <2>4. disruptions \in Nat /\ UNCHANGED <<api, duplicates, disruptions>>
        BY <1>8, ConstantFacts DEF Retry, apiVars, historyVars, CopiesInv, TypeInv, HistoryTypeOK
  <2>5. disruptions' \in Nat /\ disruptions' >= disruptions
        BY <2>4
  <2>6. QED
        BY <2>1, <2>2, <2>3, <2>4, <2>5, PublishCopyInv
<1>9. CASE Ack(w)
      BY <1>4, <1>9 DEF Ack, apiVars, brokerVars, historyVars, Idle
<1>10. CASE Restart(w)
  <2>1. Others(w) /\ ~Holds(w, j)' /\ UNCHANGED <<api, ready, duplicates, disruptions>>
        BY <1>1, <1>10
        DEF Restart, Others, Holds, WorkerTypeOK, Phases, apiVars, brokerVars, historyVars
  <2>2. QED
        BY <1>1, <2>1, CopyFrame
<1>11. ASSUME NEW i \in Jobs, HandleRevoke(w, i) PROVE CopyInv(j)'
       BY <1>4, <1>5, <1>11 DEF HandleRevoke, apiVars, workerVars, Idle
<1>12. QED
       BY <1>2, <1>6, <1>7, <1>8, <1>9, <1>10, <1>11 DEF Receive, WorkerStep

LEMMA FailureCopyInv ==
    ASSUME CopiesInv, NEW j \in Jobs, NEW w \in Workers,
           \/ BeginFails(w) \/ SetupFails(w) \/ PipelineFails(w)
           \/ CanonicalizeFails(w) \/ RetryFails(w) \/ MarkFailedFails(w)
           \/ ChildKilled(w) \/ Crash(w) \/ VisibilityTimeout(w)
    PROVE  CopyInv(j)'
<1>1. /\ WorkerTypeOK /\ duplicates \in [Jobs -> Nat] /\ CopyInv(j)
      /\ pc[w] \in Phases => job[w] \in Jobs
      /\ disruptions \in Nat /\ retries[w] \in 0..MaxRetries
      BY ConstantFacts DEF CopiesInv, TypeInv, WorkerInv, WorkerTypeOK, HistoryTypeOK
<1>2. ASSUME GiveUp(w) PROVE CopyInv(j)'
  <2>1. /\ Others(w) /\ ~Holds(w, j)'
        /\ UNCHANGED <<api, ready, duplicates, disruptions>>
        BY <1>1, <1>2
        DEF GiveUp, Release, Others, Holds, WorkerTypeOK, Phases, apiVars, brokerVars
  <2>2. QED
        BY <1>1, <2>1, CopyFrame
<1>3. ASSUME pc[w] \in Phases \ {"ack"}, NEW t \in BOOLEAN, Raise(w, t) PROVE CopyInv(j)'
  <2>1. /\ Others(w) /\ (Holds(w, j)' => Holds(w, j))
        /\ UNCHANGED <<api, ready, duplicates, disruptions>>
        BY <1>1, <1>3
        DEF Raise, AfterError, Goto, Others, Holds, WorkerTypeOK, apiVars, brokerVars, historyVars
  <2>2. QED
        BY <1>1, <1>3, <2>1, CopyFrame
<1>4. CASE Crash(w)
  <2>1. /\ Others(w) /\ \A i : ~Holds(w, i)'
        /\ disruptions' = disruptions + 1 /\ UNCHANGED api
        BY <1>1, <1>4
        DEF Crash, Release, Disrupt, Others, Holds, WorkerTypeOK, Phases, apiVars
  <2>2. (\A i : w \notin Held(i)') /\ ~Holds(w, j)'
        BY <2>1 DEF Held
  <2>3. CASE pc[w] \in Phases
    <3>1. Holds(w, job[w]) /\ job[w] \in Jobs /\ ready' = Redeliver(job[w], retries[w])
          BY <1>1, <1>4, <2>3 DEF Crash, Holds
    <3>2. \/ w \in Held(job[w]) /\ UNCHANGED duplicates
          \/ Duplicate(job[w])
          BY <1>4, <3>1 DEF Crash, Held
    <3>3. disruptions' \in Nat /\ disruptions' >= disruptions
          BY <1>1, <2>1
    <3>4. QED
          BY <1>1, <2>1, <2>2, <3>1, <3>2, <3>3, PublishCopyInv
  <2>4. CASE pc[w] \notin Phases
    <3>1. UNCHANGED <<ready, duplicates>>
          BY <1>4, <2>4 DEF Crash, Phases
    <3>2. Queued(j)' = Queued(j) /\ \A v \in Workers : Holds(v, j)' => Holds(v, j)
          BY <2>1, <3>1 DEF Queued, Others, Holds
    <3>3. Cardinality(Held(j)') <= Cardinality(Held(j))
          BY <2>1, <2>2, HeldCounts
    <3>4. QED
          BY <1>1, <2>1, <3>1, <3>2, <3>3, CopiesAreFinite DEF CopyInv
  <2>5. QED
        BY <2>3, <2>4
<1>5. CASE VisibilityTimeout(w)
  <2>1. /\ Holds(w, job[w]) /\ Others(w) /\ Holds(w, j)' = Holds(w, j)
        /\ w \in Held(j)' => w \in Held(j)
        /\ ready' = Redeliver(job[w], retries[w])
        /\ Duplicate(job[w]) /\ disruptions' = disruptions + 1 /\ UNCHANGED api
        BY <1>5
        DEF VisibilityTimeout, Publish, Redeliver, Disrupt, Others, Held, Holds, workerVars, apiVars
  <2>2. disruptions' \in Nat /\ disruptions' >= disruptions
        BY <1>1, <2>1
  <2>3. job[w] \in Jobs
        BY <1>1, <1>5 DEF VisibilityTimeout
  <2>4. QED
        BY <1>1, <2>1, <2>2, <2>3, PublishCopyInv
<1>6. QED
      BY <1>2, <1>3, <1>4, <1>5
      DEF BeginFails, SetupFails, PipelineFails, CanonicalizeFails, RetryFails, MarkFailedFails,
          ChildKilled, Phases

LEMMA InitCopiesInv == Init => CopiesInv
<1> SUFFICES ASSUME Init PROVE CopiesInv
    OBVIOUS
<1>1. ASSUME NEW j \in Jobs PROVE CopyInv(j)
  <2>1. /\ \A k \in 0..MaxRetries : ready[j][k] = 0
        /\ \A w \in Workers : ~Holds(w, j)
        /\ duplicates[j] = 0 /\ disruptions = 0
        BY DEF Init, Holds, Phases
  <2>2. Queued(j) = {} /\ Held(j) = {}
        BY <2>1 DEF Queued, Held
  <2>3. Cardinality(Queued(j)) = 0 /\ Cardinality(Held(j)) = 0
        BY <2>2, FS_EmptySet
  <2>4. QED
        BY <2>1, <2>3 DEF CopyInv
<1>2. QED
      BY <1>1, InitTypeInv DEF CopiesInv

LEMMA NextCopiesInv == CopiesInv /\ [Next]_vars => CopiesInv'
<1> SUFFICES ASSUME CopiesInv, [Next]_vars PROVE CopiesInv'
    OBVIOUS
<1>1. TypeInv'
      BY NextTypeInv DEF CopiesInv
<1>2. ASSUME UNCHANGED vars, NEW j \in Jobs PROVE CopyInv(j)'
  <2>1. Queued(j)' = Queued(j) /\ Held(j)' = Held(j) /\ \A w \in Workers : Holds(w, j)' = Holds(w, j)
        BY <1>2 DEF Queued, Held, Holds, vars, brokerVars, workerVars
  <2>2. QED
        BY <1>2, <2>1 DEF CopiesInv, CopyInv, vars, apiVars, brokerVars, historyVars
<1>3. ASSUME Next, NEW j \in Jobs PROVE CopyInv(j)'
      BY <1>3, ApiCopyInv, WorkerCopyInv, FailureCopyInv DEF Next, Failure
<1>4. QED
      BY <1>1, <1>2, <1>3 DEF CopiesInv

LEMMA AlwaysCopiesInv == Spec => []CopiesInv
BY InitCopiesInv, NextCopiesInv, PTL DEF Spec

\* However often attempts fail, workers crash and messages come again, a job
\* has no more copies at once than its one message and the redeliveries on
\* top of one that is being served: a retry replaces the message it stems
\* from (self.retry in ingest.py, acks_late).
THEOREM CopiesAreAccountedFor == Spec => []DuplicationBound
<1>1. CopiesInv => DuplicationBound
      BY DEF CopiesInv, CopyInv, DuplicationBound, Copies, Queued
<1>2. QED
      BY <1>1, AlwaysCopiesInv, PTL

-----------------------------------------------------------------------------
(***************************************************************************)
(* Progress.  Reports of a whole run do not fall (WholeRunsRise of         *)
(* MCIngestionJobs).  Without duplicates one worker at most is at work on  *)
(* a job, so that the row's progress is what this worker has reported, or  *)
(* less, if the row came later.                                            *)
(***************************************************************************)
ReportsRise ==
    \A i, k \in DOMAIN StageWrites : i < k => StageWrites[i] <= StageWrites[k]

ProgressInv(j) ==
    /\ ~RowExists(j) => progress[j] = 0
    /\ \A w \in Workers :
          Holds(w, j) /\ pc[w] = "pipeline" /\ step[w] > 1 /\ duplicates[j] = 0
              => progress[j] <= StageWrites[step[w] - 1]

ReportsInv == CopiesInv /\ \A j \in Jobs : ProgressInv(j)

LEMMA ReportsAreNatural == \A i \in DOMAIN StageWrites : StageWrites[i] \in Nat
<1> SUFFICES ASSUME NEW i \in DOMAIN StageWrites PROVE StageWrites[i] \in Nat
    OBVIOUS
<1>1. StageWrites[i] \in Permille
      BY ConstantFacts
<1>2. QED
      BY <1>1 DEF Permille

LEMMA OneAtWork ==
    ASSUME CopiesInv, NEW j \in Jobs, duplicates[j] = 0,
           NEW v \in Held(j), NEW w \in Held(j)
    PROVE  v = w
<1>1. Cardinality(Held(j)) <= 1
      BY CopiesAreFinite DEF CopiesInv, CopyInv
<1>2. IsFiniteSet(Held(j)) /\ Cardinality(Held(j)) \in Nat
      BY CopiesAreFinite
<1>3. Cardinality(Held(j)) # 0
      BY <1>2, FS_EmptySet
<1>4. Cardinality(Held(j)) = 1
      BY <1>1, <1>2, <1>3
<1>5. QED
      BY <1>2, <1>4, FS_Singleton

\* Who writes the progress of a job's row.
LEMMA ProgressWrites ==
    ASSUME TypeInv, Next, NEW j \in Jobs
    PROVE  \/ progress'[j] = progress[j]
           \/ Commit(j) /\ progress'[j] = 0
           \/ \E w \in Held(j) :
                /\ RowExists(j)
                /\ \/ ReportStage(w) /\ progress'[j] = StageWrites[step[w]]
                   \/ MarkDone(w) /\ progress'[j] = 1000
<1> USE DEF rowVars
<1>1. progress \in [Jobs -> Permille]
      BY DEF TypeInv, RowTypeOK
<1>2. CASE UserStep
      BY <1>2 DEF UserStep, VerifyUpload, DeleteBook, StartIngestion, RetryJob, CreateRow, CancelRevokes
<1>3. ASSUME NEW i \in Jobs, Enqueue(i) \/ CancelCommits(i) \/ EnqueueFails(i) \/ Rollback(i)
      PROVE  UNCHANGED progress
      BY <1>3 DEF Enqueue, CancelCommits, EnqueueFails, Rollback
<1>4. ASSUME NEW i \in Jobs, Commit(i)
      PROVE  progress'[j] = IF i = j THEN 0 ELSE progress[j]
      BY <1>1, <1>4 DEF Commit
<1>5. ASSUME NEW w \in Workers, ReportStage(w) \/ MarkDone(w)
      PROVE  \/ progress'[j] = progress[j]
             \/ /\ RowExists(j) /\ w \in Held(j)
                /\ \/ ReportStage(w) /\ progress'[j] = StageWrites[step[w]]
                   \/ MarkDone(w) /\ progress'[j] = 1000
  <2>1. pc[w] = "pipeline"
        BY <1>5 DEF ReportStage, MarkDone
  <2>2. job[w] = j => w \in Held(j)
        BY <2>1 DEF Held, Holds, Phases
  <2>3. ASSUME NEW p, SetProgress(job[w], p)
        PROVE  progress'[j] = IF job[w] = j /\ RowExists(j) THEN p ELSE progress[j]
        BY <1>1, <2>3 DEF SetProgress
  <2>4. CASE ReportStage(w)
    <3>1. SetProgress(job[w], StageWrites[step[w]])
          BY <2>4 DEF ReportStage
    <3>2. QED
          BY <2>2, <2>3, <2>4, <3>1
  <2>5. CASE MarkDone(w)
    <3>1. SetProgress(job[w], 1000)
          BY <2>5 DEF MarkDone
    <3>2. QED
          BY <2>2, <2>3, <2>5, <3>1
  <2>6. QED
        BY <1>5, <2>4, <2>5
<1>6. ASSUME NEW w \in Workers, Receive(w) \/ WorkerStep(w), ~ReportStage(w), ~MarkDone(w)
      PROVE  UNCHANGED progress
      BY <1>6
      DEF Receive, Deliver, Discard, WorkerStep, Begin, Setup, Canonicalize, Retry, MarkFailed,
          Ack, Restart, HandleRevoke
<1>7. ASSUME NEW w \in Workers,
             \/ BeginFails(w) \/ SetupFails(w) \/ PipelineFails(w)
             \/ CanonicalizeFails(w) \/ RetryFails(w) \/ MarkFailedFails(w)
             \/ ChildKilled(w) \/ Crash(w) \/ VisibilityTimeout(w)
      PROVE  UNCHANGED progress
      BY <1>7
      DEF BeginFails, SetupFails, PipelineFails, Raise, CanonicalizeFails, RetryFails,
          MarkFailedFails, ChildKilled, GiveUp, Crash, VisibilityTimeout
<1>8. QED
      BY <1>2, <1>3, <1>4, <1>5, <1>6, <1>7 DEF Next, ApiStep, Failure

\* A worker past the first report of a run has stayed there, or reported.
LEMMA RunGoesOn ==
    ASSUME TypeInv, Next, NEW v \in Workers, pc'[v] = "pipeline", step'[v] > 1
    PROVE  /\ pc[v] = "pipeline" /\ job'[v] = job[v]
           /\ step'[v] = step[v] \/ (ReportStage(v) /\ step'[v] = step[v] + 1)
<1> USE DEF workerVars
<1>1. WorkerTypeOK
      BY DEF TypeInv, WorkerInv
<1>2. CASE UserStep
      BY <1>2 DEF UserStep, VerifyUpload, DeleteBook, StartIngestion, RetryJob, CreateRow, CancelRevokes
<1>3. ASSUME NEW i \in Jobs, ApiStep(i) \/ EnqueueFails(i) \/ Rollback(i)
      PROVE  UNCHANGED workerVars
      BY <1>3 DEF ApiStep, Enqueue, Commit, CancelCommits, EnqueueFails, Rollback
<1>4. ASSUME NEW w \in Workers, NEW next, Goto(w, next)
      PROVE  v # w /\ pc'[v] = pc[v] /\ UNCHANGED job /\ step'[v] = step[v]
      BY <1>1, <1>4 DEF Goto, WorkerTypeOK
<1>5. ASSUME NEW w \in Workers, NEW next \in Idle, Release(w, next)
      PROVE  v # w /\ pc'[v] = pc[v] /\ job'[v] = job[v] /\ step'[v] = step[v]
      BY <1>1, <1>5 DEF Release, WorkerTypeOK, Idle
<1>6. ASSUME NEW w \in Workers, ReportStage(w)
      PROVE  /\ UNCHANGED <<pc, job>>
             /\ v # w => step'[v] = step[v]
             /\ v = w => step'[v] = step[v] + 1
      BY <1>1, <1>6 DEF ReportStage, WorkerTypeOK
<1>7. ASSUME NEW w \in Workers, NEW i \in Jobs, NEW k \in 0..MaxRetries, Deliver(w, i, k)
      PROVE  v # w /\ pc'[v] = pc[v] /\ job'[v] = job[v] /\ UNCHANGED step
      BY <1>1, <1>7 DEF Deliver, WorkerTypeOK
<1>8. ASSUME NEW w \in Workers, Restart(w)
      PROVE  v # w /\ pc'[v] = pc[v] /\ UNCHANGED <<job, step>>
      BY <1>1, <1>8 DEF Restart, WorkerTypeOK
<1>9. ASSUME NEW w \in Workers, Receive(w) \/ WorkerStep(w)
      PROVE  /\ pc[v] = "pipeline" /\ job'[v] = job[v]
             /\ step'[v] = step[v] \/ (ReportStage(v) /\ step'[v] = step[v] + 1)
  <2>1. CASE Receive(w)
        BY <1>7, <2>1 DEF Receive, Discard
  <2>2. CASE WorkerStep(w)
    <3>1. CASE Begin(w) \/ Setup(w) \/ MarkDone(w) \/ Canonicalize(w) \/ Retry(w) \/ MarkFailed(w)
          BY <1>4, <3>1 DEF Begin, Setup, MarkDone, Canonicalize, Retry, MarkFailed
    <3>2. CASE Ack(w) \/ \E i \in Jobs : HandleRevoke(w, i)
          BY <1>5, <3>2 DEF Ack, HandleRevoke, Idle
    <3>3. QED
          BY <1>6, <1>8, <2>2, <3>1, <3>2 DEF WorkerStep
  <2>3. QED
        BY <1>9, <2>1, <2>2
<1>10. ASSUME NEW w \in Workers,
              \/ BeginFails(w) \/ SetupFails(w) \/ PipelineFails(w)
              \/ CanonicalizeFails(w) \/ RetryFails(w) \/ MarkFailedFails(w)
              \/ ChildKilled(w) \/ Crash(w) \/ VisibilityTimeout(w)
       PROVE  pc[v] = "pipeline" /\ job'[v] = job[v] /\ step'[v] = step[v]
       BY <1>4, <1>5, <1>10
       DEF BeginFails, SetupFails, PipelineFails, Raise, CanonicalizeFails, RetryFails,
           MarkFailedFails, ChildKilled, GiveUp, Crash, VisibilityTimeout, Idle
<1>11. QED
       BY <1>2, <1>3, <1>9, <1>10 DEF Next, Failure

\* What was counted is not forgotten.
LEMMA DuplicatesGrow ==
    ASSUME TypeInv, Next, NEW j \in Jobs
    PROVE  duplicates[j] \in Nat /\ duplicates'[j] >= duplicates[j]
<1> USE DEF historyVars
<1>1. duplicates \in [Jobs -> Nat]
      BY DEF TypeInv, HistoryTypeOK
<1>2. ASSUME NEW i, Duplicate(i) PROVE duplicates'[j] >= duplicates[j]
      BY <1>1, <1>2 DEF Duplicate
<1>3. CASE UserStep
      BY <1>1, <1>3 DEF UserStep, VerifyUpload, DeleteBook, StartIngestion, RetryJob, CreateRow,
         CancelRevokes
<1>4. ASSUME NEW i \in Jobs, ApiStep(i) \/ EnqueueFails(i) \/ Rollback(i)
      PROVE  UNCHANGED duplicates
      BY <1>4 DEF ApiStep, Enqueue, Commit, CancelCommits, EnqueueFails, Rollback
<1>5. ASSUME NEW w \in Workers, Receive(w) \/ WorkerStep(w)
      PROVE  UNCHANGED duplicates
      BY <1>5
      DEF Receive, Deliver, Discard, WorkerStep, Begin, Setup, ReportStage, MarkDone,
          Canonicalize, Retry, MarkFailed, Ack, Restart, HandleRevoke
<1>6. ASSUME NEW w \in Workers,
             \/ BeginFails(w) \/ SetupFails(w) \/ PipelineFails(w)
             \/ CanonicalizeFails(w) \/ RetryFails(w) \/ MarkFailedFails(w)
             \/ ChildKilled(w) \/ Crash(w) \/ VisibilityTimeout(w)
      PROVE  UNCHANGED duplicates \/ \E i : Duplicate(i)
      BY <1>6
      DEF BeginFails, SetupFails, PipelineFails, Raise, CanonicalizeFails, RetryFails,
          MarkFailedFails, ChildKilled, GiveUp, Crash, VisibilityTimeout
<1>7. QED
      BY <1>1, <1>2, <1>3, <1>4, <1>5, <1>6 DEF Next, Failure

LEMMA RowsStay ==
    ASSUME TypeInv, Next, NEW j \in Jobs, RowExists(j)
    PROVE  RowExists(j)'
<1> USE DEF apiVars
<1>1. api \in [Jobs -> {"unused", "created", "enqueued", "committed", "rolledback"}]
      BY DEF TypeInv, ApiTypeOK
<1>2. CASE UserStep
      BY <1>1, <1>2 DEF UserStep, VerifyUpload, DeleteBook, StartIngestion, RetryJob, CreateRow,
         CancelRevokes, RowExists
<1>3. ASSUME NEW i \in Jobs, ApiStep(i) \/ EnqueueFails(i) \/ Rollback(i)
      PROVE  RowExists(j)'
      BY <1>1, <1>3
      DEF ApiStep, Enqueue, Commit, CancelCommits, EnqueueFails, Rollback, RowExists
<1>4. ASSUME NEW w \in Workers, Receive(w) \/ WorkerStep(w)
      PROVE  UNCHANGED api
      BY <1>4
      DEF Receive, Deliver, Discard, WorkerStep, Begin, Setup, ReportStage, MarkDone,
          Canonicalize, Retry, MarkFailed, Ack, Restart, HandleRevoke
<1>5. ASSUME NEW w \in Workers,
             \/ BeginFails(w) \/ SetupFails(w) \/ PipelineFails(w)
             \/ CanonicalizeFails(w) \/ RetryFails(w) \/ MarkFailedFails(w)
             \/ ChildKilled(w) \/ Crash(w) \/ VisibilityTimeout(w)
      PROVE  UNCHANGED api
      BY <1>5
      DEF BeginFails, SetupFails, PipelineFails, Raise, CanonicalizeFails, RetryFails,
          MarkFailedFails, ChildKilled, GiveUp, Crash, VisibilityTimeout
<1>6. QED
      BY <1>2, <1>3, <1>4, <1>5 DEF Next, Failure, RowExists

\* A worker past its first report: what is in the row is what it has reported
\* last, or less.
LEMMA NextProgressInv ==
    ASSUME ReportsInv, Next, NEW j \in Jobs
    PROVE  ProgressInv(j)'
<1>1. /\ TypeInv /\ CopiesInv /\ ProgressInv(j)
      /\ progress[j] \in Permille /\ step \in [Workers -> 0..Len(StageWrites) + 1]
      BY DEF ReportsInv, CopiesInv, TypeInv, RowTypeOK, WorkerInv, WorkerTypeOK
<1>2. ASSUME ~RowExists(j)' PROVE progress'[j] = 0
      BY <1>1, <1>2, RowsStay, ProgressWrites DEF ProgressInv
<1>3. ASSUME NEW v \in Workers, Holds(v, j)', pc'[v] = "pipeline", step'[v] > 1, duplicates'[j] = 0
      PROVE  progress'[j] <= StageWrites[step'[v] - 1]
  <2>1. /\ pc[v] = "pipeline" /\ job[v] = j
        /\ step'[v] = step[v] \/ (ReportStage(v) /\ step'[v] = step[v] + 1)
        BY <1>1, <1>3, RunGoesOn DEF Holds
  <2>2. v \in Held(j) /\ Holds(v, j)
        BY <2>1 DEF Held, Holds, Phases
  <2>3. duplicates[j] = 0
        BY <1>1, <1>3, DuplicatesGrow
  <2>4. step[v] \in 0..Len(StageWrites) + 1 /\ Len(StageWrites) \in Nat
        BY <1>1, ConstantFacts
  <2>5. step'[v] - 1 \in DOMAIN StageWrites
    <3>1. CASE step'[v] = step[v]
          BY <1>3, <2>4, <3>1, ConstantFacts
    <3>2. CASE ReportStage(v) /\ step'[v] = step[v] + 1
      <4>1. step[v] \in DOMAIN StageWrites
            BY <3>2 DEF ReportStage
      <4>2. QED
            BY <2>4, <3>2, <4>1
    <3>3. QED
          BY <2>1, <3>1, <3>2
  <2>6. StageWrites[step'[v] - 1] \in Nat
        BY <2>5, ReportsAreNatural
  <2>7. CASE ReportStage(v) /\ step'[v] = step[v] + 1
    <3>1. SetProgress(j, StageWrites[step'[v] - 1])
      <4>1. step'[v] - 1 = step[v]
            BY <2>4, <2>7
      <4>2. QED
            BY <2>1, <2>7, <4>1 DEF ReportStage
    <3>2. CASE RowExists(j)
      <4>1. progress'[j] = StageWrites[step'[v] - 1]
            BY <3>1, <3>2 DEF SetProgress, ReportsInv, CopiesInv, TypeInv, RowTypeOK
      <4>2. QED
            BY <2>6, <4>1
    <3>3. CASE ~RowExists(j)
      <4>1. progress'[j] = 0
            BY <1>1, <3>1, <3>3 DEF SetProgress, ProgressInv
      <4>2. QED
            BY <2>6, <4>1
    <3>4. QED
          BY <3>2, <3>3
  <2>8. CASE step'[v] = step[v]
    <3>1. progress[j] <= StageWrites[step'[v] - 1]
          BY <1>1, <1>3, <2>1, <2>2, <2>3, <2>8 DEF ProgressInv
    <3>2. CASE progress'[j] = 0
          BY <2>6, <3>2
    <3>3. ASSUME NEW w \in Held(j), ReportStage(w) \/ MarkDone(w) PROVE FALSE
      <4>1. w = v
            BY <1>1, <2>2, <2>3, OneAtWork
      <4>2. MarkDone(v)
        <5>1. ASSUME ReportStage(v) PROVE step'[v] = step[v] + 1
              BY <1>1, <5>1 DEF ReportStage
        <5>2. QED
              BY <2>4, <2>8, <3>3, <4>1, <5>1
      <4>3. pc'[v] # "pipeline"
            BY <1>1, <4>2 DEF MarkDone, Goto, TypeInv, WorkerInv, WorkerTypeOK
      <4>4. QED
            BY <1>3, <4>3
    <3>4. QED
          BY <1>1, <3>1, <3>2, <3>3, ProgressWrites
  <2>9. QED
        BY <2>1, <2>7, <2>8
<1>4. QED
      BY <1>2, <1>3 DEF ProgressInv

LEMMA AlwaysReportsInv == Spec => []ReportsInv
<1>1. Init => ReportsInv
  <2>1. Init => \A j \in Jobs : ProgressInv(j)
        BY DEF Init, ProgressInv
  <2>2. QED
        BY <2>1, InitCopiesInv DEF ReportsInv
<1>2. ReportsInv /\ [Next]_vars => ReportsInv'
  <2> SUFFICES ASSUME ReportsInv, [Next]_vars PROVE ReportsInv'
      OBVIOUS
  <2>1. CopiesInv'
        BY NextCopiesInv DEF ReportsInv
  <2>2. ASSUME UNCHANGED vars, NEW j \in Jobs PROVE ProgressInv(j)'
    <3>1. ProgressInv(j) /\ UNCHANGED <<api, progress, pc, job, step, duplicates>>
          BY <2>2 DEF ReportsInv, vars, apiVars, rowVars, workerVars, historyVars
    <3>2. QED
          BY <3>1 DEF ProgressInv, RowExists, Holds
  <2>3. QED
        BY <2>1, <2>2, NextProgressInv DEF ReportsInv
<1>3. QED
      BY <1>1, <1>2, PTL DEF Spec

\* Progress that is shown falls only when a run starts over, if reports of a
\* whole run do not fall and the job's message was not duplicated: no other
\* worker writes to the row (_update_stage, update_job_status).
THEOREM ProgressFallsAtTheTop == ReportsRise => (Spec => ProgressRestartsAtTheTop)
<1> SUFFICES ASSUME ReportsRise PROVE Spec => ProgressRestartsAtTheTop
    OBVIOUS
<1>1. ASSUME ReportsInv, Next, NEW j \in Jobs, progress'[j] < progress[j], duplicates[j] = 0
      PROVE  \E w \in Workers : Holds(w, j) /\ pc[w] = "pipeline" /\ step[w] = 1
  <2>1. TypeInv /\ ProgressInv(j) /\ progress[j] \in Permille
        BY <1>1 DEF ReportsInv, CopiesInv, TypeInv, RowTypeOK
  <2>2. ASSUME Commit(j), progress'[j] = 0 PROVE FALSE
        BY <1>1, <2>1, <2>2 DEF Commit, ProgressInv, RowExists
  <2>3. ASSUME NEW w \in Held(j), MarkDone(w), progress'[j] = 1000 PROVE FALSE
        BY <1>1, <2>1, <2>3 DEF Permille
  <2>4. ASSUME NEW w \in Held(j), ReportStage(w), progress'[j] = StageWrites[step[w]]
        PROVE  w \in Workers /\ Holds(w, j) /\ pc[w] = "pipeline" /\ step[w] = 1
    <3>1. /\ w \in Workers /\ Holds(w, j) /\ pc[w] = "pipeline"
          /\ step[w] \in DOMAIN StageWrites
          BY <2>4 DEF Held, ReportStage
    <3>2. step[w] \in 1..Len(StageWrites) /\ Len(StageWrites) \in Nat
          BY <3>1, ConstantFacts
    <3>3. ASSUME step[w] > 1 PROVE FALSE
      <4>1. progress[j] <= StageWrites[step[w] - 1]
            BY <1>1, <2>1, <3>1, <3>3 DEF ProgressInv
      <4>2. step[w] - 1 \in DOMAIN StageWrites /\ step[w] - 1 < step[w]
            BY <3>2, <3>3, ConstantFacts
      <4>3. StageWrites[step[w] - 1] <= StageWrites[step[w]]
            BY <3>1, <4>2 DEF ReportsRise
      <4>4. StageWrites[step[w] - 1] \in Nat /\ StageWrites[step[w]] \in Nat
            BY <3>1, <4>2, ReportsAreNatural
      <4>5. QED
            BY <1>1, <2>1, <2>4, <4>1, <4>3, <4>4 DEF Permille
    <3>4. QED
          BY <3>1, <3>2, <3>3
  <2>5. progress'[j] # progress[j]
        BY <1>1, <2>1 DEF Permille
  <2>6. QED
        BY <1>1, <2>1, <2>2, <2>3, <2>4, <2>5, ProgressWrites
<1>2. ReportsInv /\ [Next]_vars =>
        [\A j \in Jobs : progress'[j] < progress[j] /\ duplicates[j] = 0
            => \E w \in Workers : Holds(w, j) /\ pc[w] = "pipeline" /\ step[w] = 1]_vars
      BY <1>1
<1>3. QED
      BY <1>2, AlwaysReportsInv, PTL DEF Spec, ProgressRestartsAtTheTop

-----------------------------------------------------------------------------
(***************************************************************************)
(* The abstract life cycle.  A row's status is what its one message calls  *)
(* for, wherever the message is, as long as nothing hands out the message  *)
(* of a job that has ended, or before there is a row: no cancellation, no  *)
(* late commit, no failed follow-up, and no redelivery.                    *)
(***************************************************************************)
OutcomesLast ==
    /\ "cancel" \notin Requests
    /\ Faults \cap {"late_commit", "canonicalize", "crash", "visibility"} = {}

\* What the row may say while a worker is at p with the job.
Expected(p) ==
    IF p = "begin" THEN Active ELSE IF p = "canonicalize" THEN {"completed"} ELSE {"running"}

LifeInv(j) ==
    /\ duplicates[j] = 0 /\ ~cancel[j]
    /\ api[j] = "enqueued" => Held(j) = {}
    /\ RowExists(j) =>
          /\ InQueue(j) => status[j] \in Active
          /\ \A w \in Held(j) : status[j] \in Expected(pc[w])

LivesInv == CopiesInv /\ \A j \in Jobs : LifeInv(j)

\* A worker that has the message has the only one.
LEMMA NothingQueued ==
    ASSUME CopiesInv, NEW j \in Jobs, duplicates[j] = 0, NEW w \in Held(j)
    PROVE  ~InQueue(j)
<1> SUFFICES ASSUME NEW k \in 0..MaxRetries, HasMessage(j, k) PROVE FALSE
    BY DEF InQueue
<1>1. /\ IsFiniteSet(Held(j)) /\ Cardinality(Held(j)) \in Nat
      /\ IsFiniteSet(Queued(j)) /\ Cardinality(Queued(j)) \in Nat
      BY CopiesAreFinite
<1>2. ready[j][k] \in Nat /\ ready[j][k] >= 1
  <2>1. ready[j][k] \in Nat
        BY DEF CopiesInv, TypeInv, BrokerTypeOK
  <2>2. QED
        BY <2>1 DEF HasMessage
<1>3. <<k, 1>> \in Queued(j)
      BY <1>2, ConstantFacts DEF Queued
<1>4. Cardinality(Held(j)) # 0 /\ Cardinality(Queued(j)) # 0
      BY <1>1, <1>3, FS_EmptySet
<1>5. Cardinality(Queued(j)) + Cardinality(Held(j)) <= 1
      BY DEF CopiesInv, CopyInv
<1>6. QED
      BY <1>1, <1>4, <1>5

\* A step of worker w that leaves the row of job j alone.
LEMMA LifeFrame ==
    ASSUME NEW w \in Workers, NEW j \in Jobs, LifeInv(j), Others(w),
           UNCHANGED <<api, cancel, duplicates>>, status'[j] = status[j],
           InQueue(j)' => InQueue(j),
           w \in Held(j)' => w \in Held(j) /\ Expected(pc[w]) \subseteq Expected(pc[w])'
    PROVE  LifeInv(j)'
<1>1. \A v \in Held(j)' : v \in Held(j) /\ Expected(pc[v]) \subseteq Expected(pc[v])'
      BY DEF Others, Held, Holds, Expected
<1>2. RowExists(j)' = RowExists(j)
      BY DEF RowExists
<1>3. QED
      BY <1>1, <1>2 DEF LifeInv

\* A step of the one worker with job j that sets its status to s.
LEMMA LifeWrite ==
    ASSUME LivesInv, NEW w \in Workers, NEW j \in Jobs, w \in Held(j), Others(w),
           UNCHANGED <<api, cancel, duplicates, ready>>, NEW s,
           RowExists(j) => status'[j] = s,
           w \in Held(j)' => s \in Expected(pc'[w])
    PROVE  LifeInv(j)'
<1>1. CopiesInv /\ LifeInv(j) /\ duplicates[j] = 0
      BY DEF LivesInv, LifeInv
<1>2. ~InQueue(j) /\ (InQueue(j)' = InQueue(j))
      BY <1>1, NothingQueued DEF InQueue, HasMessage
<1>3. \A v \in Held(j)' : v = w
      BY <1>1, OneAtWork DEF Others, Held, Holds
<1>4. api[j] # "enqueued" /\ RowExists(j)' = RowExists(j)
      BY <1>1 DEF LifeInv, RowExists
<1>5. QED
      BY <1>1, <1>2, <1>3, <1>4 DEF LifeInv

LEMMA ApiLifeInv ==
    ASSUME OutcomesLast, LivesInv, NEW j \in Jobs,
           \/ UserStep
           \/ \E i \in Jobs : ApiStep(i) \/ EnqueueFails(i) \/ Rollback(i)
    PROVE  LifeInv(j)'
<1>1. /\ api \in [Jobs -> {"unused", "created", "enqueued", "committed", "rolledback"}]
      /\ status \in [Jobs -> {"none"} \cup Active \cup Terminal]
      /\ LifeInv(j) /\ CopyInv(j)
      BY DEF LivesInv, CopiesInv, TypeInv, ApiTypeOK, RowTypeOK
<1>2. ASSUME UNCHANGED <<pc, job, duplicates, cancel>>, RowExists(j)' => status'[j] = status[j],
             RowExists(j)' => ready'[j] = ready[j], api'[j] = "enqueued" => Held(j) = {},
             RowExists(j)' => RowExists(j)
      PROVE  LifeInv(j)'
  <2>1. Held(j)' = Held(j)
        BY <1>2 DEF Held, Holds
  <2>2. RowExists(j)' => (InQueue(j)' => InQueue(j))
        BY <1>2 DEF InQueue, HasMessage
  <2>3. QED
        BY <1>1, <1>2, <2>1, <2>2 DEF LifeInv
<1>3. api[j] \in {"unused", "created"} => Held(j) = {}
      BY <1>1 DEF CopyInv, Held
<1>4. ASSUME NEW i \in Jobs, NEW b, CreateRow(i, b) PROVE LifeInv(j)'
      BY <1>1, <1>2, <1>4
      DEF CreateRow, rowVars, brokerVars, workerVars, historyVars, RowExists, LifeInv
<1>5. ASSUME NEW i \in Jobs, EnqueueFails(i) \/ Rollback(i) PROVE LifeInv(j)'
      BY <1>1, <1>2, <1>3, <1>5
      DEF EnqueueFails, Rollback, rowVars, brokerVars, workerVars, historyVars, RowExists, LifeInv
<1>6. ASSUME NEW i \in Jobs, Enqueue(i) PROVE LifeInv(j)'
  <2>1. RowExists(j)' => i # j
        BY <1>1, <1>6 DEF Enqueue, RowExists
  <2>2. RowExists(j)' => ready'[j] = ready[j]
        BY <1>6, <2>1 DEF Enqueue, LivesInv, CopiesInv, TypeInv, BrokerTypeOK
  <2>3. QED
        BY <1>1, <1>2, <1>3, <1>6, <2>2
        DEF Enqueue, rowVars, workerVars, historyVars, RowExists, LifeInv
<1>7. ASSUME NEW i \in Jobs, Commit(i) PROVE LifeInv(j)'
  <2>1. CASE i = j
    <3>1. api'[j] = "committed" /\ status'[j] = "queued" /\ Held(j) = {}
          BY <1>1, <1>7, <2>1 DEF Commit, LifeInv
    <3>2. Held(j)' = Held(j) /\ UNCHANGED <<duplicates, cancel>>
          BY <1>7 DEF Commit, Held, Holds, workerVars, historyVars
    <3>3. QED
          BY <1>1, <3>1, <3>2 DEF LifeInv, RowExists, Active
  <2>2. CASE i # j
        BY <1>1, <1>2, <1>7, <2>2
        DEF Commit, brokerVars, workerVars, historyVars, RowExists, LifeInv
  <2>3. QED
        BY <2>1, <2>2
<1>8. ASSUME NEW i \in Jobs, CancelRevokes(i) \/ CancelCommits(i) PROVE FALSE
      BY <1>8 DEF CancelRevokes, CancelCommits, OutcomesLast, LivesInv, LifeInv
<1>9. ASSUME NEW b \in Books, VerifyUpload(b) \/ DeleteBook(b) PROVE LifeInv(j)'
      BY <1>1, <1>2, <1>9
      DEF VerifyUpload, DeleteBook, rowVars, brokerVars, workerVars, historyVars, RowExists, LifeInv
<1>10. QED
       BY <1>4, <1>5, <1>6, <1>7, <1>8, <1>9 DEF UserStep, ApiStep, StartIngestion, RetryJob

LEMMA WorkerLifeInv ==
    ASSUME OutcomesLast, LivesInv, NEW j \in Jobs, NEW w \in Workers,
           \/ Receive(w) \/ WorkerStep(w)
           \/ BeginFails(w) \/ SetupFails(w) \/ PipelineFails(w)
           \/ CanonicalizeFails(w) \/ RetryFails(w) \/ MarkFailedFails(w)
           \/ ChildKilled(w) \/ Crash(w) \/ VisibilityTimeout(w)
    PROVE  LifeInv(j)'
<1>1. /\ WorkerTypeOK /\ LifeInv(j) /\ status \in [Jobs -> {"none"} \cup Active \cup Terminal]
      /\ pc[w] \in Phases => job[w] \in Jobs
      BY DEF LivesInv, CopiesInv, TypeInv, WorkerInv, RowTypeOK
<1>2. ASSUME NEW i \in Jobs, NEW k \in 0..MaxRetries, Deliver(w, i, k) \/ Discard(w, i, k)
      PROVE  LifeInv(j)'
  <2>1. /\ HasMessage(i, k) /\ UNCHANGED <<api, cancel, duplicates, status>>
        /\ ready' = [ready EXCEPT ![i][k] = @ - 1] /\ api[i] # "enqueued"
        BY <1>2 DEF Deliver, Discard, CountdownOver, OutcomesLast, apiVars, rowVars
  <2>2. InQueue(j)' => InQueue(j)
    <3>1. \A n \in 0..MaxRetries : ready'[j][n] = IF j = i /\ n = k THEN ready[j][n] - 1 ELSE ready[j][n]
          BY <2>1 DEF LivesInv, CopiesInv, TypeInv, BrokerTypeOK
    <3>2. QED
          BY <2>1, <3>1 DEF InQueue, HasMessage
  <2>3. InQueue(i)
        BY <2>1 DEF InQueue
  <2>4. CASE UNCHANGED <<pc, job>>
    <3>1. Others(w) /\ Held(j)' = Held(j)
          BY <2>4 DEF Others, Held, Holds
    <3>2. QED
          BY <1>1, <2>1, <2>2, <2>4, <3>1, LifeFrame DEF Expected
  <2>5. CASE Deliver(w, i, k)
    <3>1. /\ Others(w) /\ pc'[w] = "begin" /\ job'[w] = i
          BY <1>1, <2>5 DEF Deliver, Others, WorkerTypeOK
    <3>2. CASE i # j
      <4>1. w \notin Held(j)'
            BY <3>1, <3>2 DEF Held, Holds
      <4>2. QED
            BY <1>1, <2>1, <2>2, <3>1, <4>1, LifeFrame
    <3>3. CASE i = j
      <4>1. RowExists(j) => status[j] \in Active
            BY <1>1, <2>3, <3>3 DEF LifeInv
      <4>2. \A v \in Held(j)' : v = w \/ (v \in Held(j) /\ pc'[v] = pc[v])
            BY <3>1 DEF Others, Held, Holds
      <4>3. RowExists(j)' = RowExists(j)
            BY <2>1 DEF RowExists
      <4>4. QED
            BY <1>1, <2>1, <2>2, <3>1, <3>3, <4>1, <4>2, <4>3 DEF LifeInv, Expected
    <3>4. QED
          BY <3>2, <3>3
  <2>6. QED
        BY <1>2, <2>4, <2>5 DEF Discard, workerVars
<1>3. ASSUME NEW next \in Idle, Release(w, next), UNCHANGED <<api, cancel, duplicates, status, ready>>
      PROVE  LifeInv(j)'
  <2>1. Others(w) /\ w \notin Held(j)'
        BY <1>1, <1>3 DEF Release, Others, Held, Holds, WorkerTypeOK, Idle, Phases
  <2>2. QED
        BY <1>1, <1>3, <2>1, LifeFrame DEF InQueue, HasMessage
<1>4. ASSUME pc[w] \in Phases \ {"ack"}, NEW next \in Phases, Goto(w, next),
             UNCHANGED <<api, cancel, duplicates, status, ready>>,
             next = "ack" \/ Expected(pc[w]) \subseteq Expected(next)
      PROVE  LifeInv(j)'
  <2>1. /\ Others(w) /\ pc'[w] = next /\ (w \in Held(j)' => w \in Held(j) /\ next # "ack")
        BY <1>1, <1>4 DEF Goto, Others, Held, Holds, WorkerTypeOK
  <2>2. QED
        BY <1>1, <1>4, <2>1, LifeFrame DEF InQueue, HasMessage, Expected
<1>5. ASSUME pc[w] \in Phases \ {"ack"}, NEW s, SetStatus(job[w], s), Others(w), UNCHANGED job,
             UNCHANGED <<api, cancel, duplicates, ready>>, pc'[w] \in Phases,
             pc'[w] = "ack" \/ s \in Expected(pc'[w])
      PROVE  LifeInv(j)'
  <2>1. CASE job[w] = j
    <3>1. w \in Held(j)
          BY <1>5, <2>1 DEF Held, Holds
    <3>2. RowExists(j) => status'[j] = s
          BY <1>1, <1>5, <2>1 DEF SetStatus
    <3>3. w \in Held(j)' => s \in Expected(pc'[w])
          BY <1>5 DEF Held
    <3>4. QED
          BY <1>5, <3>1, <3>2, <3>3, LifeWrite
  <2>2. CASE job[w] # j
    <3>1. status'[j] = status[j]
          BY <1>1, <1>5, <2>2 DEF SetStatus
    <3>2. w \notin Held(j)'
          BY <1>5, <2>2 DEF Held, Holds
    <3>3. QED
          BY <1>1, <1>5, <3>1, <3>2, LifeFrame DEF InQueue, HasMessage
  <2>3. QED
        BY <2>1, <2>2
<1>6. CASE Begin(w) \/ MarkDone(w) \/ MarkFailed(w)
  <2>1. PICK next \in Phases : \E s :
           /\ SetStatus(job[w], s) /\ Goto(w, next) /\ (next = "ack" \/ s \in Expected(next))
    <3>1. CASE Begin(w)
      <4>1. /\ "setup" \in Phases /\ "running" \in Expected("setup")
            /\ SetStatus(job[w], "running") /\ Goto(w, "setup")
            BY <3>1 DEF Begin, Expected, Phases
      <4>2. QED
            BY <4>1
    <3>2. CASE MarkDone(w)
      <4>1. /\ {"canonicalize", "ack"} \subseteq Phases /\ "completed" \in Expected("canonicalize")
            /\ SetStatus(job[w], "completed") /\ (Goto(w, "canonicalize") \/ Goto(w, "ack"))
            BY <3>2 DEF MarkDone, Expected, Phases
      <4>2. QED
            BY <4>1
    <3>3. CASE MarkFailed(w)
      <4>1. "ack" \in Phases /\ SetStatus(job[w], "failed") /\ Goto(w, "ack")
            BY <3>3 DEF MarkFailed, Phases
      <4>2. QED
            BY <4>1
    <3>4. QED
          BY <1>6, <3>1, <3>2, <3>3
  <2>2. pc[w] \in Phases \ {"ack"} /\ UNCHANGED <<api, cancel, duplicates, ready>>
        BY <1>6 DEF Begin, MarkDone, MarkFailed, Phases, apiVars, brokerVars, historyVars
  <2>3. Others(w) /\ UNCHANGED job /\ pc'[w] = next
        BY <1>1, <2>1 DEF Goto, Others, WorkerTypeOK
  <2>4. QED
        BY <1>5, <2>1, <2>2, <2>3
<1>7. CASE ReportStage(w)
  <2>1. /\ pc[w] = "pipeline" /\ SetStatus(job[w], "running") /\ UNCHANGED <<pc, job>>
        /\ UNCHANGED <<api, cancel, duplicates, ready>>
        BY <1>7 DEF ReportStage, apiVars, brokerVars, historyVars
  <2>2. Others(w) /\ pc[w] \in Phases \ {"ack"} /\ pc'[w] \in Phases /\ "running" \in Expected(pc'[w])
        BY <2>1 DEF Others, Phases, Expected
  <2>3. QED
        BY <1>5, <2>1, <2>2
<1>8. CASE Setup(w) \/ Canonicalize(w)
  <2>1. /\ UNCHANGED <<api, cancel, duplicates, status, ready>>
        BY <1>8 DEF Setup, Canonicalize, apiVars, rowVars, brokerVars, historyVars
  <2>2. CASE Setup(w)
        BY <1>4, <2>1, <2>2 DEF Setup, Phases, Expected
  <2>3. CASE Canonicalize(w)
        BY <1>4, <2>1, <2>3 DEF Canonicalize, Phases
  <2>4. QED
        BY <1>8, <2>2, <2>3
<1>9. CASE Retry(w)
  <2>1. /\ pc[w] = "retry" /\ UNCHANGED <<api, cancel, duplicates, status>>
        /\ Others(w) /\ \A i : w \notin Held(i)'
        BY <1>1, <1>9
        DEF Retry, AfterRetry, Goto, Others, Held, Holds, WorkerTypeOK, apiVars, rowVars, historyVars
  <2>2. CASE job[w] = j
    <3>1. w \in Held(j)
          BY <2>1, <2>2 DEF Held, Holds, Phases
    <3>2. \A v \in Held(j)' : v \in Held(j) /\ v # w
          BY <2>1 DEF Others, Held, Holds
    <3>3. Held(j)' = {}
          BY <1>1, <3>1, <3>2, OneAtWork DEF LivesInv, LifeInv
    <3>4. RowExists(j) => status[j] \in Active
          BY <1>1, <2>1, <3>1 DEF LifeInv, Expected, Active
    <3>5. QED
          BY <1>1, <2>1, <3>3, <3>4 DEF LifeInv, RowExists
  <2>3. CASE job[w] # j
    <3>1. ready'[j] = ready[j]
          BY <1>9, <2>3 DEF Retry, Publish, LivesInv, CopiesInv, TypeInv, BrokerTypeOK
    <3>2. QED
          BY <1>1, <2>1, <3>1, LifeFrame DEF InQueue, HasMessage
  <2>4. QED
        BY <2>2, <2>3
<1>10. CASE Ack(w)
       BY <1>3, <1>10 DEF Ack, apiVars, rowVars, brokerVars, historyVars, Idle
<1>11. CASE Restart(w)
  <2>1. /\ Others(w) /\ w \notin Held(j)' /\ UNCHANGED <<api, cancel, duplicates, status, ready>>
        BY <1>1, <1>11
        DEF Restart, Others, Held, Holds, WorkerTypeOK, Phases, apiVars, rowVars, brokerVars, historyVars
  <2>2. QED
        BY <1>1, <2>1, LifeFrame DEF InQueue, HasMessage
<1>12. ASSUME NEW i \in Jobs, HandleRevoke(w, i) PROVE LifeInv(j)'
  <2>1. UNCHANGED <<api, cancel, duplicates, status, ready>>
        BY <1>12 DEF HandleRevoke, apiVars, rowVars
  <2>2. CASE Release(w, "idle")
        BY <1>3, <2>1, <2>2 DEF Idle
  <2>3. CASE UNCHANGED workerVars
    <3>1. Others(w) /\ Held(j)' = Held(j) /\ pc'[w] = pc[w]
          BY <2>3 DEF Others, Held, Holds, workerVars
    <3>2. QED
          BY <1>1, <2>1, <3>1, LifeFrame DEF InQueue, HasMessage
  <2>4. QED
        BY <1>12, <2>2, <2>3 DEF HandleRevoke
<1>13. CASE BeginFails(w) \/ SetupFails(w) \/ RetryFails(w) \/ MarkFailedFails(w) \/ ChildKilled(w)
  <2>1. GiveUp(w)
        BY <1>13 DEF BeginFails, SetupFails, RetryFails, MarkFailedFails, ChildKilled
  <2>2. QED
        BY <1>3, <2>1 DEF GiveUp, apiVars, rowVars, brokerVars, Idle
<1>14. CASE PipelineFails(w)
  <2>1. PICK t \in BOOLEAN : pc[w] = "pipeline" /\ Raise(w, t)
        BY <1>14 DEF PipelineFails
  <2>2. /\ Goto(w, AfterError(w, t)) /\ AfterError(w, t) \in {"retry", "fail"}
        /\ UNCHANGED <<api, cancel, duplicates, status, ready>>
        BY <2>1 DEF Raise, AfterError, apiVars, rowVars, brokerVars, historyVars
  <2>3. /\ pc[w] \in Phases \ {"ack"} /\ AfterError(w, t) \in Phases
        /\ Expected(pc[w]) \subseteq Expected(AfterError(w, t))
        BY <2>1, <2>2 DEF Phases, Expected
  <2>4. QED
        BY <1>4, <2>2, <2>3
<1>15. ~CanonicalizeFails(w) /\ ~Crash(w) /\ ~VisibilityTimeout(w)
       BY DEF CanonicalizeFails, Crash, VisibilityTimeout, OutcomesLast
<1>16. QED
       BY <1>2, <1>6, <1>7, <1>8, <1>9, <1>10, <1>11, <1>12, <1>13, <1>14, <1>15
       DEF Receive, WorkerStep

LEMMA AlwaysLivesInv == OutcomesLast => (Spec => []LivesInv)
<1> SUFFICES ASSUME OutcomesLast PROVE Spec => []LivesInv
    OBVIOUS
<1>1. Init => LivesInv
  <2>1. ASSUME Init, NEW j \in Jobs PROVE LifeInv(j)
    <3>1. api[j] = "unused" /\ ~cancel[j] /\ duplicates[j] = 0
          BY <2>1 DEF Init
    <3>2. QED
          BY <3>1 DEF LifeInv, RowExists
  <2>2. QED
        BY <2>1, InitCopiesInv DEF LivesInv
<1>2. LivesInv /\ [Next]_vars => LivesInv'
  <2> SUFFICES ASSUME LivesInv, [Next]_vars PROVE LivesInv'
      OBVIOUS
  <2>1. CopiesInv'
        BY NextCopiesInv DEF LivesInv
  <2>2. ASSUME UNCHANGED vars, NEW j \in Jobs PROVE LifeInv(j)'
    <3>1. LifeInv(j) /\ UNCHANGED <<api, cancel, status, ready, pc, job, duplicates>>
          BY <2>2 DEF LivesInv, vars, apiVars, rowVars, brokerVars, workerVars, historyVars
    <3>2. Held(j)' = Held(j) /\ (InQueue(j)' = InQueue(j))
          BY <3>1 DEF Held, Holds, InQueue, HasMessage
    <3>3. QED
          BY <3>1, <3>2 DEF LifeInv, RowExists
  <2>3. ASSUME Next, NEW j \in Jobs PROVE LifeInv(j)'
        BY <2>3, ApiLifeInv, WorkerLifeInv DEF Next, Failure
  <2>4. QED
        BY <2>1, <2>2, <2>3 DEF LivesInv
<1>3. QED
      BY <1>1, <1>2, PTL DEF Spec

\* What may happen to the rows.
LEMMA RowSteps ==
    ASSUME OutcomesLast, LivesInv, Next
    PROVE  \/ UNCHANGED status /\ \A j \in Jobs : RowExists(j)' = RowExists(j)
           \/ \E i \in Jobs : Commit(i)
           \/ \E w \in Workers, s \in {"running", "completed", "failed"} :
                /\ job[w] \in Jobs /\ w \in Held(job[w])
                /\ SetStatus(job[w], s) /\ UNCHANGED api
                /\ \/ pc[w] = "begin" /\ s = "running"
                   \/ pc[w] = "pipeline" /\ s \in {"running", "completed"}
                   \/ pc[w] = "fail" /\ s = "failed"
<1> DEFINE Same == UNCHANGED status /\ \A j \in Jobs : RowExists(j)' = RowExists(j)
<1>1. /\ api \in [Jobs -> {"unused", "created", "enqueued", "committed", "rolledback"}]
      /\ \A w \in Workers : pc[w] \in Phases => job[w] \in Jobs
      BY DEF LivesInv, CopiesInv, TypeInv, ApiTypeOK, WorkerInv
<1>2. UNCHANGED <<status, api>> => Same
      BY DEF RowExists
<1>3. ASSUME NEW i \in Jobs, NEW b, CreateRow(i, b) PROVE Same
      BY <1>1, <1>3 DEF CreateRow, RowExists, rowVars
<1>4. ASSUME UserStep PROVE Same
  <2>1. ASSUME NEW i \in Jobs, CancelRevokes(i) PROVE FALSE
        BY <2>1 DEF CancelRevokes, OutcomesLast
  <2>2. QED
        BY <1>2, <1>3, <1>4, <2>1
        DEF UserStep, StartIngestion, RetryJob, VerifyUpload, DeleteBook, rowVars
<1>5. ASSUME NEW i \in Jobs, Enqueue(i) \/ EnqueueFails(i) \/ Rollback(i) PROVE Same
      BY <1>1, <1>5 DEF Enqueue, EnqueueFails, Rollback, RowExists, rowVars
<1>6. ASSUME NEW i \in Jobs, CancelCommits(i) PROVE FALSE
      BY <1>6 DEF CancelCommits, LivesInv, LifeInv
<1>7. ASSUME NEW w \in Workers, Begin(w) \/ ReportStage(w) \/ MarkDone(w) \/ MarkFailed(w)
      PROVE  \E s \in {"running", "completed", "failed"} :
                /\ job[w] \in Jobs /\ w \in Held(job[w])
                /\ SetStatus(job[w], s) /\ UNCHANGED api
                /\ \/ pc[w] = "begin" /\ s = "running"
                   \/ pc[w] = "pipeline" /\ s \in {"running", "completed"}
                   \/ pc[w] = "fail" /\ s = "failed"
  <2>1. pc[w] \in {"begin", "pipeline", "fail"} /\ UNCHANGED api
        BY <1>7 DEF Begin, ReportStage, MarkDone, MarkFailed, apiVars
  <2>2. job[w] \in Jobs /\ w \in Held(job[w])
        BY <1>1, <2>1 DEF Held, Holds, Phases
  <2>3. CASE Begin(w) \/ ReportStage(w)
        BY <2>1, <2>2, <2>3 DEF Begin, ReportStage
  <2>4. CASE MarkDone(w)
        BY <2>1, <2>2, <2>4 DEF MarkDone
  <2>5. CASE MarkFailed(w)
        BY <2>1, <2>2, <2>5 DEF MarkFailed
  <2>6. QED
        BY <1>7, <2>3, <2>4, <2>5
<1>8. ASSUME NEW w \in Workers,
             \/ Receive(w) \/ Setup(w) \/ Canonicalize(w) \/ Retry(w) \/ Ack(w) \/ Restart(w)
             \/ \E j \in Jobs : HandleRevoke(w, j)
      PROVE  Same
      BY <1>2, <1>8
      DEF Receive, Deliver, Discard, Setup, Canonicalize, Retry, Ack, Restart, HandleRevoke,
          apiVars, rowVars
<1>9. ASSUME NEW w \in Workers,
             \/ BeginFails(w) \/ SetupFails(w) \/ PipelineFails(w)
             \/ CanonicalizeFails(w) \/ RetryFails(w) \/ MarkFailedFails(w)
             \/ ChildKilled(w) \/ Crash(w) \/ VisibilityTimeout(w)
      PROVE  Same
      BY <1>2, <1>9
      DEF BeginFails, SetupFails, PipelineFails, Raise, CanonicalizeFails, RetryFails,
          MarkFailedFails, ChildKilled, GiveUp, Crash, VisibilityTimeout, apiVars, rowVars
<1> HIDE DEF Same
<1>10. Same \/ (\E i \in Jobs : Commit(i))
            \/ \E w \in Workers : Begin(w) \/ ReportStage(w) \/ MarkDone(w) \/ MarkFailed(w)
  <2>1. CASE \E i \in Jobs : ApiStep(i)
        BY <1>5, <1>6, <2>1 DEF ApiStep
  <2>2. CASE \E w \in Workers : Receive(w) \/ WorkerStep(w)
        BY <1>8, <2>2 DEF WorkerStep
  <2>3. CASE Failure
        BY <1>5, <1>9, <2>3 DEF Failure
  <2>4. QED
        BY <1>4, <2>1, <2>2, <2>3 DEF Next
<1>11. QED
       BY <1>7, <1>10 DEF Same

LEMMA LifecycleStep ==
    ASSUME OutcomesLast, LivesInv, Next
    PROVE  Lifecycle!Next \/ UNCHANGED Shown
<1>1. /\ status \in [Jobs -> {"none"} \cup Active \cup Terminal]
      /\ api \in [Jobs -> {"unused", "created", "enqueued", "committed", "rolledback"}]
      BY DEF LivesInv, CopiesInv, TypeInv, ApiTypeOK, RowTypeOK
<1>2. CASE UNCHANGED status /\ \A j \in Jobs : RowExists(j)' = RowExists(j)
      BY <1>2 DEF Shown
<1>3. ASSUME NEW i \in Jobs, Commit(i) PROVE Lifecycle!Next
  <2>1. /\ \A j \in Jobs : RowExists(j)' <=> RowExists(j) \/ j = i
        /\ ~RowExists(i)
        BY <1>1, <1>3 DEF Commit, RowExists
  <2>2. \A j \in Jobs : status'[j] = IF j = i THEN "queued" ELSE status[j]
        BY <1>1, <1>3 DEF Commit
  <2>3. Shown[i] = "none" /\ Shown' = [Shown EXCEPT ![i] = "queued"]
        BY <2>1, <2>2 DEF Shown
  <2>4. QED
        BY <2>3 DEF Lifecycle!Next, Lifecycle!Create
<1>4. ASSUME NEW w \in Workers, NEW s \in {"running", "completed", "failed"},
             job[w] \in Jobs, w \in Held(job[w]), SetStatus(job[w], s), UNCHANGED api,
             \/ pc[w] = "begin" /\ s = "running"
             \/ pc[w] = "pipeline" /\ s \in {"running", "completed"}
             \/ pc[w] = "fail" /\ s = "failed"
      PROVE  Lifecycle!Next \/ UNCHANGED Shown
  <2> DEFINE j == job[w]
  <2>1. \A i \in Jobs : RowExists(i)' = RowExists(i)
        BY <1>4 DEF RowExists
  <2>2. CASE ~RowExists(j)
        BY <1>4, <2>1, <2>2 DEF SetStatus, Shown
  <2>3. CASE RowExists(j)
    <3>1. \A i \in Jobs : status'[i] = IF i = j THEN s ELSE status[i]
          BY <1>1, <1>4, <2>3 DEF SetStatus
    <3>2. Shown[j] = status[j] /\ Shown' = [Shown EXCEPT ![j] = s]
          BY <1>4, <2>1, <2>3, <3>1 DEF Shown
    <3>3. status[j] \in Expected(pc[w])
          BY <1>4, <2>3 DEF LivesInv, LifeInv
    <3>4. CASE status[j] = s
      <4>1. Shown' = Shown
            BY <1>4, <3>2, <3>4 DEF Shown
      <4>2. QED
            BY <4>1
    <3>5. CASE status[j] # s
      <4>1. \/ status[j] = "queued" /\ s = "running"
            \/ status[j] = "running" /\ s \in {"completed", "failed"}
            BY <1>4, <3>3, <3>5 DEF Expected, Active
      <4>2. CASE status[j] = "queued" /\ s = "running"
        <5>1. Lifecycle!Run(j)
              BY <3>2, <4>2 DEF Lifecycle!Run
        <5>2. QED
              BY <1>4, <5>1 DEF Lifecycle!Next
      <4>3. CASE status[j] = "running" /\ s \in {"completed", "failed"}
        <5>1. Lifecycle!Finish(j)
              BY <3>2, <4>3 DEF Lifecycle!Finish, Lifecycle!Outcomes
        <5>2. QED
              BY <1>4, <5>1 DEF Lifecycle!Next
      <4>4. QED
            BY <4>1, <4>2, <4>3
    <3>6. QED
          BY <3>4, <3>5
  <2>4. QED
        BY <2>2, <2>3
<1>5. QED
      BY <1>2, <1>3, <1>4, RowSteps

\* Without cancellations, late commits, failed follow-ups and redeliveries,
\* whatever else fails, the status of every job follows the abstract life
\* cycle step by step: it is queued, runs, and ends in one outcome, which it
\* keeps (update_job_status, which never looks at the status it replaces).
THEOREM JobsFollowTheirLifecycle ==
    OutcomesLast => (Spec => Lifecycle!Init /\ [][Lifecycle!Next]_Shown)
<1> SUFFICES ASSUME OutcomesLast PROVE Spec => Lifecycle!Init /\ [][Lifecycle!Next]_Shown
    OBVIOUS
<1>1. Init => Lifecycle!Init
      BY DEF Init, Lifecycle!Init, Shown, RowExists
<1>2. LivesInv /\ [Next]_vars => [Lifecycle!Next]_Shown
  <2>1. UNCHANGED vars => UNCHANGED Shown
        BY DEF vars, apiVars, rowVars, Shown, RowExists
  <2>2. QED
        BY <2>1, LifecycleStep
<1>3. Spec => []LivesInv
      BY AlwaysLivesInv
<1>4. QED
      BY <1>1, <1>2, <1>3, PTL DEF Spec

-----------------------------------------------------------------------------
(***************************************************************************)
(* The limit.  A user's jobs that count, or will when they are committed,  *)
(* become more only by a new request, which found the committed ones below *)
(* the limit and a session for itself; the others have a session each.     *)
(***************************************************************************)
Counting(u) ==
    {j \in Jobs :
        /\ api[j] \in {"created", "enqueued"} \/ (RowExists(j) /\ status[j] \in Active)
        /\ Owner[book[j]] = u}

LimitInv ==
    LivesInv /\ \A u \in Users : Cardinality(Counting(u)) <= MaxConcurrentJobs + Sessions - 1

LEMMA JobSetsAreFinite ==
    ASSUME NEW S \in SUBSET Jobs
    PROVE  IsFiniteSet(S) /\ Cardinality(S) \in Nat
<1>1. IsFiniteSet(S)
      BY ConstantsAssumption, FS_Subset
<1>2. QED
      BY <1>1, FS_CardinalityType

\* The only step that opens a request is a new one, and no book is changed.
LEMMA RequestSteps ==
    ASSUME OutcomesLast, LivesInv, Next, "retry" \notin Requests
    PROVE  \/ \E i \in Jobs, b \in Books : StartIngestion(i, b)
           \/ /\ UNCHANGED book
              /\ \A j \in Jobs : api'[j] \in {"created", "enqueued"} => api[j] \in {"created", "enqueued"}
<1> DEFINE Fewer ==
        /\ UNCHANGED book
        /\ \A j \in Jobs : api'[j] \in {"created", "enqueued"} => api[j] \in {"created", "enqueued"}
<1>1. api \in [Jobs -> {"unused", "created", "enqueued", "committed", "rolledback"}]
      BY DEF LivesInv, CopiesInv, TypeInv, ApiTypeOK
<1>2. ASSUME UserStep PROVE Fewer \/ \E i \in Jobs, b \in Books : StartIngestion(i, b)
  <2>1. ASSUME NEW i \in Jobs, NEW n \in Jobs, RetryJob(i, n) PROVE FALSE
        BY <2>1 DEF RetryJob
  <2>2. QED
        BY <1>2, <2>1 DEF UserStep, VerifyUpload, DeleteBook, CancelRevokes
<1>3. ASSUME NEW i \in Jobs, ApiStep(i) \/ EnqueueFails(i) \/ Rollback(i) PROVE Fewer
      BY <1>1, <1>3 DEF ApiStep, Enqueue, Commit, CancelCommits, EnqueueFails, Rollback
<1>4. ASSUME NEW w \in Workers, Receive(w) \/ WorkerStep(w) PROVE Fewer
      BY <1>4
      DEF Receive, Deliver, Discard, WorkerStep, Begin, Setup, ReportStage, MarkDone,
          Canonicalize, Retry, MarkFailed, Ack, Restart, HandleRevoke, apiVars
<1>5. ASSUME NEW w \in Workers,
             \/ BeginFails(w) \/ SetupFails(w) \/ PipelineFails(w)
             \/ CanonicalizeFails(w) \/ RetryFails(w) \/ MarkFailedFails(w)
             \/ ChildKilled(w) \/ Crash(w) \/ VisibilityTimeout(w)
      PROVE  Fewer
      BY <1>5
      DEF BeginFails, SetupFails, PipelineFails, Raise, CanonicalizeFails, RetryFails,
          MarkFailedFails, ChildKilled, GiveUp, Crash, VisibilityTimeout, apiVars
<1>6. QED
      BY <1>2, <1>3, <1>4, <1>5 DEF Next, Failure

\* A row is active after a step only if it was before, or was being created.
LEMMA NoRevival ==
    ASSUME OutcomesLast, LivesInv, Next, NEW j \in Jobs, RowExists(j)', status'[j] \in Active
    PROVE  api[j] = "enqueued" \/ (RowExists(j) /\ status[j] \in Active)
<1>1. /\ status \in [Jobs -> {"none"} \cup Active \cup Terminal]
      /\ api \in [Jobs -> {"unused", "created", "enqueued", "committed", "rolledback"}]
      BY DEF LivesInv, CopiesInv, TypeInv, ApiTypeOK, RowTypeOK
<1>2. ASSUME NEW i \in Jobs, Commit(i)
      PROVE  api[j] = "enqueued" \/ (RowExists(j) /\ status[j] \in Active)
      BY <1>1, <1>2 DEF Commit, RowExists
<1>3. ASSUME NEW w \in Workers, NEW s \in {"running", "completed", "failed"},
             job[w] \in Jobs, w \in Held(job[w]), SetStatus(job[w], s), UNCHANGED api,
             \/ pc[w] = "begin" /\ s = "running"
             \/ pc[w] = "pipeline" /\ s \in {"running", "completed"}
             \/ pc[w] = "fail" /\ s = "failed"
      PROVE  RowExists(j) /\ status[j] \in Active
  <2>1. RowExists(j)
        BY <1>3 DEF RowExists
  <2>2. CASE j # job[w]
        BY <1>1, <1>3, <2>1, <2>2 DEF SetStatus
  <2>3. CASE j = job[w]
        BY <1>3, <2>1, <2>3 DEF LivesInv, LifeInv, Expected, Active, SetStatus
  <2>4. QED
        BY <2>2, <2>3
<1>4. QED
      BY <1>2, <1>3, RowSteps

LEMMA NextLimitInv ==
    ASSUME OutcomesLast, "retry" \notin Requests, LimitInv, Next, NEW u \in Users
    PROVE  Cardinality(Counting(u)') <= MaxConcurrentJobs + Sessions - 1
<1>1. /\ LivesInv /\ Cardinality(Counting(u)) <= MaxConcurrentJobs + Sessions - 1
      /\ MaxConcurrentJobs \in Nat /\ Sessions \in Nat
      BY ConstantsAssumption DEF LimitInv
<1>2. /\ Counting(u) \in SUBSET Jobs /\ Counting(u)' \in SUBSET Jobs
      /\ ActiveJobs(u) \in SUBSET Jobs /\ InFlight \in SUBSET Jobs
      /\ InFlight \cup {j \in Jobs : cancel[j]} \in SUBSET Jobs
      BY DEF Counting, ActiveJobs, InFlight
<1>3. /\ IsFiniteSet(Counting(u)) /\ Cardinality(Counting(u)) \in Nat
      /\ IsFiniteSet(Counting(u)') /\ Cardinality(Counting(u)') \in Nat
      /\ IsFiniteSet(ActiveJobs(u)) /\ Cardinality(ActiveJobs(u)) \in Nat
      /\ IsFiniteSet(InFlight) /\ Cardinality(InFlight) \in Nat
      BY <1>2, JobSetsAreFinite
<1>4. ASSUME Counting(u)' \subseteq Counting(u)
      PROVE  Cardinality(Counting(u)') <= MaxConcurrentJobs + Sessions - 1
  <2>1. Cardinality(Counting(u)') <= Cardinality(Counting(u))
        BY <1>3, <1>4, FS_Subset
  <2>2. QED
        BY <1>1, <1>3, <2>1
<1>5. CASE /\ UNCHANGED book
           /\ \A j \in Jobs : api'[j] \in {"created", "enqueued"} => api[j] \in {"created", "enqueued"}
  <2>1. Counting(u)' \subseteq Counting(u)
        BY <1>1, <1>5, NoRevival DEF Counting
  <2>2. QED
        BY <1>4, <2>1
<1>6. ASSUME NEW i \in Jobs, NEW b \in Books, StartIngestion(i, b)
      PROVE  Cardinality(Counting(u)') <= MaxConcurrentJobs + Sessions - 1
  <2>1. /\ ~AtLimit(Owner[b]) /\ SessionFree /\ UNCHANGED status
        /\ api' = [api EXCEPT ![i] = "created"] /\ book' = [book EXCEPT ![i] = b]
        /\ api[i] = "unused"
        BY <1>6 DEF StartIngestion, CreateRow, rowVars
  <2>2. /\ api \in [Jobs -> {"unused", "created", "enqueued", "committed", "rolledback"}]
        /\ book \in [Jobs -> Books \cup {NoBook}]
        BY <1>1 DEF LivesInv, CopiesInv, TypeInv, ApiTypeOK
  <2>3. CASE Owner[b] # u
    <3>1. Counting(u)' \subseteq Counting(u)
          BY <2>1, <2>2, <2>3 DEF Counting, RowExists
    <3>2. QED
          BY <1>4, <3>1
  <2>4. CASE Owner[b] = u
    <3>1. Counting(u)' \in SUBSET (ActiveJobs(u) \cup (InFlight \cup {i}))
          BY <2>1, <2>2 DEF Counting, ActiveJobs, InFlight, RowExists
    <3>2. Cardinality(ActiveJobs(u)) < MaxConcurrentJobs
          BY <1>1, <1>3, <2>1, <2>4 DEF AtLimit
    <3>3. Cardinality(InFlight) < Sessions
      <4>1. /\ IsFiniteSet(InFlight \cup {j \in Jobs : cancel[j]})
            /\ Cardinality(InFlight \cup {j \in Jobs : cancel[j]}) \in Nat
            BY <1>2, JobSetsAreFinite
      <4>2. Cardinality(InFlight) <= Cardinality(InFlight \cup {j \in Jobs : cancel[j]})
            BY <4>1, FS_Subset
      <4>3. QED
            BY <1>1, <1>3, <2>1, <4>1, <4>2 DEF SessionFree
    <3>4. /\ IsFiniteSet(InFlight \cup {i}) /\ Cardinality(InFlight \cup {i}) \in Nat
          /\ Cardinality(InFlight \cup {i}) <= Cardinality(InFlight) + 1
      <4>1. /\ IsFiniteSet(InFlight \cup {i})
            /\ Cardinality(InFlight \cup {i}) =
                  IF i \in InFlight THEN Cardinality(InFlight) ELSE Cardinality(InFlight) + 1
            BY <1>3, FS_AddElement
      <4>2. QED
            BY <1>3, <4>1
    <3> DEFINE both == ActiveJobs(u) \cup (InFlight \cup {i})
               shared == ActiveJobs(u) \cap (InFlight \cup {i})
    <3>5. both \in SUBSET Jobs /\ shared \in SUBSET Jobs
          BY <1>2
    <3>6. Cardinality(both) = Cardinality(ActiveJobs(u)) + Cardinality(InFlight \cup {i}) - Cardinality(shared)
          BY <1>3, <3>4, FS_Union
    <3> HIDE DEF both, shared
    <3>7. IsFiniteSet(both) /\ Cardinality(both) \in Nat /\ Cardinality(shared) \in Nat
          BY <3>5, JobSetsAreFinite
    <3>8. Cardinality(Counting(u)') <= Cardinality(both)
          BY <3>1, <3>7, FS_Subset DEF both
    <3>9. QED
          BY <1>1, <1>3, <3>2, <3>3, <3>4, <3>6, <3>7, <3>8
  <2>5. QED
        BY <2>3, <2>4
<1>7. QED
      BY <1>1, <1>5, <1>6, RequestSteps

\* The check of the limit and the insert are two steps, but requests that race
\* for it exceed it by no more than the other sessions the API can hold, as
\* long as nothing revives a finished job and none is retried by its owner,
\* which does not look at the limit (start_ingestion, pool_size).
THEOREM OvershootIsBounded ==
    OutcomesLast /\ "retry" \notin Requests => (Spec => []OvershootBound)
<1> SUFFICES ASSUME OutcomesLast, "retry" \notin Requests PROVE Spec => []OvershootBound
    OBVIOUS
<1>1. Init => \A u \in Users : Cardinality(Counting(u)) <= MaxConcurrentJobs + Sessions - 1
  <2> SUFFICES ASSUME Init, NEW u \in Users
               PROVE  Cardinality(Counting(u)) <= MaxConcurrentJobs + Sessions - 1
      OBVIOUS
  <2>1. Counting(u) = {}
        BY DEF Init, Counting, RowExists
  <2>2. Cardinality(Counting(u)) = 0
        BY <2>1, FS_EmptySet
  <2>3. QED
        BY <2>2, ConstantsAssumption
<1>2. /\ \A u \in Users : Cardinality(Counting(u)) <= MaxConcurrentJobs + Sessions - 1
      /\ LivesInv /\ [Next]_vars
      => (\A u \in Users : Cardinality(Counting(u)) <= MaxConcurrentJobs + Sessions - 1)'
  <2>1. UNCHANGED vars => \A u \in Users : Counting(u)' = Counting(u)
        BY DEF vars, apiVars, rowVars, Counting, RowExists
  <2>2. QED
        BY <2>1, NextLimitInv DEF LimitInv
<1>3. Spec => []LivesInv
      BY AlwaysLivesInv
<1>4. /\ \A u \in Users : Cardinality(Counting(u)) <= MaxConcurrentJobs + Sessions - 1
      => OvershootBound
  <2> SUFFICES ASSUME NEW u \in Users, Cardinality(Counting(u)) <= MaxConcurrentJobs + Sessions - 1
               PROVE  Cardinality(ActiveJobs(u)) <= MaxConcurrentJobs + Sessions - 1
      BY DEF OvershootBound
  <2>1. ActiveJobs(u) \in SUBSET Counting(u)
        BY DEF ActiveJobs, Counting
  <2>2. /\ IsFiniteSet(Counting(u)) /\ Cardinality(Counting(u)) \in Nat
        /\ Cardinality(ActiveJobs(u)) \in Nat
        BY JobSetsAreFinite DEF Counting, ActiveJobs
  <2>3. Cardinality(ActiveJobs(u)) <= Cardinality(Counting(u))
        BY <2>1, <2>2, FS_Subset
  <2>4. QED
        BY <2>2, <2>3, ConstantsAssumption
<1>5. QED
      BY <1>1, <1>2, <1>3, <1>4, PTL DEF Spec

=============================================================================
