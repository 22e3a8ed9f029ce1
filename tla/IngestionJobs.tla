---------------------------- MODULE IngestionJobs ----------------------------
(***************************************************************************)
(* The life of ingestion jobs: the API handlers that create, retry and     *)
(* cancel them (apps/api/app/api/v1/routers/books.py and jobs.py), the     *)
(* Celery broker that carries their messages, the workers that run them    *)
(* (apps/worker/app/tasks/ingest.py) and the ingestion_jobs rows both      *)
(* sides write (ingestion_job_repository.py, infrastructure/db.py).        *)
(*                                                                         *)
(* A request handler is split where another actor can act in between: at   *)
(* its reads, at the message it sends, and at the commit that ends its     *)
(* database session.  A worker is split at every write to the row.  Each   *)
(* job is enqueued once, under one Celery task id that its retries keep,   *)
(* so a job stands for its task id.                                        *)
(***************************************************************************)
EXTENDS Integers, Sequences, FiniteSets

CONSTANTS
    Users, Books, Jobs, Workers,
    NoBook, NoJob,
    Owner,              \* Owner[b]: the user who created book b
    MaxConcurrentJobs,  \* settings.MAX_CONCURRENT_JOBS_PER_USER
    Sessions,           \* database sessions the API may hold at once
    MaxRetries,         \* max_retries of run_ingestion
    StageWrites,        \* progress values a pipeline run reports, in order
    BuildGraph,         \* config.build_graph
    Requests,           \* the optional user requests explored
    Faults,             \* the kinds of failure explored
    MaxDisruptions      \* bound on crashes and visibility timeouts

RequestKinds == {"retry", "cancel", "delete"}

FaultKinds ==
    {"enqueue",        \* the API cannot reach the broker
     "rollback",       \* the API's commit fails
     "late_commit",    \* the commit takes longer than the 3 s countdown
     "status_write",   \* the worker's update of the row raises
     "setup",          \* config or book title cannot be had
     "transient",      \* the pipeline raises a ConnectionError, TimeoutError, OSError
     "permanent",      \* it raises anything else, SoftTimeLimitExceeded included
     "canonicalize",   \* the follow-up task cannot be enqueued
     "retry_publish",  \* the retry message cannot be enqueued
     "kill",           \* the worker's child process dies (hard time limit, OOM)
     "crash",          \* the whole worker dies
     "visibility"}     \* the broker redelivers a message that is held too long

Permille == 0..1000

ASSUME ConstantsAssumption ==
    /\ IsFiniteSet(Jobs) /\ IsFiniteSet(Workers)
    /\ NoJob \notin Jobs /\ NoBook \notin Books
    /\ Owner \in [Books -> Users]
    /\ MaxConcurrentJobs \in Nat /\ Sessions \in Nat \ {0} /\ MaxRetries \in Nat
    /\ StageWrites \in Seq(Permille)
    /\ BuildGraph \in BOOLEAN
    /\ Requests \subseteq RequestKinds /\ Faults \subseteq FaultKinds
    /\ MaxDisruptions \in Nat

VARIABLES
    upload,        \* book file: "pending", "verified"; "deleted": book soft-deleted
    \* The request that creates each job
    api,           \* how far it has come
    book,          \* the book it is for
    sent,          \* whether its message was enqueued (and celery_task_id set)
    cancel,        \* a cancel request on the job, between revoke and commit
    \* ingestion_jobs
    status, progress,
    \* Celery
    ready,         \* ready[j][k]: messages of job j, at its k-th retry, in the queue
    control,       \* revoke broadcasts on their way to each worker
    revoked,       \* the task ids each worker remembers as revoked
    \* Workers: the message each holds, and how far it has come with it
    pc, job, retries, step,
    canonicalized, \* jobs that enqueued canonicalize_concepts
    \* History, and a bound
    excused,       \* jobs that met an event after which the code owes them no outcome
    duplicates,    \* how often the broker came to redeliver a message of each job
                   \* that another worker, or a retry, was already serving
    disruptions    \* crashes and visibility timeouts so far

apiVars     == <<upload, api, book, sent, cancel>>
rowVars     == <<status, progress>>
brokerVars  == <<ready, control, revoked>>
workerVars  == <<pc, job, retries, step>>
historyVars == <<excused, duplicates, disruptions>>
vars == <<apiVars, rowVars, brokerVars, workerVars, canonicalized, historyVars>>

Active   == {"queued", "running"}
Terminal == {"completed", "failed", "canceled"}

Idle == {"down", "idle"}
Phases == {"begin", "setup", "pipeline", "canonicalize", "retry", "fail", "ack"}

ApiTypeOK ==
    /\ upload \in [Books -> {"pending", "verified", "deleted"}]
    /\ api \in [Jobs -> {"unused", "created", "enqueued", "committed", "rolledback"}]
    /\ book \in [Jobs -> Books \cup {NoBook}]
    /\ sent \in [Jobs -> BOOLEAN]
    /\ cancel \in [Jobs -> BOOLEAN]

RowTypeOK ==
    /\ status \in [Jobs -> {"none"} \cup Active \cup Terminal]
    /\ progress \in [Jobs -> Permille]

BrokerTypeOK ==
    /\ ready \in [Jobs -> [0..MaxRetries -> Nat]]
    /\ control \in [Workers -> SUBSET Jobs]
    /\ revoked \in [Workers -> SUBSET Jobs]

WorkerTypeOK ==
    /\ pc \in [Workers -> Idle \cup Phases]
    /\ job \in [Workers -> Jobs \cup {NoJob}]
    /\ retries \in [Workers -> 0..MaxRetries]
    /\ step \in [Workers -> 0..Len(StageWrites) + 1]

HistoryTypeOK ==
    /\ canonicalized \subseteq Jobs
    /\ excused \subseteq Jobs
    /\ duplicates \in [Jobs -> Nat]
    /\ disruptions \in 0..MaxDisruptions

TypeOK == ApiTypeOK /\ RowTypeOK /\ BrokerTypeOK /\ WorkerTypeOK /\ HistoryTypeOK

Init ==
    /\ upload \in [Books -> {"pending", "verified"}]
    /\ api = [j \in Jobs |-> "unused"]
    /\ book = [j \in Jobs |-> NoBook]
    /\ sent = [j \in Jobs |-> FALSE]
    /\ cancel = [j \in Jobs |-> FALSE]
    /\ status = [j \in Jobs |-> "none"]
    /\ progress = [j \in Jobs |-> 0]
    /\ ready = [j \in Jobs |-> [k \in 0..MaxRetries |-> 0]]
    /\ control = [w \in Workers |-> {}]
    /\ revoked = [w \in Workers |-> {}]
    /\ pc = [w \in Workers |-> "idle"]
    /\ job = [w \in Workers |-> NoJob]
    /\ retries = [w \in Workers |-> 0]
    /\ step = [w \in Workers |-> 0]
    /\ canonicalized = {}
    /\ excused = {}
    /\ duplicates = [j \in Jobs |-> 0]
    /\ disruptions = 0

-----------------------------------------------------------------------------
(***************************************************************************)
(* The API.  A transaction sees the rows that others have committed, so    *)
(* the limit is counted over committed rows.                               *)
(***************************************************************************)
RowExists(j) == api[j] = "committed"

ActiveJobs(u) ==
    {j \in Jobs : RowExists(j) /\ Owner[book[j]] = u /\ status[j] \in Active}

\* Requests that have created their row and not yet ended their session.
InFlight == {j \in Jobs : api[j] \in {"created", "enqueued"}}

\* The connection pool of session.py: a request without a connection fails.
SessionFree == Cardinality(InFlight \cup {j \in Jobs : cancel[j]}) < Sessions

\* A faulty form: the limit is compared with > instead of >=.
AtLimitOffByOne(u) == Cardinality(ActiveJobs(u)) > MaxConcurrentJobs

AtLimit(u) == Cardinality(ActiveJobs(u)) >= MaxConcurrentJobs

\* upload_complete, as far as ingestion depends on it.
VerifyUpload(b) ==
    /\ upload[b] = "pending"
    /\ upload' = [upload EXCEPT ![b] = "verified"]
    /\ UNCHANGED <<api, book, sent, cancel, rowVars, brokerVars, workerVars,
                   canonicalized, historyVars>>

\* delete_book marks the book deleted; its jobs and their messages stay.
DeleteBook(b) ==
    /\ "delete" \in Requests
    /\ upload[b] # "deleted"
    /\ upload' = [upload EXCEPT ![b] = "deleted"]
    /\ UNCHANGED <<api, book, sent, cancel, rowVars, brokerVars, workerVars,
                   canonicalized, historyVars>>

CreateRow(j, b) ==
    /\ api[j] = "unused" /\ SessionFree
    /\ api' = [api EXCEPT ![j] = "created"]
    /\ book' = [book EXCEPT ![j] = b]
    /\ UNCHANGED <<upload, sent, cancel, rowVars, brokerVars, workerVars,
                   canonicalized, historyVars>>

\* start_ingestion up to the new row: its checks, then job_repo.create.
StartIngestion(j, b) ==
    /\ upload[b] = "verified"
    /\ ~AtLimit(Owner[b])
    /\ CreateRow(j, b)

Retryable(j) == RowExists(j) /\ status[j] = "failed"

\* retry_job up to the new row n: the failed job j is left as it is, and
\* neither the limit nor the book is looked at.
RetryJob(j, n) ==
    /\ "retry" \in Requests
    /\ Retryable(j)
    /\ CreateRow(n, book[j])

\* enqueue_ingestion returns: the message is in the queue before the commit.
Enqueue(j) ==
    /\ api[j] = "created"
    /\ api' = [api EXCEPT ![j] = "enqueued"]
    /\ sent' = [sent EXCEPT ![j] = TRUE]
    /\ ready' = [ready EXCEPT ![j][0] = @ + 1]
    /\ UNCHANGED <<upload, book, cancel, rowVars, control, revoked, workerVars,
                   canonicalized, historyVars>>

\* enqueue_ingestion raises: the error is logged and the row is kept.
EnqueueFails(j) ==
    /\ "enqueue" \in Faults
    /\ api[j] = "created"
    /\ api' = [api EXCEPT ![j] = "enqueued"]
    /\ UNCHANGED <<upload, book, sent, cancel, rowVars, brokerVars, workerVars,
                   canonicalized, historyVars>>

\* get_db commits once the handler has returned.
Commit(j) ==
    /\ api[j] = "enqueued"
    /\ api' = [api EXCEPT ![j] = "committed"]
    /\ status' = [status EXCEPT ![j] = "queued"]
    /\ progress' = [progress EXCEPT ![j] = 0]
    /\ UNCHANGED <<upload, book, sent, cancel, brokerVars, workerVars,
                   canonicalized, historyVars>>

\* get_db rolls back: the row never appears, the message is not taken back.
Rollback(j) ==
    /\ "rollback" \in Faults
    /\ api[j] \in {"created", "enqueued"}
    /\ api' = [api EXCEPT ![j] = "rolledback"]
    /\ UNCHANGED <<upload, book, sent, cancel, rowVars, brokerVars, workerVars,
                   canonicalized, historyVars>>

\* cancel_job reads the row and broadcasts a revoke for its task id, whatever
\* the row's status; a broadcast reaches the workers that are up.  An error
\* of the broadcast is swallowed, as is the case of a row without a task id.
CancelRevokes(j) ==
    /\ "cancel" \in Requests
    /\ RowExists(j) /\ ~cancel[j] /\ SessionFree
    /\ cancel' = [cancel EXCEPT ![j] = TRUE]
    /\ \/ /\ sent[j]
          /\ control' = [w \in Workers |->
                            IF pc[w] = "down" THEN control[w] ELSE control[w] \cup {j}]
       \/ /\ ~sent[j] \/ "enqueue" \in Faults
          /\ UNCHANGED control
    /\ UNCHANGED <<upload, api, book, sent, rowVars, ready, revoked, workerVars,
                   canonicalized, historyVars>>

\* Then it sets the status, and get_db commits.
CancelCommits(j) ==
    /\ cancel[j]
    /\ cancel' = [cancel EXCEPT ![j] = FALSE]
    /\ status' = [status EXCEPT ![j] = "canceled"]
    /\ UNCHANGED <<upload, api, book, sent, progress, brokerVars, workerVars,
                   canonicalized, historyVars>>

-----------------------------------------------------------------------------
(***************************************************************************)
(* Workers and broker.  With acks_late a worker holds its message until    *)
(* the task has returned or raised, and only then acknowledges it.         *)
(***************************************************************************)
Holds(w, j) == pc[w] \in Phases /\ job[w] = j

Publish(j, k) == ready' = [ready EXCEPT ![j][k] = @ + 1]

\* The worker has no message any more.
Release(w, next) ==
    /\ pc' = [pc EXCEPT ![w] = next]
    /\ job' = [job EXCEPT ![w] = NoJob]
    /\ retries' = [retries EXCEPT ![w] = 0]
    /\ step' = [step EXCEPT ![w] = 0]

Goto(w, next) ==
    /\ pc' = [pc EXCEPT ![w] = next]
    /\ UNCHANGED <<job, retries>>
    /\ step' = [step EXCEPT ![w] = IF next = "pipeline" THEN 1 ELSE 0]

Excuse(j) == excused' = excused \cup {j}

\* update_job_status: an UPDATE that matches no row changes nothing, and one
\* that matches never looks at the status it replaces.
SetStatus(j, s) ==
    status' = IF RowExists(j) THEN [status EXCEPT ![j] = s] ELSE status

SetProgress(j, p) ==
    progress' = IF RowExists(j) THEN [progress EXCEPT ![j] = p] ELSE progress

\* The task ends without an outcome in the row: the message is acknowledged.
GiveUp(w) ==
    /\ Release(w, "idle")
    /\ Excuse(job[w])
    /\ UNCHANGED <<apiVars, rowVars, brokerVars, canonicalized, duplicates, disruptions>>

\* A message is delivered 3 s after it was sent, which the API relies on to
\* have committed by then.
CountdownOver(j) == api[j] # "enqueued" \/ "late_commit" \in Faults

\* A faulty form: the queue is read even when it is empty.
HasMessageOffByOne(j, k) == ready[j][k] >= 0

HasMessage(j, k) == ready[j][k] > 0

\* A faulty form: the worker does not consult its list of revoked tasks.
IsRevokedNever(w, j) == FALSE

IsRevoked(w, j) == j \in revoked[w]

Deliver(w, j, k) ==
    /\ pc[w] = "idle" /\ HasMessage(j, k) /\ CountdownOver(j)
    /\ ~IsRevoked(w, j)
    /\ ready' = [ready EXCEPT ![j][k] = @ - 1]
    /\ pc' = [pc EXCEPT ![w] = "begin"]
    /\ job' = [job EXCEPT ![w] = j]
    /\ retries' = [retries EXCEPT ![w] = k]
    /\ excused' = IF RowExists(j) THEN excused ELSE excused \cup {j}
    /\ UNCHANGED <<apiVars, rowVars, control, revoked, step, canonicalized,
                   duplicates, disruptions>>

\* A revoked message is acknowledged unread.
Discard(w, j, k) ==
    /\ pc[w] = "idle" /\ HasMessage(j, k) /\ CountdownOver(j)
    /\ IsRevoked(w, j)
    /\ ready' = [ready EXCEPT ![j][k] = @ - 1]
    /\ Excuse(j)
    /\ UNCHANGED <<apiVars, rowVars, control, revoked, workerVars, canonicalized,
                   duplicates, disruptions>>

\* The first write of run_ingestion: running, with the task id.
Begin(w) ==
    /\ pc[w] = "begin"
    /\ SetStatus(job[w], "running")
    /\ Goto(w, "setup")
    /\ UNCHANGED <<apiVars, progress, brokerVars, canonicalized, historyVars>>

BeginFails(w) ==
    /\ "status_write" \in Faults
    /\ pc[w] = "begin"
    /\ GiveUp(w)

\* IngestionConfig, fetch_book_title and IngestionPipeline, ahead of the try.
Setup(w) ==
    /\ pc[w] = "setup"
    /\ Goto(w, "pipeline")
    /\ UNCHANGED <<apiVars, rowVars, brokerVars, canonicalized, historyVars>>

SetupFails(w) ==
    /\ "setup" \in Faults
    /\ pc[w] = "setup"
    /\ GiveUp(w)

\* The pipeline's next _update_stage.
ReportStage(w) ==
    /\ pc[w] = "pipeline" /\ step[w] \in DOMAIN StageWrites
    /\ SetStatus(job[w], "running")
    /\ SetProgress(job[w], StageWrites[step[w]])
    /\ step' = [step EXCEPT ![w] = @ + 1]
    /\ UNCHANGED <<apiVars, brokerVars, pc, job, retries, canonicalized, historyVars>>

\* _mark_done, at the end of the pipeline.
MarkDone(w) ==
    /\ pc[w] = "pipeline" /\ step[w] = Len(StageWrites) + 1
    /\ SetStatus(job[w], "completed")
    /\ SetProgress(job[w], 1000)
    /\ Goto(w, IF BuildGraph THEN "canonicalize" ELSE "ack")
    /\ UNCHANGED <<apiVars, brokerVars, canonicalized, historyVars>>

\* canonicalize_concepts.apply_async, still inside the try.
Canonicalize(w) ==
    /\ pc[w] = "canonicalize"
    /\ canonicalized' = canonicalized \cup {job[w]}
    /\ Goto(w, "ack")
    /\ UNCHANGED <<apiVars, rowVars, brokerVars, historyVars>>

RetriesLeft(w) == retries[w] < MaxRetries

\* A faulty form: an exhausted job is left without a failed status.
AfterErrorSilent(w, transient) == IF transient /\ RetriesLeft(w) THEN "retry" ELSE "ack"

\* The except branch: a transient error is retried while retries are left.
AfterError(w, transient) == IF transient /\ RetriesLeft(w) THEN "retry" ELSE "fail"

Raise(w, transient) ==
    /\ Goto(w, AfterError(w, transient))
    /\ UNCHANGED <<apiVars, rowVars, brokerVars, canonicalized, historyVars>>

PipelineFails(w) ==
    /\ pc[w] = "pipeline"
    /\ \/ "transient" \in Faults /\ Raise(w, TRUE)
       \/ "permanent" \in Faults /\ Raise(w, FALSE)

CanonicalizeFails(w) ==
    /\ "canonicalize" \in Faults
    /\ pc[w] = "canonicalize"
    /\ \E transient \in BOOLEAN : Raise(w, transient)

\* A faulty form: retry does not raise, and the failure branch goes on.
AfterRetryGoesOn == "fail"

AfterRetry == "ack"

\* self.retry publishes a message for the next attempt; the row keeps its
\* status.  The message held is acknowledged after that.
Retry(w) ==
    /\ pc[w] = "retry"
    /\ Publish(job[w], retries[w] + 1)
    /\ Goto(w, AfterRetry)
    /\ UNCHANGED <<apiVars, rowVars, control, revoked, canonicalized, historyVars>>

\* Celery turns a retry it cannot publish into a Reject without requeueing.
RetryFails(w) ==
    /\ "retry_publish" \in Faults
    /\ pc[w] = "retry"
    /\ GiveUp(w)

\* A faulty form: the failure also resets the progress.
MarkFailedResets(w) ==
    /\ pc[w] = "fail"
    /\ SetStatus(job[w], "failed")
    /\ SetProgress(job[w], 0)
    /\ Goto(w, "ack")
    /\ UNCHANGED <<apiVars, brokerVars, canonicalized, historyVars>>

\* The permanent-failure branch: status failed, then the exception goes on.
MarkFailed(w) ==
    /\ pc[w] = "fail"
    /\ SetStatus(job[w], "failed")
    /\ Goto(w, "ack")
    /\ UNCHANGED <<apiVars, progress, brokerVars, canonicalized, historyVars>>

MarkFailedFails(w) ==
    /\ "status_write" \in Faults
    /\ pc[w] = "fail"
    /\ GiveUp(w)

\* The task has returned or raised: its message is acknowledged.
Ack(w) ==
    /\ pc[w] = "ack"
    /\ Release(w, "idle")
    /\ UNCHANGED <<apiVars, rowVars, brokerVars, canonicalized, historyVars>>

-----------------------------------------------------------------------------
(***************************************************************************)
(* What happens to workers from outside their task.                        *)
(***************************************************************************)
\* A worker receives a revoke with terminate=True: it remembers the id, and
\* if it is running the task it kills it and acknowledges the message.
HandleRevoke(w, j) ==
    /\ pc[w] # "down" /\ j \in control[w]
    /\ control' = [control EXCEPT ![w] = @ \ {j}]
    /\ revoked' = [revoked EXCEPT ![w] = @ \cup {j}]
    /\ IF Holds(w, j) /\ pc[w] # "ack"
       THEN Release(w, "idle") /\ Excuse(j)
       ELSE UNCHANGED <<workerVars, excused>>
    /\ UNCHANGED <<apiVars, rowVars, ready, canonicalized, duplicates, disruptions>>

\* The child process dies: acks_late without task_reject_on_worker_lost
\* acknowledges the message all the same.
ChildKilled(w) ==
    /\ "kill" \in Faults
    /\ pc[w] \in Phases \ {"ack"}
    /\ GiveUp(w)

\* A faulty form: the message was acknowledged when it was received.
RedeliverNothing(j, k) == ready

Redeliver(j, k) == [ready EXCEPT ![j][k] = @ + 1]

Disrupt == disruptions < MaxDisruptions /\ disruptions' = disruptions + 1

Duplicate(j) == duplicates' = [duplicates EXCEPT ![j] = @ + 1]

\* The whole worker dies: what it held goes back to the queue, and what it
\* knew of revoked tasks is gone.
Crash(w) ==
    /\ "crash" \in Faults /\ Disrupt
    /\ pc[w] # "down"
    /\ Release(w, "down")
    /\ IF pc[w] \in Phases
       THEN ready' = Redeliver(job[w], retries[w])
       ELSE UNCHANGED ready
    /\ IF pc[w] = "ack" THEN Duplicate(job[w]) ELSE UNCHANGED duplicates
    /\ control' = [control EXCEPT ![w] = {}]
    /\ revoked' = [revoked EXCEPT ![w] = {}]
    /\ UNCHANGED <<apiVars, rowVars, canonicalized, excused>>

Restart(w) ==
    /\ pc[w] = "down"
    /\ pc' = [pc EXCEPT ![w] = "idle"]
    /\ UNCHANGED <<apiVars, rowVars, brokerVars, job, retries, step, canonicalized,
                   historyVars>>

\* A message held past the broker's visibility timeout is delivered again,
\* while the worker that holds it goes on.
VisibilityTimeout(w) ==
    /\ "visibility" \in Faults /\ Disrupt
    /\ pc[w] \in Phases
    /\ Publish(job[w], retries[w])
    /\ Duplicate(job[w])
    /\ UNCHANGED <<apiVars, rowVars, control, revoked, workerVars, canonicalized, excused>>

-----------------------------------------------------------------------------
ApiStep(j) == Enqueue(j) \/ Commit(j) \/ CancelCommits(j)

Receive(w) ==
    \E j \in Jobs, k \in 0..MaxRetries : Deliver(w, j, k) \/ Discard(w, j, k)

WorkerStep(w) ==
    \/ Begin(w) \/ Setup(w) \/ ReportStage(w) \/ MarkDone(w) \/ Canonicalize(w)
    \/ Retry(w) \/ MarkFailed(w) \/ Ack(w) \/ Restart(w)
    \/ \E j \in Jobs : HandleRevoke(w, j)

UserStep ==
    \/ \E b \in Books : VerifyUpload(b) \/ DeleteBook(b)
    \/ \E j \in Jobs, b \in Books : StartIngestion(j, b)
    \/ \E j, n \in Jobs : RetryJob(j, n)
    \/ \E j \in Jobs : CancelRevokes(j)

Failure ==
    \/ \E j \in Jobs : EnqueueFails(j) \/ Rollback(j)
    \/ \E w \in Workers :
          \/ BeginFails(w) \/ SetupFails(w) \/ PipelineFails(w)
          \/ CanonicalizeFails(w) \/ RetryFails(w) \/ MarkFailedFails(w)
          \/ ChildKilled(w) \/ Crash(w) \/ VisibilityTimeout(w)

Next ==
    \/ UserStep
    \/ \E j \in Jobs : ApiStep(j)
    \/ \E w \in Workers : Receive(w) \/ WorkerStep(w)
    \/ Failure

Spec == Init /\ [][Next]_vars

\* A handler that has started runs to its end; some worker takes messages as
\* long as there are any; a worker that is up goes on with its task.  That a
\* dead worker is started again is not assumed, as nothing in the repository
\* does so, and nothing is assumed of users or of failures.
Fairness ==
    /\ \A j \in Jobs : WF_vars(ApiStep(j))
    /\ WF_vars(\E w \in Workers : Receive(w))
    /\ \A w \in Workers : WF_vars(pc[w] # "down" /\ WorkerStep(w))

FairSpec == Spec /\ Fairness

-----------------------------------------------------------------------------
(***************************************************************************)
(* Properties.                                                             *)
(***************************************************************************)
Held(j) == {w \in Workers : Holds(w, j) /\ pc[w] # "ack"}

InQueue(j) == \E k \in 0..MaxRetries : HasMessage(j, k)

\* Some copy of job j's message will still lead to an outcome in its row.
Pending(j) ==
    \/ InQueue(j)
    \/ \E w \in Held(j) : pc[w] # "canonicalize"

\* Late acknowledgement loses no job: while a committed and enqueued job is
\* queued or running, its message is in the queue or with a worker that has
\* yet to write the outcome, through every retry, crash and redelivery.
\* (acks_late in ingest.py and worker.py; the retry published before the ack.)
NoLostJob ==
    \A j \in Jobs :
        RowExists(j) /\ sent[j] /\ status[j] \in Active /\ j \notin excused
            => Pending(j)

\* A completed job has its follow-up task enqueued, or is still being served
\* by a message that will enqueue it or change the status: a crash between
\* _mark_done and apply_async does not skip entity resolution.
NoMissedCanonicalize ==
    \A j \in Jobs :
        BuildGraph /\ status[j] = "completed" /\ j \notin excused
            => j \in canonicalized \/ InQueue(j) \/ Held(j) # {}

Copies(j) ==
    LET inQueue == {c \in (0..MaxRetries) \X (1..(2 + MaxDisruptions)) : c[2] <= ready[j][c[1]]}
    IN  Cardinality(inQueue) + Cardinality(Held(j))

\* A job is never run by more workers at once than its one message and its
\* redeliveries account for: a retry replaces the message it stems from.
DuplicationBound == \A j \in Jobs : Copies(j) <= 1 + duplicates[j]

\* Requests that race for the limit exceed it by no more than the other
\* sessions the API can hold, as long as nothing revives a finished job.
OvershootBound ==
    \A u \in Users : Cardinality(ActiveJobs(u)) <= MaxConcurrentJobs + Sessions - 1

\* The revocation of a canceled job has reached every worker and stopped it.
Settled(j) ==
    status[j] = "canceled" /\ \A w \in Workers : j \in revoked[w] /\ ~Holds(w, j)

\* A settled cancellation is lasting: whatever messages of the job are still
\* to come, nothing takes it up again, until a worker crashes and forgets.
SettledCancel ==
    [][\A j \in Jobs :
          Settled(j) => Settled(j)' \/ \E w \in Workers : pc[w] # "down" /\ pc'[w] = "down"]_vars

\* Reported progress falls back only when a run of the pipeline starts over,
\* as long as the job's message has not been duplicated.
ProgressRestartsAtTheTop ==
    [][\A j \in Jobs :
          progress'[j] < progress[j] /\ duplicates[j] = 0
              => \E w \in Workers : Holds(w, j) /\ pc[w] = "pipeline" /\ step[w] = 1]_vars

\* Every committed and enqueued job reaches a final outcome and keeps it,
\* although attempts fail, workers crash and messages are redelivered.
JobsSettle ==
    \A j \in Jobs : (RowExists(j) /\ sent[j]) ~> [](status[j] \in Terminal)

\* What the owner of a job gets to read of it: no row, no status.
Shown == [j \in Jobs |-> IF RowExists(j) THEN status[j] ELSE "none"]

\* The status of every job, as its owner sees it, follows the abstract life
\* cycle: the row of ingestion_jobs, which requests, workers and the broker's
\* redeliveries write to, implements one register per job.
Lifecycle == INSTANCE JobLifecycle WITH Jobs <- Jobs, status <- Shown

LifecycleSpec == Lifecycle!Spec

-----------------------------------------------------------------------------
(***************************************************************************)
(* A statement of the documentation that the code does not keep.           *)
(***************************************************************************)

\* docs/USER_STORIES.md:183: a canceled job shows status canceled.
CanceledStays ==
    [][\A j \in Jobs : status[j] = "canceled" => status'[j] = "canceled"]_vars

=============================================================================
