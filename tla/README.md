# creator-graphrag in TLA+

creator-graphrag turns books on traditional farming into a searchable knowledge
base and writes video scripts that cite it. A FastAPI service (`apps/api`) takes
requests, a Celery worker (`apps/worker`) ingests books, and five stores stand
between and behind them: Postgres, Redis (broker and publish/subscribe), Qdrant,
Neo4j and S3.

The code is mostly straight-line; what is hard in it lies *between* its parts.
No transaction spans two stores, every message may be delivered more than once,
a worker may die between any two writes, requests race with each other and with
the worker, and a citation in a script is only right if a chain of four
components kept their numbers straight. Beside the service stand a web front end
(`apps/web`) and a set of scripts that build the same corpus by hand, with tests of
their own for what an earlier run has left finished. This directory models those parts in
TLA+, checks them with TLC, and proves with TLAPS the main facts about ingestion
jobs, the stores, entity resolution, event streams, the editing of units, browser
sessions, the way from a page to a citation, and the scripts. Paths below are relative to the repository's `src/`.

- [1. Inventory](#1-inventory)
- [2. Modules](#2-modules)
- [3. Runs](#3-runs)
- [4. Fairness](#4-fairness)
- [5. Proofs](#5-proofs)
- [6. Where code and documentation disagree](#6-where-code-and-documentation-disagree)
- [7. Assumptions about other software](#7-assumptions-about-other-software)
- [8. Not modelled](#8-not-modelled)
- [9. Plan](#9-plan)
- [Running it](#running-it)

## 1. Inventory

| Component | State it keeps | Operations | Talks to |
|---|---|---|---|
| Job API (`routers/books.py`, `routers/jobs.py`, `ingestion_job_repository.py`, `celery_client.py`, `session.py`) | the `ingestion_jobs` rows; a bounded pool of sessions | start, retry, cancel a job; get and list jobs | Postgres, broker |
| Ingestion worker (`tasks/ingest.py`, `worker.py`) | the message it holds, its retries, revoked task ids | `run_ingestion`: begin, report, complete, fail, retry | broker, Postgres, the pipeline |
| Pipeline (`pipelines/ingestion_pipeline.py`) | stage and progress | two kinds of run, over a PDF and over a pre-extracted book | all stores |
| Chunker (`pipelines/chunker.py`) | none between calls | cut by headers, cut by a window | pipeline |
| Knowledge store (`qdrant_client.py`, `unit_extractor.py`, `graph_builder.py`, worker `db.py`) | points, chunk rows, units, concepts, relations, steps | upsert, insert, extract, build the graph | Qdrant, Postgres, Neo4j, LLM |
| Entity resolution (`tasks/canonicalize_graph.py`) | `concept_labels` vectors, `SAME_AS` links | fetch, embed, upsert, query, link | Neo4j, Qdrant |
| Job events (`job_events` in `routers/jobs.py`, `publish_job_event` in `db.py`) | a subscription and the last progress of each stream | snapshot, subscribe, receive, poll, end | Redis, Postgres |
| Knowledge unit API (`routers/knowledge_units.py`, `knowledge_unit_repository.py`) | units and the trail `unit_edits` | list, patch one, patch many | Postgres |
| Video packages (`generate_video_package.py`, `routers/video_packages.py`) | packages with their evidence snapshots | generate, read, delete | Qdrant, LLM, Postgres |
| Books and upload | book rows, files | create, upload, verify, delete | S3, Postgres |
| Accounts (`routers/auth.py`, `deps.py`, `security.py`, `user_repository.py`) | the user's row with its failed logins, revoked refresh tokens | register, log in, refresh, authenticate | Postgres, Redis |
| Search, evidence, graph, analytics, health | none | read-only queries | all stores |
| Webhooks (`tasks/webhooks.py`) | none yet | deliver with retries; registration is a stub | HTTP |
| Web session (`apps/web/src/api/client.ts`, `stores/authStore.ts`, `App.tsx`) | tokens in localStorage, who is signed in, the refresh under way | log in, log out, reload, fetch, refresh | API |
| Extraction scripts (`scripts/sarvam_extract.py`, `fix_incomplete_extractions.py`) | a folder per book: `document.md`, page JSON files, parts, `extraction_info.json` | extract a batch of PDFs, repair a book | Sarvam AI |
| Corpus scripts (`scripts/import_sarvam.py`, `run_ingestion.py`, `seed_books.py`, `extract_knowledge_units.py`, `build_knowledge_graph.py`, `apps/api/scripts/rebuild_neo4j_graph.py`) | `extraction_state.json` | import, ingest, register, extract units, build the graph | all stores |
| Backups (`scripts/db_manager.py`) | a dump and a snapshot | back up, restore what is empty | Postgres, Qdrant |

How they interact. `start_ingestion` inserts a row, sends a Celery message and
commits, in that order. A worker takes the message three seconds later at the
earliest, writes the row at every stage, and publishes what it wrote on a Redis
channel. The pipeline writes Qdrant, then Postgres, then Neo4j. Completion
enqueues entity resolution. Event streams read the row and the channel. Editors
change the units a run inserted, while further runs insert more. Video packages
search the points and store what they cite.

What is hard, and what makes each component correct:

- **Jobs.** Hard: the message leaves before the commit; acknowledgement is late;
  a retry is published before its predecessor is acknowledged; a revoke reaches
  only the workers that are up; the limit is counted over committed rows.
  Correct: no job is lost, no follow-up is missed, copies of a job are accounted
  for, every job ends and keeps its outcome, a cancellation lasts, progress does
  not fall, the limit is not exceeded at will.
- **Knowledge store.** Hard: three stores without a common transaction, in
  batches, with overlapping and repeated runs. Correct: a relation leads back to
  its text; a completed run has left everything it found; a process keeps its
  steps; a second run adds nothing.
- **Entity resolution.** Hard: two books resolved at the same time must see each
  other's vectors; vectors may be stale. Correct: near concepts end up linked,
  and only near concepts are.
- **Job events.** Hard: snapshot and subscription are two steps, publications
  get lost, cancellations publish nothing, two workers may serve one job and publish in
  another order than they wrote. Correct: the client learns the
  outcome and the progress, and the stream ends.
- **Knowledge units.** Hard: requests read, compute and write under read
  committed; rows of one transaction share `created_at`. Correct: the trail
  keeps every value, the last change stands, paging shows each unit once.
- **Chunker.** Hard: overlap and minimum length at the cuts, sections across
  pages, a window that ends within a page break. Correct: no text is lost, page numbers hold, cutting ends.
- **Accounts and web session.** Hard: tabs share localStorage but not memory, calls
  of a tab share one refresh, a refresh reads Redis and writes it in a second call,
  and its answer may be lost or come after a logout. Correct: a refresh is refused
  for a reason, what is stored can be used, and no call waits for nothing.
- **Scripts.** Hard: each may end at any write, and the next one judges by a trace
  (a document, a point, a checkpoint, a user) whether anything is left to do.
  Correct: pages keep their order, what counts as imported is whole, what counts as
  extracted has its units, once and for their own book.
- **Video packages.** Hard: the model's indices are not to be trusted, and the
  evidence is numbered twice. Correct: a citation leads to a chunk the model was
  shown and to its pages; no scene disappears silently.

`PROJECT.json` lists every component with its sources, and every hazard at the
line where it bites with the properties that watch it.

## 2. Modules

| Module | Models | Extends or instantiates |
|---|---|---|
| `PipelineStages` | the sequence of progress values of a run | |
| `JobLifecycle` | abstract: what a job promises to its owner | |
| `IngestionJobs` | API, broker, workers and rows of ingestion jobs | instantiates `JobLifecycle` |
| `IngestionJobs_proofs` | theorems about it | `IngestionJobs`, `TLAPS`, library theorems |
| `KnowledgeStore` | what pipeline runs write to the three stores | |
| `KnowledgeStore_proofs` | theorems about it | `KnowledgeStore`, `TLAPS`, library theorems |
| `Canonicalize` | concurrent entity resolution | |
| `Canonicalize_proofs` | theorems about it | `Canonicalize`, `TLAPS`, library theorems |
| `JobEvents` | event streams against the writers of the row | |
| `JobEvents_proofs` | theorems about it | `JobEvents`, `TLAPS`, library theorems |
| `KnowledgeUnits` | editors, inserting runs and a reader of units | |
| `KnowledgeUnits_proofs` | theorems about it | `KnowledgeUnits`, `TLAPS`, library theorems |
| `Chunker` | both ways of cutting up a document | |
| `VideoPackages` | a request for a video package | |
| `Provenance` | from a book's pages to the pages a script cites | composes `Chunker` and `VideoPackages` |
| `Provenance_proofs` | theorems about it | `Provenance`, `TLAPS`, library theorems |
| `Accounts` | the user's row, tokens, and the requests of `routers/auth.py` | |
| `WebSession` | the tabs of a browser, over those requests | extends `Accounts` |
| `WebSession_proofs` | theorems about it | `WebSession`, `TLAPS` |
| `Extraction` | from a PDF to its folder, by scripts | |
| `Corpus` | from the folders to the stores, the backups and back, by scripts | extends `Extraction` |
| `Corpus_proofs` | theorems about both | `Corpus`, `TLAPS`, library theorems |

Each `MC...` module gives one of them its small sets for TLC. Operators whose
comment begins with "A faulty form" are not part of a model: each changes one
definition the way a plausible bug would, and exists to show that a property
notices (`PROJECT.json`, "mutants").

A step of a model is the longest piece of code no other actor can look into: up
to the next write another process sees, the next message, commit or await whose
result matters. Data is kept as far as a property tells it apart.

### IngestionJobs

`api[j]` follows the request that creates job `j`: `StartIngestion` (books.py,
`start_ingestion`) or `RetryJob` (jobs.py, `retry_job`) inserts the row in an
open session, `Enqueue` or `EnqueueFails` is `enqueue_ingestion`, and `Commit` or
`Rollback` is the end of `get_db`. `cancel_job` is two steps, `CancelRevokes` and
`CancelCommits`. `Sessions` bounds the open sessions, as the connection pool does.
`status` and `progress` are the row's columns; `stage`, `message` and `error` are
left out, as nothing reads them back to decide anything.

A worker's `pc` walks through `run_ingestion`: `Begin`, `Setup`, `ReportStage` for
each `_update_stage`, `MarkDone`, `Canonicalize`, or on errors `Retry` and
`MarkFailed`, and `Ack` at the end. `SetStatus` is `update_job_status`: an UPDATE by
`job_id` that never looks at the status it replaces, and that matches nothing
before the row's commit. `ready[j][k]` counts the messages of `j` at its `k`-th
retry, so duplicates are visible. Every failure the code can meet is an action
that the constant `Faults` switches on: an unreachable broker, a failed commit, a
late one, a failed status write, an error in the set-up, transient and permanent
errors of the pipeline, a follow-up or a retry that cannot be enqueued, a killed
child process, a dead worker, a visibility timeout.

`excused` is a history variable. It records the jobs that met an event after
which the code itself gives up on an outcome: the message was discarded as
revoked, the child process was killed (the message is then acknowledged all the
same), a worker took it before the row was committed, or a step failed where
nothing catches it. `NoLostJob` and
`NoMissedCanonicalize` speak of the other jobs. What makes a job excused is
itself a finding where the documentation promises otherwise (section 6), and the
list is short on purpose: failed attempts, retries, crashes of a worker,
redeliveries and failed follow-ups do not excuse.

`Shown` maps a state to the abstract one of `JobLifecycle`: the status of a job whose
row is committed, and none of the others. `Lifecycle == INSTANCE JobLifecycle WITH
status <- Shown` is the refinement that `Jobs_lifecycle` checks.

`duplicates[j]` counts the redeliveries that come on top of a message still being
served, and is what `DuplicationBound` measures copies against.

### PipelineStages

A recursive function gives the weight before each stage, `GlobalProgress` the
value `_update_stage` stores, in permille because the code rounds to three
decimals. `WholeRunsRise` in `MCIngestionJobs` is an assumption TLC evaluates in
every run of that module: for every combination of the switches and up to seven
chunks, the reports of a whole run never fall. That justifies the short sequences
that stand for `StageWrites` in the runs.

### KnowledgeStore

One run is one attempt of `_run_pre_extracted`: `CheckCollection`,
`CreateCollection` and `CreateIndexes` are `ensure_collection` at its three
awaits; `UpsertBatch` is one batch of `upsert_points`; `InsertChunks` and
`InsertUnits` are one transaction each; `ExtractUnits` is a chunk's call to the
model, which may answer anything in `Extractions` or nothing; `WriteGroup` is one
UNWIND statement of `build_graph_for_units`. Statements are grouped as the code
groups them (by kind, domain label, relation type, language), and an answer's
labels take effect as the MERGE clauses do, including the case in which the
unique constraint on `canonical_key` refuses to create a second node
(`RefuseGroup`). `Fail` may strike between any two writes. A unit's id is the run
and a number, as fresh as the code's `uuid4`.

### Canonicalize

A task is `Fetch`, `Embed`, `UpsertBatch` ..., `Query` ..., `Link` .... Tasks share
`vectors` and `sameAs` and take no lock. `Ingest(b)` builds another book's graph
meanwhile and overwrites labels, so that a task may upsert the vector of a label
that is no longer there. `Query` returns up to `Limit` of the concepts above the
threshold, the nearest first in the code and any of them here. `EmbedFails` is the
task's own retry, `Crash` a redelivery, `Fail` the end without either.

### JobEvents

Workers take messages of the job (`Take`) and go through attempts as the row shows
them: `at` is a worker's next write. Two of them may serve the job at once, after a
visibility timeout (`Redeliver`) or a duplicate; a worker that dies (`Dies`), also between
its last write and the acknowledgement, has its message delivered again. `Retry` queues
another message and acknowledges its own; `Abort` is a task that ends without a retry, as
a revoke, a time limit, or an error outside the `try` ends it. `Write` and `Publish` are
two steps because `update_job_status` commits before it publishes, so that one worker's
publication may come between another's two. `Cancel` writes the row whatever it said, as
`cancel_job` does, and publishes nothing. The history variables `earlier` and `overtaken`
record when an event is published ahead of that of an earlier write. A stream is `Open` (the snapshot), `Subscribe`, `Receive`,
`NoMessage` and `Poll`, `Deadline`, or `RedisFails`. `lastProgress` is the code's
`last_progress`, -1 at first, so the first poll is always news.

### KnowledgeUnits

Editors are sessions in read committed: `ReadUnit` keeps what the session loaded
first (SQLAlchemy's identity map), `WriteUnit` applies the fields that differ from
what was loaded to the row as it is by then, appends the `UnitEdit` with the image
the session had before, and keeps the row locked; `CommitEdits` ends the request.
Editors that wait on each other are a deadlock that `BreakDeadlock` resolves, as
Postgres does. `BeginInsert` and `CommitInsert` are a run's one transaction, whose
start is the `created_at` of all its units. `ReadPage` is one call of
`list_knowledge_units` with its look-ahead unit and its cursor.

### Chunker, VideoPackages, Provenance

In `Chunker` a character is a letter or a mark to cut at (a newline, a
danda, a full stop, a blank) and carries the place it has in the document, so that
text can be followed into the chunks. A paragraph break is two newlines, between pages
(`Break`) as within a text; `SplitPoint` looks at the first `MaxChars` characters only, and
does not see a break of which just the first newline is among them. The history variable
`halved` has the pages before which that happened. A step is one turn of a loop of
`chunk_document_by_headers` or, when no header was found, of `chunk_document`.
`VideoPackages` takes retrieval and the model's answer as any result they can
give, indices that do not exist included, and builds the evidence map, the
warnings and the report as the use case does, in each of the three repair modes.

`Provenance` shares `points` between the two: `IndexChunks` makes points of the
chunks, all or none, as one failed embedding ends the stage. A request may come
before, during or after the ingestion. Two chunks of one text are one point,
because a point is named by its book and the hash of its text; the last chunk's
pages then prevail in Qdrant, while Postgres keeps the first row
(`ON CONFLICT DO NOTHING`, `db.py:280`).

### Accounts, WebSession

A token stands for a pair, access and refresh; only its age and whether it was
revoked are kept. Registration and login are one step each, since a request is one
transaction; `EndTransaction` is `get_db`, which rolls back what a handler wrote
before it raised. `refresh` is four: it is sent, looks the token up in Redis (`CheckToken`), marks it as
revoked (`RevokeToken`), and then reads the user in Postgres and answers
(`IssueTokens`). A tab starts out "loading", as the store's `isLoading` does, and the form
can be used whatever the session is: while it is loading, and when someone is signed in. A tab takes a step from one await to the next: `Submit`, `Fetch`,
`Logout`, `Reload`, `LoadUser`; `StartExchange` is a call that got a 401 and finds no
`refreshPromise`, `AwaitExchange` one that finds it, `Refreshed` and `NotRefreshed`
its end for all that wait. `LoseCall` and `LoseExchange` lose an answer on its way;
`LeavePage` turns the refresh of a page that is left into one nobody waits for
(`NoTab`), which the API serves all the same (`Ghost`).

Pairs are few and used again: `Forget`, which is no step of the system, clears what
is known of pairs nobody holds. `usedBy` is a history variable.

### Extraction, Corpus

Scripts are started by hand, one at a time; the one under way is the record
`script` with what it has in memory. `BreakOff` ends it between two steps, and
`CutPart`, `CutDocument`, `CutInfo`, `CutCheckpoint`, `CutBackup` in the middle of a
write, which leaves a file that is cut off. `SkipPdf`, `SkipBook` and `SkipStore` are
the errors that a script catches to go on with the next.

In `Extraction` a page is a number. `Look` passes over a folder with a document and
splits a large book; `ExtractPart` is one job, whose result may lack any page or the
whole document; `WriteDocument` and `WriteInfo` follow when all parts are done. The files
of a small PDF are written in the order of its archive: any of the JSON files come before
the document (`Early`), the others after it (`WritePages`, which `CutPages` breaks off).
`Mend` is `fix_agrihistory1`, which takes the first part from the JSON files at hand;
that the book it mends has two parts (`NumParts(Mended) = 2`) is written into the script
(`fix_incomplete_extractions.py:204`). `Those` filters a sequence, as the scripts' list
comprehensions do. `checkpoint` is what `_load_checkpoint` would return: the set of a
file's chunks, none if the file is missing or cut off.

`Corpus` adds the stores. `AddPage` folds a document into chunks as `_chunk_document`
does, with pages for characters, and `Emit` leaves out a piece that is too short, as
`_emit` does below 50 characters: pages in `Faint` make no chunk by themselves. Points of
the pipeline have a chunk per page and no book's name. `ImportBook`, `IngestBook`,
`UpsertBatch` write points; `Register` and `ExtractUnits` rows; `InsertUnits` and
`SaveCheckpoint` are the two halves of a round; `AddToGraph` and `AddBatches` the two graph
builds; `SaveStore`, `RestorePostgres`, `RestoreQdrant` and `RestoreGraph` the backup and
its way back. `CutRestore` is a `pg_restore` that stops on the way: it runs in no
transaction, so tables have been dropped, and some of them filled, when its time is up.
`Lose` removes docker volumes. The history variables `unfinished`, `forgetful`, `wentBack`
and `barren` record why a promise cannot be asked for: see the properties.

## 3. Runs

| Run | States | Asks |
|---|---|---|
| `Jobs_faults` | 513,228 | one job under every failure at once |
| `Jobs_settle` | 90,661 | does every job come to an outcome it keeps |
| `Jobs_lifecycle` | 469,843 | does the detailed system implement `JobLifecycle`; how far is the limit overshot |
| `Jobs_v_cancel` | violation | does a canceled job stay canceled |
| `Store` | 25,810 | what is in the stores when runs overlap and fail |
| `Store_v_rerun` | violation | does a repeated run add nothing |
| `Events` | 686,828 | what a client sees, and does its stream end |
| `Canon` | 456,827 | are near concepts linked, and only those |
| `Units` | 642,014 | do updates and pages agree with what was stored |
| `Provenance` | 170,988 | do citations lead to their pages; is text kept |
| `Accounts` | 1,379,375 | does a browser's session survive its tabs and its answers |
| `Corpus` | 1,363,619 | what do interrupted scripts leave for the next ones |

No run checks for deadlock: each of these systems may come to rest, when all
requests are answered, all runs are over, or a session has failed.

**`Jobs_faults`.** One job, two workers (symmetric), one retry, two disruptions, a
run of three reports, two sessions, all twelve kinds of failure and
cancellations. One job suffices for properties that relate a job's row, messages
and workers, since jobs share nothing but the limit; two workers let a duplicate
run beside the original; two disruptions let a redelivered run crash in turn; two
sessions let a cancellation begin while the creating request is under way. Shown:

- `NoLostJob`: a committed and enqueued job that is queued or running has its
  message in the queue or with a worker that has yet to write its outcome.
- `NoMissedCanonicalize`: a completed job has its follow-up enqueued or is still
  served by a message that will.
- `DuplicationBound`: copies of the message are never more than one plus the
  duplicating redeliveries; a retry replaces the message it stems from.
- `SettledCancel`: once a canceled job's revoke has reached every worker and none
  is at work on it, only a worker's crash can undo it.
- `ProgressRestartsAtTheTop`: progress falls only at the first report of a run.

**`Jobs_settle`.** Two jobs (the second one may be the first one's retry by its
owner), two workers, one retry, one crash or redelivery, transient and permanent
failures and a follow-up that cannot be enqueued. `JobsSettle`: a committed and
enqueued job reaches a final status and keeps it. "Keeps" is the hard half: a
redelivered message of a completed job runs it again and sets it back to running.

**`Jobs_lifecycle`.** Three requests for one user and a limit of one, in two
sessions, two workers, one retry, rollbacks, transient and permanent failures, and
a book that is deleted meanwhile. `LifecycleSpec` is a refinement with the
the mapping `Shown`: a job is queued, runs and ends in one outcome it keeps.
Cancellations, redeliveries and late commits are not in this run because with them
the code does not keep that promise; the other runs say what remains then.
`OvershootBound`: the check and the insert are not atomic, so the limit can be
exceeded, but by no more than the other sessions; three jobs, one more than the
bound allows, could exceed it.

**`Store`.** Two symmetric runs over two books of three and one chunks that share
a text, batches of two points (so that a document has a full and a short batch),
six findings: claims in both directions between two concepts, a definition, one
without a subject, two processes of one subject that disagree, with one and
two steps. `EvidenceTrail`, `CompletedRunIsStored` and `AgreedProcessIsWhole`
hold in every interleaving with a failure at any step. Three runs (two million
states) were tried too and hold.

**`Events`.** One stream; streams do not influence each other. Two workers and two
messages of the job (`MaxMessages`), whether the second one is a retry, a redelivery or a
duplicate, so that two attempts may follow each other or overlap; attempts of two reports
each; two events on their way to the stream (`MaxUnread`), enough for two to arrive in the
wrong order; lost publications, a Redis that fails, worker deaths, cancellations.
`FollowersSeeTheEnd` says why an end may go unseen: a publication was lost, the job was
canceled, two workers published in another order than they wrote, or the event was still
on its way. What is published between the snapshot and the subscription is not among the
reasons, as the first poll makes up for it. The third one is real, see section 6.
`PollsBringProgress`: after a poll the client has the progress of the row. `StreamEnds`:
the stream of a finished job ends, and not by its deadline only.

**`Canon`.** Two books that disagree on the label of the concept they share, three
concepts, three labels near to each other and one that is not, batches of one so
that a task can be overtaken between two upserts, one retry. `NearConceptsLinked`:
when every book of two near concepts has had a task go through, they are linked,
since whoever upserts later sees the other one's vector; the statement is about
concepts whose books agree on their label and that have no more neighbours than a
query returns. `LinksAreJustified`: a link joins two concepts that were near under
some labels of theirs.

**`Units`.** Three units in two transactions, two editors with bulk updates in
opposite orders (the deadlock) and a patch that repeats a value, pages of one unit
with one read ahead, two ticks. `LastChangeStands`, `PreviousValuesKept` and
`ListingIsSound` hold.

**`Provenance`.** 65 documents with and without headers: texts too short for a
chunk, that fit, that must be cut, with each kind of mark early and late, and one that
leaves room for half a page break; chunks of at most seven characters, an overlap of
three, a minimum of two, so that a rest can be too short, and a cut can fall on any
character. Two hits per search, five answers with indices that exist, one too far, and
negative. `TextIsKept`, `PagesAreNamed`, `ChunkingEnds`, `ScenesAreAccounted`,
`CitationsHold` hold. `PagesAreNamed` and `CitationsHold` say exactly when a chunk cut from
the window names a page too late (section 6), and the run has documents where it does.
With an overlap of zero `TextIsKept` fails: `_emit` drops a short rest, and only an overlap
longer than the minimum saves it. The code's default keeps that (250 against 50
characters), but nothing checks what a request gives.

**`Accounts`.** One account, a tab that makes two calls at a time, and a second one with
the form and one call; two pairs of tokens, which are cleared and used again when nobody
holds them; one wrong password locks; one expiry (of an access token, of a refresh
token, or of the account's being active) and one loss, of a message or a page. Two calls
of one tab are what shares a refresh, two tabs are what does not. That the form is sent
while the same tab's first call is still under way takes two calls in the tab with the
form, and is not in this run, but in the proofs. `RefusedForCause`: the API refuses a
tab's refresh only when the token lapsed, the account is inactive, or another page sent
the same token; the tab's own calls never get in each other's way. `StoredTokenIsGood`: a
revoked refresh token stays in localStorage only while the answer that replaces it is on
its way, or when the page that exchanged it went away. `WaitersAreWoken`: whoever waits
for a refresh has one to wait for.

**`Corpus`.** Two books, one of two parts of a page each, one of a page. Any two
scripts follow on what earlier ones have left: the initial states have any books
extracted, imported or not, registered or not, with units or not, so that two more
are enough for a script to judge what another one left behind. One of them breaks
off, anywhere; a store is lost between them. Batches of one, so that each of two
points is a batch; chunks of two pages with an overlap of one, so that a document
has a full chunk and a rest, and the two chunkers differ; the first page of the longer
book is too short for a chunk by itself. Shown:

- `PagesInOrder`: a document's pages rise and come once, through reruns, failures
  and cut-off writes; only a repair may take pages of the second part twice.
- `StoredBookIsWhole`: a book that counts as imported has all chunks of its
  document, each with its own vector, unless its import was interrupted, its
  document changed, or its points came from a snapshot. The exceptions are the ways
  in which the test for a single point is wrong.
- `RecordsAreEarned`: what the checkpoint and the graph name is in Postgres, unless
  Postgres went back, or the answer for a chunk held no valid unit, which counts as
  done too.
- `RepeatsForCause`: a chunk gets units of two runs only if a run was told to start
  anew, ended between inserting and recording, or did not keep a record.
- `UnitsOfTheirBook`: a unit is recorded for its chunk's book, however many books are
  extracted together, but for the points of the pipeline.

## 4. Fairness

- `IngestionJobs!FairSpec`: a request handler that has begun runs to its end (the
  event loop schedules it); some worker takes a message as long as there is one
  (Celery consumes continuously); a worker that is up goes on with its task. Weak
  fairness is enough, since these steps stay enabled until they are taken. That a
  dead worker is started again is not assumed: `docker-compose.yml` has no restart
  policy. `Jobs_settle` allows one crash among two workers, so one is left to take
  over. Nothing is assumed of users or of failures: a request need not come and a
  failure need not happen.
- `JobEvents!FairSpec`: the loop of a stream goes on. Nothing is assumed of the
  worker, which may stop, of clients, or of the deadline.
- `Provenance!Spec`: the worker goes on with a run it has begun.
- `WebSession!Spec` and `Corpus!Spec` state none: a user may go away, and scripts are
  started by hand.
- `JobLifecycle!Spec` has weak fairness of running and finishing, which the
  detailed system must therefore provide.

## 5. Proofs

Eight modules hold 38 theorems, each for every value of the constants that its
module's assumption allows: any numbers of jobs, workers, runs, tasks, editors,
tabs, documents and scripts, any batch sizes, retries and disruptions, any reports, findings,
labels, requests and answers. TLC evaluates each assumption on the instances of
section 3, and has checked each inductive invariant below on them before it was
proved. No lemma is taken on trust beyond the library's theorems on finite sets,
functions and sequences.

An argument "`X`" in the tables says that `X` is inductive and implies the property.
Four theorems have a hypothesis beside the assumption on constants; the text says
which, what in the code justifies it, and what happens without it.

### Ingestion jobs

| Theorem | Statement | Argument |
|---|---|---|
| `TypeCorrect` | `Spec => []TypeOK` | `TypeInv` |
| `JobsAreNotLost` | `Spec => []NoLostJob` | `IInv` |
| `CanonicalizationIsNotMissed` | `Spec => []NoMissedCanonicalize` | `IInv` |
| `CancellationSettles` | `Spec => SettledCancel` | from `IInv`, action by action |
| `CopiesAreAccountedFor` | `Spec => []DuplicationBound` | `CopiesInv` |
| `ProgressFallsAtTheTop` | `ReportsRise => (Spec => ProgressRestartsAtTheTop)` | from `ReportsInv`, action by action |
| `JobsFollowTheirLifecycle` | `OutcomesLast => (Spec => Lifecycle!Init /\ [][Lifecycle!Next]_Shown)` | from `LivesInv`, action by action |
| `OvershootIsBounded` | `OutcomesLast`, no retries `=> (Spec => []OvershootBound)` | `LimitInv` |

**Types.** `TypeOK` is not inductive: `Retry` publishes a message for attempt
`retries[w] + 1`, which is within `0..MaxRetries` only if a worker about to retry
has retries left, and a worker inside a task must hold some job's message.
`WorkerInv` adds both, `TypeInv` is the result.

**Jobs.** `NoLostJob` and `NoMissedCanonicalize` say where the message of a
committed job is. Neither is inductive, as the message is sent before the row is
committed: the state just before a commit must already have the message in the
queue. `JobInv(j)` therefore says, of each job on its own,

- before the commit there is no status and no cancellation, and before the
  message is sent, none is recorded as sent;
- between the two, the message of a job that is not excused is still in the queue:
  a worker that took it would find no row, which excuses the job;
- after the commit, the two properties.

`IInv` is `TypeInv` and `JobInv(j)` for every job. Its proof looks at one worker at
a time: a step of worker `w` leaves the messages held by other workers alone
(`OnlyWorker`, `WorkerFrame`), so only what `w` itself did with its message matters:
it wrote an outcome, published a retry, gave up and excused the job, or goes on
holding it. Retries, crashes and visibility timeouts put a message into the queue
(`PublishQueues`), and taking one message leaves those of other jobs
(`TakeLeavesOthers`). `NextIInv` puts together requests (`ApiJobInv`), workers
(`WorkerJobInv`) and failures (`FailureJobInv`), one step per action.

**Cancellations.** `SettledCancel` is an action property. Its proof takes the
state of a settled cancellation: no worker holds the job and all of them remember
the revoke, so no step delivers the message, no status is written for it (a
commit cannot write it either, since `IInv` gives a job with a status a row), and
only a crash takes a worker's memory away.

**Copies.** `DuplicationBound` compares the cardinality of a set of messages in the
queue and of a set of workers with a count. `CopyInv(j)` adds that there is none of
either before the request has sent the message. Each action then moves one element
from the one set to the other, or adds one together with the count.

**Progress.** `ReportsRise` says of the constant `StageWrites` that it does not
fall; without it a run's own reports would lower the progress. `WholeRunsRise`, in
`MCIngestionJobs`, evaluates it for the stages of the pipeline, whatever is switched
on. `ProgressInv` says that a worker which alone serves a job has the row at the
report it wrote last or below. That it is alone comes from `CopiesInv`.

**Lifecycle.** `OutcomesLast` leaves out cancellations and the four failures after
which the code by itself does not keep an outcome: a commit after the worker has
begun, a follow-up that cannot be enqueued, a crash and a visibility timeout.
With any of them a final status is overwritten (section 6, and `JobsSettle` for what
remains). Under it, `LifeInv(j)`: there is one message of a job; while it is queued the
row says queued or running, and while a worker has it, the row says what the
worker's phase lets one expect. Each action is then one of `JobLifecycle`'s, or
leaves what `Shown` maps as it is.

**The limit.** `Counting(u)` has the jobs of a user that run, wait, or are being
requested. A request that has counted and not yet inserted has one of the sessions, so
that no more than `Sessions - 1` others have counted the same rows. `retry_job` looks
at no limit, hence no retries; and a job whose outcome is overwritten counts again,
hence `OutcomesLast`. `Sessions >= 1` is an assumption, since an engine with no
connection serves nothing.

### Knowledge store

| Theorem | Statement | Argument |
|---|---|---|
| `StoreTypeCorrect` | `Spec => []TypeOK` | `StoreInv` |
| `EvidenceIsTraceable` | `Spec => []EvidenceTrail` | `StoreInv` |
| `CompletionMeansStored` | `Spec => []CompletedRunIsStored` | `StoreInv` |
| `AgreedProcessesKept` | `Spec => []AgreedProcessIsWhole` | `StoreInv` with `IdInv`, `StepsInv` |

No store takes anything out, so how far a run has come says what it has written,
however other runs go on: `RunInv(r)` has that for points, rows and units, phase by
phase, with the batch under way inside a phase; `GroupInv(r)` for the graph, of which a
unit is either written or in a group still to write. `TrailInv` is the evidence trail
together with what makes it last: a unit is inserted only after its chunk's row, a row
only after its point. A process is whole if its steps are numbered without a gap;
`StepsInv` traces each step to a unit that has it, and `IdInv` makes units that share
an id the same, which needs that ids are given in order within a run. Where the code
groups units by label before it writes them, `SameGroup` is an equivalence and the
groups its classes.

### Entity resolution

| Theorem | Statement | Argument |
|---|---|---|
| `CanonTypeCorrect` | `Spec => []TypeOK` | `CanonInv` |
| `LinksHaveReasons` | `Spec => []LinksAreJustified` | `CanonInv` |
| `NearConceptsGetLinked` | `Spec => []NearConceptsLinked` | `CanonInv` |

The property speaks of tasks that are through; the invariant has to speak of tasks
that are half way. `LinkInv`: of two near concepts that two tasks have *queried*, one
has found the other, and the pair is linked or on the list of the task that found it.
It holds since both upserted before they queried (`ProgressInv`), so that whoever
queried later saw the other's vector. A query returns the nearest few; that the other
one is among them follows from the property's own bound on neighbours, by counting.
`LabelInv` keeps labels to those that books give.

### Job events

| Theorem | Statement | Argument |
|---|---|---|
| `EventsTypeCorrect` | `Spec => []TypeOK` | `StreamInv` |
| `PollsAlwaysBringProgress` | `Spec => PollsBringProgress` | from `StreamInv` |
| `FollowersAlwaysSeeTheEnd` | `Spec => FollowersSeeTheEnd` | from `StreamInv` |

A stream that ends has seen a final status in a message or in a poll. `StatusInv`: if
nothing was lost, overtaken or canceled, and nothing is still to be published, the last
message waiting for a client has the row's status, and a client with nothing waiting has
been shown it once anything was. How that comes about when several workers write:
`OrderInv` has the unpublished writes one after the other (of any two, one is `earlier`),
and `PendingInv` says that the last of them is what the row says. As long as nothing is
overtaken, an event is published when no earlier one is left, so the one that leaves none
behind is that last one.

### Knowledge units

| Theorem | Statement | Argument |
|---|---|---|
| `UnitsTypeCorrect` | `Spec => []TypeOK` | `UnitsInv` |
| `LastChangesStand` | `Spec => []LastChangeStands` | `UnitsInv` |
| `ListingsAreSound` | `Spec => []ListingIsSound` | `UnitsInv` |
| `PreviousValuesAreKept` | `Spec => PreviousValuesKept` | from `UnitsInv`, action by action |

An editor's changes are in its session until it commits, and go to the trail then, so
the trail of committed edits has to explain the table while several sessions hold
edits of it. `VersionInv`: the edits in a session lead from the committed value of a
field to the session's own (`Becomes`, a recursion-free statement: the last edit that
changes the field says what it is). `LockInv` keeps two sessions from doing so with
one unit. The image an editor took *before* it had the lock may be stale; `ImageInv`
says that the first image of a unit is not, as nothing has been changed then, which is
what `PreviousValuesKept` needs for the value a field had when it was extracted. For
listings, `ListInv` splits the units that have matched all along: they are on the
pages, beyond the cursor, or as old as a unit on a page.

### Browser sessions

| Theorem | Statement | Argument |
|---|---|---|
| `WebTypeCorrect` | `Spec => []TypeOK` | `WebInv` |
| `NobodyWaitsInVain` | `Spec => []WaitersAreWoken` | `WebInv` |
| `StoredTokensAreGood` | `Spec => []StoredTokenIsGood` | `WebInv` |
| `RefusalsHaveCauses` | `Spec => []RefusedForCause` | `WebInv` |

Tokens are the values that matter here, and who has them: `ExchangeInv` allows one
exchange of a tab at a time, `PromiseInv` says that a token on its way to a page is
revoked, stored, exchanged and promised nowhere else, which is what makes a new token
good when it arrives. `OvertakenInv` is the state between the two steps of a refresh,
when Redis has been read and not yet written: if the token has been revoked by then,
another page sent it.

### From a page to a citation

| Theorem | Statement | Argument |
|---|---|---|
| `ProvenanceTypeCorrect` | `Spec => []TypeOK` | `ProvenanceInv` |
| `ChunksNameTheirPages` | `Spec => []PagesAreNamed` | `PagesInv` |
| `NoTextIsLost` | `TextHypothesis => (Spec => []TextIsKept)` | `PagesInv` and `TextInv` |
| `NoSceneDisappears` | `Spec => []ScenesAreAccounted` | `ProvenanceInv` |
| `CitationsAlwaysHold` | `Spec => []CitationsHold` | `ProvenanceInv` |

**Pages.** A chunk names the pages between `first` and `last`. By headers this is
direct. Cut by a window, what is left over counts as the page read last, although it
may begin before it; `PagesAreNamed` then says that no text of a chunk is from a page
after its range, and that some is from a page in it, or right before it if the break
between the two was cut in half. What makes it so is where the page read last begins
(`Begins`, `TurnInv`). Within what the next cut takes, it is in the next piece. Otherwise it
begins beyond `MaxChars \div 2`, right after its break: if the break is within the window,
the cut is made there or at a later one, and with the overlap taken off, the next piece
holds the page; if just its first half is, the page is in `halved`, and the piece that
counts as from it ends with the page before (`EndsBefore`). `NextInv` makes that page the one
before: pages in between have no text. Here the proof uses that the overlap is at most
half a chunk, which is `ChunkerAssumption`: the code does not check it (section 6), and
beyond it `ChunkingEnds` fails too. The assumption `MaxChars > 4` says that a chunk is
longer than two breaks; the pipeline never asks for less than 6000
(`ingestion_pipeline.py:152`).

**Text.** `ReadInv`: what was read of a part that is long enough is in a chunk or in
the text gathered so far. `DropInv` is about that text, should `_emit` drop it for being
short: it has no character of such a part, or is no more than the overlap with a chunk
that has it. `TextHypothesis` has two parts. `MinLength < Overlap` is 50 against 250 in the
code, and with an overlap below the minimum `TextIsKept` is false. `BlanksAreFew` says that
no three blanks are in a row, which a page break keeps; the code does not see to that, as
`_clean_page` leaves up to two newlines and any number of spaces, and a piece of which all
but a few characters are blank is dropped with them. In the code that takes most of a
chunk's length in blanks; the hypothesis is stronger than needed there, and is what the
instance of section 3 satisfies.

**Citations.** `ChainInv`: what a search has returned are points of chunks of this
document, and once there is evidence the chunks change no more. `PackageInv`: a
stored package is what `_apply_needs_citation_policy` made of the answer. Its loop over
the scenes is the recursive function `Supported`; `LoopIsDefined` shows that the
function exists, and `SupportedScenes` what it contains, both from a least
counterexample, as the library's induction cannot be used here.

### Extraction and corpus

| Theorem | Statement | Argument |
|---|---|---|
| `CorpusIsSound` | `Spec => []CorpusInv` | `CorpusInv`, script by script |
| `CorpusTypeOK` | `Spec => []TypeOK` | `CorpusInv` |
| `ImportedBooksAreWhole` | `Spec => []StoredBookIsWhole` | `CorpusInv` |
| `WhatIsRecordedIsStored` | `Spec => []RecordsAreEarned` | `CorpusInv` |
| `NoUnitsTwiceWithoutCause` | `Spec => []RepeatsForCause` | `CorpusInv` |
| `UnitsStayWithTheirBook` | `Spec => []UnitsOfTheirBook` | `CorpusInv` |
| `DocumentsKeepPageOrder` | `Spec => PagesInOrder` | from `CorpusInv`, action by action |

`CorpusInv` is one invariant for all scripts, since each relies on what the others have
left. What it adds to the properties is what a script has in memory.

**Types.** `TypeInv` is finer than `TypeOK`: a point has the vector of its own text, a
collection or snapshot has one point of a name, a unit recorded for another book than
its chunk's is the pipeline's. That vectors and chunks pair up takes lemmas about the
chunker (`ChunksHaveText`, `VectorsAreOfTexts`): no chunk is blank, since `Emit` leaves out
a short one (`ChunkIsEmitted`), so that passing over blank texts shifts nothing. The chunker and the filters are recursive functions; the
library's induction cannot be used on them, and the section "Loops" of the module gets
the same from sets of numbers.

**Pages.** `GatherInv`: what has been gathered rises, and is of the parts before the one
that comes next. `MendInv`: a repair is in order too, unless the first part it took ends
among the pages of the second (`TakesBothParts`), which is what an earlier repair leaves
(section 6). That the mended book has two parts is needed here.

**Imports.** `UpsertInv`: of the book being stored, what is not in the collection is
still to be upserted. `WholeInv` has `StoredBookIsWhole` for the books that are not
`unfinished`, into which every batch but the last puts its book, and the last one takes
it out again.

**Records.** `EarnedInv`: between the two halves of a round the script has the chunks it
is through with among those that have units or hold none. `TodoInv` keeps those from
what it is still to look at, and the names of its books to the points they are of.
`RepeatInv` is about the time in which no units were forgotten: every chunk has units of
one run, the record knows all chunks that have, and so does the record for the units of
a dump, so that restoring it makes no difference, nor does
stopping on the way (`CutRestoreKeeps`): each table is then the old one, empty, or the dump's.

### Model-checked only

- Liveness: `JobsSettle`, `StreamEnds`, `ChunkingEnds`, and that `IngestionJobs`
  provides the fairness of `JobLifecycle`. It is out of the prover's reach.
- `RerunsAddNothing` and `CanceledStays`, which are false.
- That the stages of the pipeline satisfy `ReportsRise`: `PipelineStages` computes
  them by recursion, and `WholeRunsRise` evaluates them for up to seven chunks.

## 6. Where code and documentation disagree

Two disagreements are runs that end in a counterexample.

1. `Jobs_v_cancel`, `CanceledStays`. `update_job_status` updates by `job_id` alone
   (`apps/worker/app/infrastructure/db.py:158`), so a worker that is between two
   reports when the job is canceled sets it back to running or completed.
   `docs/USER_STORIES.md:183`: "Canceled jobs show `status: canceled`".
2. `Store_v_rerun`, `RerunsAddNothing`. Units get fresh ids
   (`unit_extractor.py:212`), so a retried or redelivered run inserts them again.
   `routers/jobs.py:191`: "Each pipeline stage is idempotent so partial work is
   safely re-runnable."

Others were met while modelling and are part of the models, or lie outside them,
without a run of their own. In the service:

- The poll of an event stream shows the row only when its progress is news
  (`routers/jobs.py:139`), so a failure whose event is lost ends the stream unseen;
  `routers/jobs.py:73` says "so the client always gets an update even if Redis is
  temporarily down". Nor need anything be lost: when two workers serve the job, one may
  publish "running" with the row's progress after the other has published the failure
  that was written later; the progress is then no news, and a stream that subscribed
  in between ends unseen too. `FollowersSeeTheEnd` names the causes.
- The cursor of a listing skips all rows of its instant
  (`knowledge_unit_repository.py:76`), and the units of a run share one;
  `routers/knowledge_units.py:119` says "pass the created_at of the last item as
  cursor". `ListingIsSound` is what remains true of the pages.
- A failed login raises after it was counted, and `get_db` then rolls the count back
  (`session.py:43`): the lock of `auth.py:131`, promised in
  `docs/USER_STORIES.md:36`, never comes about. `EndTransaction` has the rollback.
- The front end never calls the API's logout; a refresh that is answered after a
  logout stores its tokens again (`client.ts:81`), and a request is retried without
  a bound as long as refreshes succeed (`client.ts:34`).
- The limit is counted before the insert and over committed rows
  (`routers/books.py:522`), and `retry_job` does not look at it at all
  (`routers/jobs.py:205`); `docs/USER_STORIES.md:108` says "Max 2 concurrent
  ingestion jobs per user (429 if exceeded)". `OvershootBound` bounds the first.
- An error in the set-up (`tasks/ingest.py:60`), between the first status and the
  `try`, leaves the job running for ever; so does a retry that cannot be
  published. Both excuse a job in the model.
- A rollback after the message was sent (`celery_client.py:43`) leaves a message
  of a job that does not exist; the worker then runs the whole pipeline for it.
- A follow-up that cannot be enqueued is inside the `try`
  (`tasks/ingest.py:80`): a completed job is then retried or marked failed.
- A job whose message could not be sent (`routers/books.py:552`) stays queued and
  counts against the limit; `retry_job` accepts failed jobs only.
- A concept first merged without its domain label cannot be merged with it
  (`graph_builder.py:352`), as `canonical_key` is unique
  (`scripts/init_neo4j.py:38`): `RefuseGroup` ends such a run.
- Two processes with one subject share their step nodes (`graph_builder.py:435`).
- `ensure_collection` leaves a collection without indexes when it is interrupted
  (`qdrant_client.py:67`); later runs find it and do not look.
- A task may store the vector of a label that has been replaced
  (`canonicalize_graph.py:199`), and sees at most six hits, itself included
  (`canonicalize_graph.py:210`).
- Opposite bulk updates may deadlock (`knowledge_unit_repository.py:150`); an edit
  that changes nothing is recorded, and its image of the state before may be stale.
- The generator reads the text and the title of a chunk from the point's payload
  (`generate_video_package.py:146` and `:294`), where `build_point` never puts them:
  prompt evidence and snippets are empty, although `ingestion_pipeline.py:197` says
  "Raw chunk text (without prefix) is stored in Qdrant so users see original text".
- A scene that says it needs no citation, or whose indices are all out of range,
  goes into the script without evidence and without a warning;
  `ScenesAreAccounted` names these cases. `CitationEnforcementPolicy` is imported
  and never called.
- A chunk cut from the window may name its pages wrongly. What is left over counts as
  the page read last (`chunker.py:483`), which the code calls an approximation. As a
  window's search for a paragraph break ends at `max_chars` (`chunker.py:232`), a buffer of
  `max_chars - 1` characters hides half of the break that `chunker.py:467` adds. With
  `max_chars` 6000, an overlap of 250, and 5999 characters up to page 3 that have a break at
  3100, page 4 has the cut made there, and the rest of page 3 is then cut at the break
  before page 4 as a chunk of page 4 alone, of which it holds nothing. A citation of it
  leads to the wrong page. `PagesAreNamed` says that this is the only way, and that the
  page named is then the next one with text.
- `chunking` is passed through unchecked (`routers/books.py:103`): an overlap of
  more than half a chunk may keep a cut from making progress, and one below the
  minimum length may lose the tail of a section.
- In the scripts: `extract_knowledge_units.py` keeps `--resume` to its own checkpoint,
  where its help says "skip books with units in DB" too (`:770`), and counts an
  answer it cannot parse as done (`:177`); rows it creates stay private. Job rows of
  `run_ingestion.py` are left as the pipeline leaves them. Stale points of an older
  document are never removed. `db_manager.py` judges Postgres by its users alone,
  restores over live data when the check fails (`:386`), gives `pg_restore` 120 seconds and no
  `--single-transaction` (`:276`), so that a slow restore ends with an exception and half of the
  tables, overwrites the only dump
  even from an empty database (`:182`), and looks for `rebuild_neo4j_graph.py` in a
  directory where it is not (`:327`), so that the graph it promises to rebuild
  (`:174`) is not. `fix_book_ownership.py` uses an aggregate in RETURNING, which
  Postgres refuses. A repair run again takes the second part twice
  (`fix_incomplete_extractions.py:169`).
- The asyncpg pool outlives the event loop it was made in (`db.py:53`), and one
  failed batch turns batch embedding off for a process (`embedder.py:141`).

## 7. Assumptions about other software

Modelled from how the code uses them, and marked external in the map where a
definition has no code here:

- **Celery and Redis.** A message is acknowledged after the task with
  `acks_late`; a dead worker's messages come back, a killed child's do not, as
  `task_reject_on_worker_lost` is not set; a message held past the visibility
  timeout comes again; a retry keeps its task id; a revoke is a broadcast that
  workers remember in memory and lose when they die. The delay before redelivery
  is not modelled: a message is available at any later time.
- **Postgres** runs in read committed, an update locks its row, a victim of a
  deadlock is rolled back, `now()` is the start of a transaction.
- **Qdrant.** Upserts are visible to the next query, and queries are exact.
- **Neo4j.** The clauses of a statement run one after the other, each over all
  rows of UNWIND; a statement that a constraint refuses raises and changes
  nothing.
- **Sarvam AI.** A finished job's archive may lack any pages, or the document; nothing
  looks at the job's state. Pages of a part come in order.
- **Files.** A write that is interrupted leaves a prefix; a rename or a removal is
  whole.
- **Docker.** A volume is lost as a whole, and only while no script runs.
- **redis-py.** The first `get_message` of a subscription may return nothing.

## 8. Not modelled

- Search, evidence, graph, analytics, templates and health: read-only.
- Of accounts, API keys, rate limits, and the API's logout, which no client calls;
  of the front end, what its pages show.
- Webhooks: registration is a stub and nothing sends an event yet; the delivery
  task posts to a fixed address.
- Of the scripts: `backup_dbs.py` (dumps under dated names that nothing reads),
  `fix_book_ownership.py`, seeding and initialisation, which are single statements;
  evaluation and golden facts, which only read the stores; dry runs, the bound on
  chunks, language detection and usage logs of those that are modelled.
- The stub tasks `ocr`, `chunk`, `embed`, `extract_units`, `build_graph`,
  `scheduled`, and `bulk_merge`: they have no behaviour.
- `CitationEnforcementPolicy`: nothing calls it. What generation does instead is in
  `VideoPackages`.
- The other listings (books, chunks, packages) page with the same keyset as units
  and differ only in their filters; S3 uploads beyond whether a file is verified;
  prompts, outlines, visual specifications and the contents of LLM answers;
  migrations.
- Language detection, chunk types, cleaning of pages, and the filter of a package
  request by book, except that an empty result is then refused.

## 9. Plan

Order of what is here: jobs first, since everything else runs inside one; then
what a run writes, what clients see of it, what follows it, what editors do with
its results, the chain from a page to a citation; then the session of a browser, and
the scripts that build the corpus without the service.

Models to come, most important first:

1. `Provenance` with the embedder's batches in place of the all-or-nothing step.
2. The process-wide asyncpg pool across event loops (`db.py:53`), beneath the
   writes of `IngestionJobs`.
3. Book upload and deletion against jobs that are under way, and what deletion
   leaves behind.
4. `Corpus` beside a running worker: both write the same stores.
5. API keys: what a revoked key can still do.

Abstract specifications worth stating: an append-only store that `KnowledgeStore`
implements as far as single runs go, and an atomic register per field that
`KnowledgeUnits` implements for changes.

Every safety property of the runs that the code keeps is now a theorem. To come:

1. `JobsFollowTheirLifecycle` with cancellations: `JobLifecycle` would have to promise
   what remains of an outcome then, and the refinement be stated for that.
2. `NoTextIsLost` with any bound on the blanks in a row, in place of the two of
   `BlanksAreFew`.
3. The refinements of the abstract store and register, once they are stated.

## Running it

    tlc -workers 2 -config Jobs_faults.cfg MCIngestionJobs
    tlapm IngestionJobs_proofs.tla
    tlapm Corpus_proofs.tla

The other `..._proofs` modules are checked in the same way.

`PROJECT.json` lists for each run its module, configuration and properties, for
each property a mutant that violates it, for each definition the lines it models,
for each hazard the properties that watch it, and the theorems.
