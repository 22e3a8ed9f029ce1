------------------------------ MODULE JobEvents ------------------------------
(***************************************************************************)
(* The event streams of one job: job_events in routers/jobs.py against the *)
(* workers that write the job's row and publish what they wrote            *)
(* (update_job_status and publish_job_event in db.py).                     *)
(*                                                                         *)
(* A write and its publication are two steps, and the publication may be   *)
(* lost.  A stream shows a snapshot of the row, subscribes, and then shows *)
(* messages; when none has come for 3 seconds it reads the row, and shows  *)
(* it if the progress is not the one it knows.  The job's life is that of  *)
(* IngestionJobs, seen from its row: attempts that report, fail, are cut   *)
(* off and start over, two of them at once when the broker delivers a      *)
(* message a second time, and cancellations at any time.                   *)
(***************************************************************************)
EXTENDS Integers, Sequences

CONSTANTS
    Streams, Workers,
    Whole,        \* reports of an attempt, and the progress 1.0 of the last one
    MaxMessages,  \* bound on messages of the job, retries and redeliveries included
    MaxUnread     \* bound on events on their way to a stream

ASSUME EventsAssumption == Whole \in Nat \ {0} /\ MaxMessages \in Nat \ {0} /\ MaxUnread \in Nat

VARIABLES
    status, progress,   \* the job's row
    messages,   \* messages of the job so far
    ready,      \* those of them in the queue
    at,         \* each worker's next write: 0 begins, 1..Whole report, then it
                \* completes, then enqueues the follow-up, and acknowledges
    pending,    \* the write it has not yet published, or NoEvent
    phase, inbox, lastProgress,  \* each stream; lastProgress is its last_progress
    shown,      \* what its client has seen last of status and progress
    \* History
    earlier,    \* the workers whose pending write came before each worker's own
    overtaken,  \* some event was published ahead of that of an earlier write
    lost,       \* some publication has been lost
    canceled    \* the job has been canceled

row == <<status, progress>>
broker == <<messages, ready>>
workers == <<at, pending, earlier>>
streams == <<phase, inbox, lastProgress, shown>>
history == <<overtaken, lost, canceled>>
vars == <<row, broker, workers, streams, history>>

Terminal == {"completed", "failed", "canceled"}
Statuses == Terminal \cup {"queued", "running"}
Idle       == -1
Completing == Whole + 1
Following  == Whole + 2
Over       == Whole + 3

NoEvent    == [kind |-> "none"]
NoProgress == -1    \* of an event that carries none, and the first last_progress

Events == [kind : {"event"}, status : Statuses, progress : 0..Whole \cup {NoProgress}]

Phases == {"off", "subscribing", "waiting", "polling",
           "closed", "broken", "expired"}
Subscribed(s) == phase[s] \in {"waiting", "polling"}

\* The workers between a write and its publication.
Publishing == {w \in Workers : pending[w] # NoEvent}

TypeOK ==
    /\ status \in Statuses /\ progress \in 0..Whole
    /\ messages \in 1..MaxMessages /\ ready \in 0..messages
    /\ at \in [Workers -> {Idle} \cup 0..Over]
    /\ pending \in [Workers -> Events \cup {NoEvent}]
    /\ earlier \in [Workers -> SUBSET Workers]
    /\ phase \in [Streams -> Phases]
    /\ inbox \in [Streams -> Seq(Events)]
    /\ \A s \in Streams : ~Subscribed(s) => inbox[s] = <<>>
    /\ lastProgress \in [Streams -> 0..Whole \cup {NoProgress}]
    /\ shown \in [Streams -> [status : Statuses, progress : 0..Whole]]
    /\ overtaken \in BOOLEAN /\ lost \in BOOLEAN /\ canceled \in BOOLEAN

Init ==
    /\ status = "queued" /\ progress = 0
    /\ messages = 1 /\ ready = 1
    /\ at = [w \in Workers |-> Idle]
    /\ pending = [w \in Workers |-> NoEvent]
    /\ earlier = [w \in Workers |-> {}]
    /\ phase = [s \in Streams |-> "off"]
    /\ inbox = [s \in Streams |-> <<>>]
    /\ lastProgress = [s \in Streams |-> NoProgress]
    /\ shown = [s \in Streams |-> [status |-> "queued", progress |-> 0]]
    /\ overtaken = FALSE /\ lost = FALSE /\ canceled = FALSE

-----------------------------------------------------------------------------
(***************************************************************************)
(* The workers and the API as writers of the row.                          *)
(***************************************************************************)
Goes(w, next) == at' = [at EXCEPT ![w] = next]

\* A message of the job comes to the queue, for the first time or again.
Send ==
    /\ messages < MaxMessages
    /\ messages' = messages + 1 /\ ready' = ready + 1

Take(w) ==
    /\ at[w] = Idle /\ ready > 0
    /\ ready' = ready - 1
    /\ Goes(w, 0)
    /\ UNCHANGED <<row, messages, pending, earlier, streams, history>>

\* A revoked message is acknowledged unread.
Discard(w) ==
    /\ at[w] = Idle /\ ready > 0 /\ canceled
    /\ ready' = ready - 1
    /\ UNCHANGED <<row, messages, workers, streams, history>>

\* A faulty form: what is not given is written as null.
ProgressAsGiven(p) == p

ProgressAfter(p) == IF p = NoProgress THEN progress ELSE p

\* update_job_status: the row first; what is not given is left as it is, and
\* left out of the event.
Write(w, st, p) ==
    /\ pending[w] = NoEvent
    /\ status' = st
    /\ progress' = ProgressAfter(p)
    /\ pending' = [pending EXCEPT ![w] = [kind |-> "event", status |-> st, progress |-> p]]
    /\ earlier' = [earlier EXCEPT ![w] = Publishing]
    /\ UNCHANGED <<broker, streams, history>>

Begin(w)  == at[w] = 0 /\ Write(w, "running", NoProgress) /\ Goes(w, 1)

Report(w) == at[w] \in 1..Whole /\ Write(w, "running", at[w]) /\ Goes(w, at[w] + 1)

Complete(w) == at[w] = Completing /\ Write(w, "completed", Whole) /\ Goes(w, Following)

Follow(w) ==
    /\ at[w] = Following /\ pending[w] = NoEvent
    /\ Goes(w, Over)
    /\ UNCHANGED <<row, broker, pending, earlier, streams, history>>

\* An error after the first write: another attempt, or the last word.
Retry(w) ==
    /\ at[w] \in 1..Following /\ pending[w] = NoEvent
    /\ Send /\ Goes(w, Over)
    /\ UNCHANGED <<row, pending, earlier, streams, history>>

MarkFailed(w) == at[w] \in 1..Following /\ Write(w, "failed", NoProgress) /\ Goes(w, Over)

Ack(w) ==
    /\ at[w] = Over /\ pending[w] = NoEvent
    /\ Goes(w, Idle)
    /\ UNCHANGED <<row, broker, pending, earlier, streams, history>>

\* The write of w is not to be published any more.
Forget(w) ==
    /\ pending' = [pending EXCEPT ![w] = NoEvent]
    /\ earlier' = [v \in Workers |-> IF v = w THEN {} ELSE earlier[v] \ {w}]

\* What was written and not published is lost.
Lose(w) ==
    /\ Forget(w)
    /\ lost' = (lost \/ pending[w] # NoEvent)
    /\ UNCHANGED <<row, streams, overtaken, canceled>>

\* The task is killed, by a revoke or a time limit, or its first write raises:
\* its message is acknowledged.
Abort(w) ==
    /\ at[w] # Idle
    /\ Lose(w) /\ Goes(w, Idle)
    /\ UNCHANGED broker

\* The worker dies: the message it held is delivered again.
Dies(w) ==
    /\ at[w] # Idle
    /\ Lose(w) /\ Goes(w, Idle)
    /\ Send

\* The visibility timeout: the message is delivered again while w goes on.
Redeliver(w) ==
    /\ at[w] # Idle
    /\ Send
    /\ UNCHANGED <<row, workers, streams, history>>

\* cancel_job writes the row, whatever it says, and publishes nothing.
Cancel ==
    /\ status' = "canceled"
    /\ canceled' = TRUE
    /\ UNCHANGED <<progress, broker, workers, streams, overtaken, lost>>

Publish(w) ==
    /\ pending[w] # NoEvent
    /\ \A s \in Streams : Len(inbox[s]) < MaxUnread
    /\ inbox' = [s \in Streams |->
                    IF Subscribed(s) THEN Append(inbox[s], pending[w]) ELSE inbox[s]]
    /\ Forget(w)
    /\ overtaken' = (overtaken \/ earlier[w] # {})
    /\ UNCHANGED <<row, broker, at, phase, lastProgress, shown, lost, canceled>>

\* Errors of the publication are swallowed.
PublishFails(w) ==
    /\ pending[w] # NoEvent
    /\ Lose(w)
    /\ UNCHANGED <<broker, at>>

-----------------------------------------------------------------------------
(***************************************************************************)
(* A stream.                                                               *)
(***************************************************************************)
Unread == UNCHANGED <<row, broker, workers, history>>

Goto(s, next) ==
    /\ phase' = [phase EXCEPT ![s] = next]
    /\ inbox' = [inbox EXCEPT ![s] = IF next \in {"waiting", "polling"} THEN @ ELSE <<>>]

Show(s, st, p) ==
    shown' = [shown EXCEPT ![s] =
                 [status |-> st, progress |-> IF p = NoProgress THEN @.progress ELSE p]]

\* The snapshot, read before the stream begins.
Open(s) ==
    /\ phase[s] = "off"
    /\ Show(s, status, progress)
    /\ Goto(s, IF status \in Terminal THEN "closed" ELSE "subscribing")
    /\ UNCHANGED lastProgress /\ Unread

\* A faulty form: the snapshot counts as what the client knows.
FirstProgressOfSnapshot(s) == shown[s].progress

FirstProgress(s) == NoProgress

Subscribe(s) ==
    /\ phase[s] = "subscribing"
    /\ lastProgress' = [lastProgress EXCEPT ![s] = FirstProgress(s)]
    /\ Goto(s, "waiting")
    /\ UNCHANGED shown /\ Unread

\* Redis cannot be reached: the exception ends the stream.
RedisFails(s) ==
    /\ phase[s] \in {"subscribing", "waiting"}
    /\ Goto(s, "broken")
    /\ UNCHANGED <<lastProgress, shown>> /\ Unread

\* A faulty form: a cancellation is not one of the statuses that end a stream.
EndsWithoutCancel(st) == st \in {"completed", "failed"}

Ends(st) == st \in Terminal

Receive(s) ==
    /\ phase[s] = "waiting" /\ inbox[s] # <<>>
    /\ LET event == Head(inbox[s])
       IN  /\ Show(s, event.status, event.progress)
           /\ IF Ends(event.status)
              THEN Goto(s, "closed") /\ UNCHANGED lastProgress
              ELSE /\ inbox' = [inbox EXCEPT ![s] = Tail(@)]
                   /\ lastProgress' = [lastProgress EXCEPT ![s] =
                          IF event.progress = NoProgress THEN @ ELSE event.progress]
                   /\ UNCHANGED phase
    /\ Unread

\* No message for 3 seconds.  (The confirmation of the subscription counts as
\* none, so the first wait may end at once.)
NoMessage(s) ==
    /\ phase[s] = "waiting" /\ inbox[s] = <<>>
    /\ Goto(s, "polling")
    /\ UNCHANGED <<lastProgress, shown>> /\ Unread

\* A faulty form: only a progress that has grown is news.
IsNewsIfGrown(s) == progress > lastProgress[s]

IsNews(s) == progress # lastProgress[s]

Poll(s) ==
    /\ phase[s] = "polling"
    /\ IF IsNews(s)
       THEN /\ Show(s, status, progress)
            /\ lastProgress' = [lastProgress EXCEPT ![s] = progress]
       ELSE UNCHANGED <<shown, lastProgress>>
    /\ Goto(s, IF Ends(status) THEN "closed" ELSE "waiting")
    /\ Unread

\* 90 minutes are over.
Deadline(s) ==
    /\ phase[s] = "waiting"
    /\ Goto(s, "expired")
    /\ UNCHANGED <<lastProgress, shown>> /\ Unread

-----------------------------------------------------------------------------
Writer(w) ==
    \/ Take(w) \/ Discard(w)
    \/ Begin(w) \/ Report(w) \/ Complete(w) \/ Follow(w) \/ Retry(w) \/ MarkFailed(w)
    \/ Ack(w) \/ Abort(w) \/ Dies(w) \/ Redeliver(w)
    \/ Publish(w) \/ PublishFails(w)

Proceed(s) == Subscribe(s) \/ Receive(s) \/ NoMessage(s) \/ Poll(s)

Next ==
    \/ Cancel
    \/ \E w \in Workers : Writer(w)
    \/ \E s \in Streams : Open(s) \/ RedisFails(s) \/ Proceed(s) \/ Deadline(s)

Spec == Init /\ [][Next]_vars

\* The loop of a stream goes on by itself; nothing is asked of workers, of
\* clients, or of the deadline.
FairSpec == Spec /\ \A s \in Streams : WF_vars(Proceed(s))

-----------------------------------------------------------------------------
(***************************************************************************)
(* Properties.                                                             *)
(***************************************************************************)
\* A stream that ends over the row without having shown an outcome missed it
\* for one of four reasons: a publication was lost, the job was canceled, two
\* workers served it and published in another order than they wrote, or the
\* event was still on its way.  What was published between the snapshot and
\* the subscription is not among them.
FollowersSeeTheEnd ==
    [][\A s \in Streams :
          (phase[s] = "polling" /\ phase'[s] = "closed" /\ shown'[s].status \notin Terminal)
              => lost \/ canceled \/ overtaken \/ Publishing # {} \/ inbox[s] # <<>>]_vars

\* Whatever was lost, canceled or started over: after a poll the client has
\* seen the progress of the row that was read.
PollsBringProgress ==
    [][\A s \in Streams :
          (phase[s] = "polling" /\ phase'[s] # "polling") => shown'[s].progress = progress]_vars

\* A stream of a job that has come to its end ends too, and not only by its
\* deadline, though no event of the end may have reached it.
StreamEnds ==
    \A s \in Streams :
        <>[](status \in Terminal)
            => []<>(phase[s] \in {"off", "closed", "broken", "expired"})

=============================================================================
