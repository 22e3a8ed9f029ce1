-------------------------- MODULE JobEvents_proofs --------------------------
(***************************************************************************)
(* Theorems about JobEvents, for all values of its constants: any number   *)
(* of streams, workers, reports and messages.                              *)
(***************************************************************************)
EXTENDS JobEvents, SequenceTheorems, TLAPS

\* What a stream knows of the row.  What it takes for the progress is what its
\* client has seen; the last event that is on its way to it, and if there is
\* none what the client has seen, has the status of the row, unless something
\* was lost, something overtaken, or the job was canceled.
Last(events) == events[Len(events)]

ProgressInv(s) ==
    Subscribed(s) /\ lastProgress[s] # NoProgress => shown[s].progress = lastProgress[s]

\* The writes that are not yet published came one after the other, and the
\* last of them is what the row says.
EarlierInv == \A v, w \in Workers : v \in earlier[w] => v # w /\ {v, w} \subseteq Publishing

OrderInv == \A v, w \in Publishing : v # w => v \in earlier[w] \/ w \in earlier[v]

InOrder == ~lost /\ ~overtaken /\ ~canceled

IsLatest(w) == w \in Publishing /\ Publishing \subseteq earlier[w] \cup {w}

PendingInv == InOrder => \A w \in Workers : IsLatest(w) => pending[w].status = status

StatusInv(s) ==
    Subscribed(s) /\ InOrder /\ Publishing = {} =>
        /\ inbox[s] # <<>> => Last(inbox[s]).status = status
        /\ inbox[s] = <<>> /\ lastProgress[s] # NoProgress => shown[s].status = status

StreamInv ==
    /\ TypeOK /\ EarlierInv /\ OrderInv /\ PendingInv
    /\ \A s \in Streams : ProgressInv(s) /\ StatusInv(s)

-----------------------------------------------------------------------------
(***************************************************************************)
(* Building blocks.                                                        *)
(***************************************************************************)
WriterTypes ==
    /\ status \in Statuses /\ progress \in 0..Whole
    /\ messages \in 1..MaxMessages /\ ready \in 0..messages
    /\ at \in [Workers -> {Idle} \cup 0..Over]
    /\ pending \in [Workers -> Events \cup {NoEvent}]
    /\ earlier \in [Workers -> SUBSET Workers]
    /\ overtaken \in BOOLEAN /\ lost \in BOOLEAN /\ canceled \in BOOLEAN

StreamTypes ==
    /\ phase \in [Streams -> Phases]
    /\ inbox \in [Streams -> Seq(Events)]
    /\ \A s \in Streams : ~Subscribed(s) => inbox[s] = <<>>
    /\ lastProgress \in [Streams -> 0..Whole \cup {NoProgress}]
    /\ shown \in [Streams -> [status : Statuses, progress : 0..Whole]]

LEMMA TypesSplit ==
    /\ TypeOK <=> WriterTypes /\ StreamTypes
    /\ TypeOK' <=> WriterTypes' /\ StreamTypes'
BY DEF TypeOK, WriterTypes, StreamTypes

LEMMA ConstantFacts ==
    /\ Whole \in Nat \ {0} /\ MaxMessages \in Nat \ {0}
    /\ NoProgress \notin 0..Whole
    /\ Idle = -1 /\ Completing = Whole + 1 /\ Following = Whole + 2 /\ Over = Whole + 3
    /\ NoEvent \notin Events
BY EventsAssumption DEF NoProgress, Idle, Completing, Following, Over, NoEvent, Events

LEMMA WriteTypes ==
    ASSUME TypeOK, NEW w \in Workers, NEW st \in Statuses, NEW p \in 0..Whole \cup {NoProgress},
           Write(w, st, p)
    PROVE  /\ status' \in Statuses /\ progress' \in 0..Whole
           /\ pending' \in [Workers -> Events \cup {NoEvent}]
           /\ pending'[w] \in Events /\ pending'[w].status = status'
           /\ earlier' \in [Workers -> SUBSET Workers]
           /\ UNCHANGED <<broker, streams, history>> /\ pending[w] = NoEvent
BY DEF Write, ProgressAfter, TypeOK, Events, Publishing

LEMMA ForgetTypes ==
    ASSUME TypeOK, NEW w \in Workers, Forget(w)
    PROVE  /\ pending' \in [Workers -> Events \cup {NoEvent}]
           /\ earlier' \in [Workers -> SUBSET Workers]
BY DEF Forget, TypeOK

LEMMA GoesTypes ==
    ASSUME TypeOK, NEW w \in Workers, NEW next \in {Idle} \cup 0..Over, Goes(w, next)
    PROVE  at' \in [Workers -> {Idle} \cup 0..Over]
BY DEF Goes, TypeOK

LEMMA Nexts ==
    /\ {0, 1, Following, Over, Idle} \subseteq {Idle} \cup 0..Over
    /\ \A n \in 1..Whole : n + 1 \in {Idle} \cup 0..Over
BY ConstantFacts

\* The four writes of a worker, as one.
Writes(w) == Begin(w) \/ Report(w) \/ Complete(w) \/ MarkFailed(w)

LEMMA WhatIsWritten ==
    ASSUME TypeOK, NEW w \in Workers, Writes(w)
    PROVE  /\ \E st \in Statuses, p \in 0..Whole \cup {NoProgress} : Write(w, st, p)
           /\ at' \in [Workers -> {Idle} \cup 0..Over]
<1>1. /\ {"running", "completed", "failed"} \subseteq Statuses
      /\ Whole \in 0..Whole \cup {NoProgress} /\ 1..Whole \subseteq 0..Whole
      BY ConstantFacts DEF Statuses, Terminal
<1>2. \E st \in Statuses, p \in 0..Whole \cup {NoProgress} : Write(w, st, p)
  <2>1. CASE Begin(w)
        BY <1>1, <2>1 DEF Begin
  <2>2. CASE Report(w)
        BY <1>1, <2>2 DEF Report
  <2>3. CASE Complete(w)
        BY <1>1, <2>3 DEF Complete
  <2>4. CASE MarkFailed(w)
        BY <1>1, <2>4 DEF MarkFailed
  <2>5. QED
        BY <2>1, <2>2, <2>3, <2>4 DEF Writes
<1>3. at' \in [Workers -> {Idle} \cup 0..Over]
      BY Nexts, GoesTypes DEF Writes, Begin, Report, Complete, MarkFailed
<1>4. QED
      BY <1>2, <1>3

LEMMA WriterStep ==
    ASSUME TypeOK, NEW w \in Workers, Writer(w)
    PROVE  WriterTypes'
<1> USE ConstantFacts DEF row, broker, workers, history, WriterTypes
<1>1. CASE Take(w) \/ Discard(w)
  <2>1. at' \in [Workers -> {Idle} \cup 0..Over]
        BY <1>1, Nexts, GoesTypes DEF Take, Discard, TypeOK
  <2>2. ready' \in 0..messages' /\ messages' = messages
        BY <1>1 DEF Take, Discard, TypeOK
  <2>3. UNCHANGED <<row, pending, earlier, history>>
        BY <1>1 DEF Take, Discard
  <2>4. QED
        BY <2>1, <2>2, <2>3 DEF TypeOK
<1>2. CASE Writes(w)
  <2>1. PICK st \in Statuses, p \in 0..Whole \cup {NoProgress} : Write(w, st, p)
        BY <1>2, WhatIsWritten
  <2>2. /\ status' \in Statuses /\ progress' \in 0..Whole
        /\ pending' \in [Workers -> Events \cup {NoEvent}]
        /\ earlier' \in [Workers -> SUBSET Workers]
        /\ UNCHANGED <<broker, history>>
        BY <2>1, WriteTypes
  <2>3. at' \in [Workers -> {Idle} \cup 0..Over]
        BY <1>2, WhatIsWritten
  <2>4. QED
        BY <2>2, <2>3 DEF TypeOK
<1>3. CASE Follow(w) \/ Ack(w) \/ Retry(w) \/ Redeliver(w)
  <2>1. at' \in [Workers -> {Idle} \cup 0..Over]
        BY <1>3, Nexts, GoesTypes DEF Follow, Ack, Retry, Redeliver, TypeOK
  <2>2. messages' \in 1..MaxMessages /\ ready' \in 0..messages'
        BY <1>3 DEF Follow, Ack, Retry, Redeliver, Send, TypeOK
  <2>3. UNCHANGED <<row, pending, earlier, history>>
        BY <1>3 DEF Follow, Ack, Retry, Redeliver
  <2>4. QED
        BY <2>1, <2>2, <2>3 DEF TypeOK
<1>4. CASE Abort(w) \/ Dies(w) \/ PublishFails(w)
  <2>1. Lose(w) /\ Forget(w)
        BY <1>4 DEF Abort, Dies, PublishFails, Lose
  <2>2. /\ pending' \in [Workers -> Events \cup {NoEvent}]
        /\ earlier' \in [Workers -> SUBSET Workers]
        BY <2>1, ForgetTypes
  <2>3. UNCHANGED <<row, overtaken, canceled>> /\ lost' \in BOOLEAN
        BY <2>1 DEF Lose, TypeOK
  <2>4. at' \in [Workers -> {Idle} \cup 0..Over]
        BY <1>4, Nexts, GoesTypes DEF Abort, Dies, PublishFails, TypeOK
  <2>5. messages' \in 1..MaxMessages /\ ready' \in 0..messages'
        BY <1>4 DEF Abort, Dies, PublishFails, Send, TypeOK
  <2>6. QED
        BY <2>2, <2>3, <2>4, <2>5 DEF TypeOK
<1>5. CASE Publish(w)
  <2>1. /\ pending' \in [Workers -> Events \cup {NoEvent}]
        /\ earlier' \in [Workers -> SUBSET Workers]
        BY <1>5, ForgetTypes DEF Publish
  <2>2. QED
        BY <1>5, <2>1 DEF Publish, TypeOK
<1>6. QED
      BY <1>1, <1>2, <1>3, <1>4, <1>5 DEF Writer, Writes

\* A worker touches a stream only by publishing.
LEMMA WriterStreams ==
    ASSUME TypeOK, NEW w \in Workers, Writer(w)
    PROVE  StreamTypes'
<1>1. CASE ~Publish(w)
  <2>1. UNCHANGED streams
        BY <1>1 DEF Writer, Take, Discard, Begin, Report, Complete, Follow, Retry, MarkFailed,
                    Ack, Abort, Dies, Redeliver, PublishFails, Lose, Write
  <2>2. QED
        BY <2>1 DEF streams, TypeOK, StreamTypes, Subscribed
<1>2. CASE Publish(w)
  <2>1. pending[w] \in Events
        BY <1>2 DEF Publish, TypeOK
  <2>2. \A s \in Streams : Append(inbox[s], pending[w]) \in Seq(Events)
        BY <2>1, AppendProperties DEF TypeOK
  <2>3. QED
        BY <1>2, <2>2 DEF Publish, TypeOK, StreamTypes, Subscribed
<1>3. QED
      BY <1>1, <1>2

LEMMA CancelStep ==
    ASSUME TypeOK, Cancel
    PROVE  WriterTypes' /\ StreamTypes'
BY DEF Cancel, broker, workers, streams, WriterTypes, StreamTypes, TypeOK, Subscribed, Statuses,
       Terminal

LEMMA GotoTypes ==
    ASSUME TypeOK, NEW s \in Streams, NEW next \in Phases, Goto(s, next)
    PROVE  /\ phase' \in [Streams -> Phases]
           /\ inbox' \in [Streams -> Seq(Events)]
           /\ \A t \in Streams : ~Subscribed(t)' => inbox'[t] = <<>>
<1>1. inbox' \in [Streams -> Seq(Events)]
      BY EmptySeq DEF Goto, TypeOK
<1>2. QED
      BY <1>1 DEF Goto, TypeOK, Subscribed

LEMMA ShowTypes ==
    ASSUME TypeOK, NEW s \in Streams, NEW st \in Statuses, NEW p \in 0..Whole \cup {NoProgress},
           Show(s, st, p)
    PROVE  shown' \in [Streams -> [status : Statuses, progress : 0..Whole]]
BY ConstantFacts DEF Show, TypeOK

LEMMA FirstEvent ==
    ASSUME TypeOK, NEW s \in Streams, inbox[s] # <<>>
    PROVE  /\ Head(inbox[s]) \in Events
           /\ Head(inbox[s]).status \in Statuses
           /\ Head(inbox[s]).progress \in 0..Whole \cup {NoProgress}
           /\ Tail(inbox[s]) \in Seq(Events)
<1>1. Head(inbox[s]) \in Events /\ Tail(inbox[s]) \in Seq(Events)
      BY HeadTailProperties DEF TypeOK
<1>2. QED
      BY <1>1 DEF Events

Reader(s) == Open(s) \/ RedisFails(s) \/ Proceed(s) \/ Deadline(s)

LEMMA ReaderTypes ==
    ASSUME TypeOK, NEW s \in Streams, Reader(s)
    PROVE  TypeOK'
<1>1. WriterTypes'
  <2>1. Unread
        BY DEF Reader, Proceed, Open, RedisFails, Subscribe, Receive, NoMessage, Poll, Deadline
  <2>2. QED
        BY <2>1 DEF Unread, row, broker, workers, history, WriterTypes, TypeOK
<1>2. StreamTypes'
  <2>1. ASSUME NEW next \in Phases, Goto(s, next), UNCHANGED <<lastProgress, shown>>
        PROVE  StreamTypes'
        BY <2>1, GotoTypes DEF StreamTypes, TypeOK
  <2>2. CASE Open(s)
    <3>1. PICK next \in Phases : Goto(s, next)
          BY <2>2 DEF Open, Phases
    <3>2. shown' \in [Streams -> [status : Statuses, progress : 0..Whole]]
          BY <2>2, ShowTypes DEF Open, TypeOK
    <3>3. QED
          BY <2>2, <3>1, <3>2, GotoTypes DEF Open, StreamTypes, TypeOK
  <2>3. CASE RedisFails(s) \/ NoMessage(s) \/ Deadline(s)
        BY <2>1, <2>3 DEF RedisFails, NoMessage, Deadline, Phases
  <2>4. CASE Subscribe(s)
    <3>1. Goto(s, "waiting") /\ "waiting" \in Phases
          BY <2>4 DEF Subscribe, Phases
    <3>2. QED
          BY <2>4, <3>1, GotoTypes DEF Subscribe, FirstProgress, StreamTypes, TypeOK
  <2>5. CASE Receive(s)
    <3> DEFINE event == Head(inbox[s])
    <3>1. shown' \in [Streams -> [status : Statuses, progress : 0..Whole]]
          BY <2>5, FirstEvent, ShowTypes DEF Receive
    <3>2. CASE Ends(event.status)
      <4>1. Goto(s, "closed") /\ "closed" \in Phases /\ UNCHANGED lastProgress
            BY <2>5, <3>2 DEF Receive, Phases
      <4>2. QED
            BY <3>1, <4>1, GotoTypes DEF StreamTypes, TypeOK
    <3>3. CASE ~Ends(event.status)
      <4>1. inbox' \in [Streams -> Seq(Events)]
            BY <2>5, <3>3, FirstEvent DEF Receive, TypeOK
      <4>2. lastProgress' \in [Streams -> 0..Whole \cup {NoProgress}]
            BY <2>5, <3>3, FirstEvent DEF Receive, TypeOK
      <4>3. QED
            BY <2>5, <3>1, <3>3, <4>1, <4>2 DEF Receive, StreamTypes, TypeOK, Subscribed
    <3>4. QED
          BY <3>2, <3>3
  <2>6. CASE Poll(s)
    <3>1. PICK next \in Phases : Goto(s, next)
          BY <2>6 DEF Poll, Phases
    <3>2. shown' \in [Streams -> [status : Statuses, progress : 0..Whole]]
          BY <2>6, ShowTypes DEF Poll, TypeOK
    <3>3. lastProgress' \in [Streams -> 0..Whole \cup {NoProgress}]
          BY <2>6 DEF Poll, TypeOK
    <3>4. QED
          BY <3>1, <3>2, <3>3, GotoTypes DEF StreamTypes, TypeOK
  <2>7. QED
        BY <2>2, <2>3, <2>4, <2>5, <2>6 DEF Reader, Proceed
<1>3. QED
      BY <1>1, <1>2, TypesSplit

-----------------------------------------------------------------------------
(***************************************************************************)
(* What a stream knows of the row.                                         *)
(***************************************************************************)
WriterInv == EarlierInv /\ OrderInv /\ PendingInv

Knowledge == WriterInv /\ \A s \in Streams : ProgressInv(s) /\ StatusInv(s)

\* The newest of the unpublished writes is now that of w, and is what the row
\* says.
LEMMA WriteKeepsKnowledge ==
    ASSUME StreamInv, NEW w \in Workers, NEW st \in Statuses, NEW p \in 0..Whole \cup {NoProgress},
           Write(w, st, p)
    PROVE  Knowledge'
<1>1. /\ pending'[w] \in Events /\ pending'[w].status = status' /\ pending[w] = NoEvent
      /\ UNCHANGED <<streams, history>>
      BY WriteTypes DEF StreamInv
<1>2. w \notin Publishing /\ Publishing' = Publishing \cup {w}
      BY <1>1, ConstantFacts DEF Publishing, Write, StreamInv, TypeOK
<1>3. earlier' = [earlier EXCEPT ![w] = Publishing] /\ earlier \in [Workers -> SUBSET Workers]
      BY DEF Write, StreamInv, TypeOK
<1>4. \A v \in Workers : w \notin earlier[v]
      BY <1>2 DEF StreamInv, EarlierInv
<1>5. EarlierInv'
  <2> SUFFICES ASSUME NEW u \in Workers, NEW v \in Workers, u \in earlier'[v]
               PROVE  u # v /\ u \in Publishing' /\ v \in Publishing'
      BY DEF EarlierInv
  <2>1. CASE v = w
        BY <1>2, <1>3, <2>1
  <2>2. CASE v # w
        BY <1>2, <1>3, <2>2 DEF StreamInv, EarlierInv
  <2>3. QED
        BY <2>1, <2>2
<1>6. OrderInv'
  <2> SUFFICES ASSUME NEW u \in Publishing', NEW v \in Publishing', u # v
               PROVE  u \in earlier'[v] \/ v \in earlier'[u]
      BY DEF OrderInv
  <2>1. u \in Workers /\ v \in Workers
        BY DEF Publishing
  <2>2. CASE v = w \/ u = w
        BY <1>2, <1>3, <2>2
  <2>3. CASE v # w /\ u # w
        BY <1>2, <1>3, <2>1, <2>3 DEF StreamInv, OrderInv
  <2>4. QED
        BY <2>2, <2>3
<1>7. PendingInv'
  <2> SUFFICES ASSUME NEW v \in Workers, IsLatest(v)' PROVE pending'[v].status = status'
      BY DEF PendingInv
  <2>1. CASE v # w
        BY <1>2, <1>3, <1>4, <2>1 DEF IsLatest
  <2>2. QED
        BY <1>1, <2>1
<1>8. ASSUME NEW s \in Streams PROVE ProgressInv(s)' /\ StatusInv(s)'
      BY <1>1, <1>2 DEF streams, StreamInv, ProgressInv, StatusInv, Subscribed
<1>9. QED
      BY <1>5, <1>6, <1>7, <1>8 DEF Knowledge, WriterInv

LEMMA ForgetKeepsOrder ==
    ASSUME StreamInv, NEW w \in Workers, Forget(w)
    PROVE  /\ Publishing' = Publishing \ {w}
           /\ EarlierInv' /\ OrderInv'
           /\ \A v \in Workers \ {w} : pending'[v] = pending[v] /\ earlier'[v] = earlier[v] \ {w}
           /\ pending[w] = NoEvent => pending' = pending /\ earlier' = earlier
<1>1. /\ pending' = [pending EXCEPT ![w] = NoEvent]
      /\ pending \in [Workers -> Events \cup {NoEvent}]
      /\ earlier' = [v \in Workers |-> IF v = w THEN {} ELSE earlier[v] \ {w}]
      /\ earlier \in [Workers -> SUBSET Workers]
      BY DEF Forget, StreamInv, TypeOK
<1>2. Publishing' = Publishing \ {w}
      BY <1>1 DEF Publishing
<1>3. \A v \in Workers \ {w} : pending'[v] = pending[v] /\ earlier'[v] = earlier[v] \ {w}
      BY <1>1
<1>4. EarlierInv'
      BY <1>1, <1>2 DEF EarlierInv, StreamInv
<1>5. OrderInv'
  <2> SUFFICES ASSUME NEW u \in Publishing', NEW v \in Publishing', u # v
               PROVE  u \in earlier'[v] \/ v \in earlier'[u]
      BY DEF OrderInv
  <2>1. u \in Publishing /\ v \in Publishing /\ u # w /\ v # w /\ u \in Workers /\ v \in Workers
        BY <1>2 DEF Publishing
  <2>2. u \in earlier[v] \/ v \in earlier[u]
        BY <2>1 DEF StreamInv, OrderInv
  <2>3. QED
        BY <1>3, <2>1, <2>2
<1>6. ASSUME pending[w] = NoEvent PROVE pending' = pending /\ earlier' = earlier
  <2>1. w \notin Publishing
        BY <1>6 DEF Publishing
  <2>2. \A v \in Workers : w \notin earlier[v] /\ (v = w => earlier[v] = {})
        BY <1>1, <2>1 DEF StreamInv, EarlierInv
  <2>3. \A v \in Workers : earlier'[v] = earlier[v]
        BY <1>1, <2>2
  <2>4. QED
        BY <1>1, <1>6, <2>3
<1>7. QED
      BY <1>2, <1>3, <1>4, <1>5, <1>6

LEMMA LoseKeepsKnowledge ==
    ASSUME StreamInv, NEW w \in Workers, Lose(w)
    PROVE  Knowledge'
<1>1. /\ Forget(w) /\ UNCHANGED <<row, streams, overtaken, canceled>>
      /\ lost' = (lost \/ pending[w] # NoEvent)
      BY DEF Lose
<1>2. EarlierInv' /\ OrderInv'
      BY <1>1, ForgetKeepsOrder
<1>3. CASE pending[w] = NoEvent
  <2>1. pending' = pending /\ earlier' = earlier /\ (lost' <=> lost)
        BY <1>1, <1>3, ForgetKeepsOrder DEF StreamInv, TypeOK
  <2>2. PendingInv'
        BY <1>1, <2>1 DEF row, StreamInv, PendingInv, InOrder, IsLatest, Publishing
  <2>3. ASSUME NEW s \in Streams PROVE ProgressInv(s)' /\ StatusInv(s)'
        BY <1>1, <2>1 DEF row, streams, StreamInv, ProgressInv, StatusInv, InOrder, Subscribed,
                          Publishing
  <2>4. QED
        BY <1>2, <2>2, <2>3 DEF Knowledge, WriterInv
<1>4. CASE pending[w] # NoEvent
  <2>1. ~InOrder'
        BY <1>1, <1>4 DEF InOrder
  <2>2. ASSUME NEW s \in Streams PROVE ProgressInv(s)'
        BY <1>1 DEF streams, StreamInv, ProgressInv, Subscribed
  <2>3. QED
        BY <1>2, <2>1, <2>2 DEF Knowledge, WriterInv, PendingInv, StatusInv
<1>5. QED
      BY <1>3, <1>4

\* The event of w is the first of those unpublished; if it is the only one it
\* has the status of the row.
LEMMA PublishKeepsKnowledge ==
    ASSUME StreamInv, NEW w \in Workers, Publish(w)
    PROVE  Knowledge'
<1>1. /\ Forget(w) /\ w \in Publishing /\ pending[w] \in Events
      /\ UNCHANGED <<row, phase, lastProgress, shown, lost, canceled>>
      /\ overtaken' = (overtaken \/ earlier[w] # {})
      BY DEF Publish, Publishing, StreamInv, TypeOK
<1>2. /\ Publishing' = Publishing \ {w} /\ EarlierInv' /\ OrderInv'
      /\ \A v \in Workers \ {w} : pending'[v] = pending[v] /\ earlier'[v] = earlier[v] \ {w}
      BY <1>1, ForgetKeepsOrder
<1>3. InOrder' => InOrder /\ earlier[w] = {}
      BY <1>1 DEF InOrder
<1>4. PendingInv'
  <2> SUFFICES ASSUME InOrder', NEW v \in Workers, IsLatest(v)'
               PROVE  pending'[v].status = status'
      BY DEF PendingInv
  <2>1. v # w /\ v \in Publishing /\ w \in Publishing
        BY <1>1, <1>2 DEF IsLatest
  <2>2. w \in earlier[v]
        BY <1>3, <2>1 DEF StreamInv, OrderInv
  <2>3. IsLatest(v)
        BY <1>2, <2>1, <2>2 DEF IsLatest
  <2>4. QED
        BY <1>1, <1>2, <1>3, <2>1, <2>3 DEF row, StreamInv, PendingInv
<1>5. ASSUME NEW s \in Streams PROVE ProgressInv(s)'
      BY <1>1 DEF StreamInv, ProgressInv, Subscribed
<1>6. ASSUME NEW s \in Streams, Subscribed(s), InOrder', Publishing' = {} PROVE StatusInv(s)'
  <2>1. inbox'[s] = Append(inbox[s], pending[w])
        BY <1>6 DEF Publish
  <2>2. Last(inbox'[s]) = pending[w] /\ inbox'[s] # <<>>
        BY <1>1, <2>1, AppendProperties DEF Last, StreamInv, TypeOK
  <2>3. IsLatest(w)
        BY <1>1, <1>2, <1>6 DEF IsLatest
  <2>4. pending[w].status = status /\ status' = status
        BY <1>1, <1>3, <1>6, <2>3 DEF StreamInv, PendingInv, row
  <2>5. QED
        BY <2>2, <2>4 DEF StatusInv
<1>7. ASSUME NEW s \in Streams, ~(Subscribed(s) /\ InOrder' /\ Publishing' = {})
      PROVE  StatusInv(s)'
      BY <1>1, <1>7 DEF StatusInv, Subscribed
<1>8. QED
      BY <1>2, <1>4, <1>5, <1>6, <1>7 DEF Knowledge, WriterInv

LEMMA WriterKeepsKnowledge ==
    ASSUME StreamInv, NEW w \in Workers, Writer(w)
    PROVE  Knowledge'
<1>1. CASE Writes(w)
  <2>1. PICK st \in Statuses, p \in 0..Whole \cup {NoProgress} : Write(w, st, p)
        BY <1>1, WhatIsWritten DEF StreamInv
  <2>2. QED
        BY <2>1, WriteKeepsKnowledge
<1>2. CASE Take(w) \/ Discard(w) \/ Follow(w) \/ Retry(w) \/ Ack(w) \/ Redeliver(w)
  <2>1. UNCHANGED <<row, pending, earlier, streams, history>>
        BY <1>2 DEF Take, Discard, Follow, Retry, Ack, Redeliver, workers
  <2>2. EarlierInv' /\ OrderInv' /\ PendingInv'
        BY <2>1 DEF row, history, StreamInv, EarlierInv, OrderInv, PendingInv, InOrder, IsLatest,
                    Publishing
  <2>3. ASSUME NEW s \in Streams PROVE ProgressInv(s)' /\ StatusInv(s)'
        BY <2>1 DEF row, streams, history, StreamInv, ProgressInv, StatusInv, InOrder,
                    Subscribed, Publishing
  <2>4. QED
        BY <2>2, <2>3 DEF Knowledge, WriterInv
<1>3. CASE Abort(w) \/ Dies(w) \/ PublishFails(w)
      BY <1>3, LoseKeepsKnowledge DEF Abort, Dies, PublishFails
<1>4. CASE Publish(w)
      BY <1>4, PublishKeepsKnowledge
<1>5. QED
      BY <1>1, <1>2, <1>3, <1>4 DEF Writer, Writes

LEMMA CancelKeepsKnowledge ==
    ASSUME StreamInv, Cancel
    PROVE  Knowledge'
BY DEF Cancel, workers, streams, StreamInv, Knowledge, WriterInv, EarlierInv, OrderInv,
       PendingInv, InOrder, ProgressInv, StatusInv, Subscribed, Publishing

LEMMA OtherStreams ==
    ASSUME StreamInv, NEW s \in Streams, Reader(s), NEW t \in Streams \ {s}
    PROVE  ProgressInv(t)' /\ StatusInv(t)'
<1>1. /\ phase'[t] = phase[t] /\ inbox'[t] = inbox[t]
      /\ lastProgress'[t] = lastProgress[t] /\ shown'[t] = shown[t]
      BY DEF StreamInv, TypeOK, Reader, Proceed, Open, RedisFails, Subscribe, Receive, NoMessage,
             Poll, Deadline, Show, Goto
<1>2. UNCHANGED <<status, pending, history>>
      BY DEF Reader, Proceed, Open, RedisFails, Subscribe, Receive, NoMessage, Poll, Deadline,
             Unread, row, workers
<1>3. QED
      BY <1>1, <1>2 DEF history, StreamInv, ProgressInv, StatusInv, InOrder, Publishing,
                        Subscribed

LEMMA ReceiveKeepsKnowledge ==
    ASSUME StreamInv, NEW s \in Streams, Receive(s)
    PROVE  ProgressInv(s)' /\ StatusInv(s)'
<1> DEFINE event == Head(inbox[s])
<1>1. TypeOK /\ Subscribed(s) /\ inbox[s] # <<>> /\ UNCHANGED <<status, pending, history>>
      BY DEF StreamInv, Receive, Subscribed, Unread, row, workers
<1>2. event.progress \in 0..Whole \cup {NoProgress}
      BY <1>1, FirstEvent
<1>3. CASE Ends(event.status)
  <2>1. phase'[s] = "closed"
        BY <1>1, <1>3 DEF Receive, Goto, TypeOK
  <2>2. QED
        BY <2>1 DEF ProgressInv, StatusInv, Subscribed
<1>4. CASE ~Ends(event.status)
  <2>1. /\ phase' = phase /\ inbox'[s] = Tail(inbox[s])
        /\ lastProgress'[s] = IF event.progress = NoProgress THEN lastProgress[s] ELSE event.progress
        /\ shown'[s].status = event.status
        /\ shown'[s].progress = IF event.progress = NoProgress THEN shown[s].progress ELSE event.progress
        BY <1>1, <1>4 DEF Receive, Show, TypeOK
  <2>2. ProgressInv(s)'
        BY <1>1, <2>1 DEF ProgressInv, StreamInv, Subscribed
  <2>3. inbox'[s] # <<>> => Last(inbox'[s]) = Last(inbox[s])
    <3>1. /\ inbox[s] \in Seq(Events) /\ inbox'[s] \in Seq(Events)
          /\ Len(inbox'[s]) = Len(inbox[s]) - 1
          /\ \A i \in 1..Len(inbox'[s]) : inbox'[s][i] = inbox[s][i + 1]
          BY <1>1, <2>1, HeadTailProperties DEF TypeOK
    <3>2. inbox'[s] # <<>> => Len(inbox'[s]) \in 1..Len(inbox'[s])
          BY <3>1, EmptySeq
    <3>3. Len(inbox[s]) \in Nat
          BY <3>1, LenProperties
    <3>4. QED
          BY SMTT(20), <3>1, <3>2, <3>3 DEF Last
  <2>4. inbox'[s] = <<>> => Last(inbox[s]) = event
    <3>1. inbox[s] \in Seq(Events) /\ Len(Tail(inbox[s])) = Len(inbox[s]) - 1 /\ Len(<<>>) = 0
          BY <1>1, HeadTailProperties, EmptySeq DEF TypeOK
    <3>2. Head(inbox[s]) = inbox[s][1] /\ Len(inbox[s]) \in Nat
          BY <1>1, <3>1, LenProperties
    <3>3. inbox'[s] = <<>> => Len(inbox[s]) = 1
      <4>1. Len(<<>>) = 0
            BY EmptySeq
      <4>2. Tail(inbox[s]) = <<>> => Len(Tail(inbox[s])) = 0
            BY <4>1, Zenon
      <4>3. Len(Tail(inbox[s])) = 0 => Len(inbox[s]) = 1
            BY <3>1, <3>2
      <4>4. inbox'[s] = Tail(inbox[s])
            BY <2>1
      <4>5. QED
            BY <4>2, <4>3, <4>4, Zenon
    <3>4. QED
          BY <3>2, <3>3 DEF Last
  <2>5. StatusInv(s)'
        BY <1>1, <2>1, <2>3, <2>4 DEF history, StatusInv, InOrder, Publishing, StreamInv, Subscribed
  <2>6. QED
        BY <2>2, <2>5
<1>5. QED
      BY <1>3, <1>4

LEMMA ReaderKeepsKnowledge ==
    ASSUME StreamInv, NEW s \in Streams, Reader(s)
    PROVE  WriterInv' /\ ProgressInv(s)' /\ StatusInv(s)'
<1>1. /\ UNCHANGED <<status, progress, pending, earlier, lost, overtaken, canceled>>
      /\ Publishing' = Publishing /\ (InOrder' <=> InOrder)
      BY DEF Reader, Proceed, Open, RedisFails, Subscribe, Receive, NoMessage, Poll, Deadline,
             Unread, row, workers, history, Publishing, InOrder
<1>2. WriterInv'
      BY <1>1 DEF WriterInv, EarlierInv, OrderInv, PendingInv, IsLatest, StreamInv
<1>3. CASE Open(s) \/ RedisFails(s) \/ Deadline(s)
  <2>1. ~Subscribed(s)'
        BY <1>3 DEF Open, RedisFails, Deadline, Goto, Subscribed, StreamInv, TypeOK
  <2>2. QED
        BY <1>2, <2>1 DEF ProgressInv, StatusInv
<1>4. CASE Subscribe(s)
  <2>1. inbox'[s] = <<>> /\ lastProgress'[s] = NoProgress
        BY <1>4 DEF Subscribe, FirstProgress, Goto, StreamInv, TypeOK, Subscribed
  <2>2. QED
        BY <1>2, <2>1 DEF ProgressInv, StatusInv
<1>5. CASE Receive(s)
      BY <1>2, <1>5, ReceiveKeepsKnowledge
<1>6. CASE NoMessage(s)
  <2>1. Subscribed(s) /\ inbox'[s] = inbox[s] /\ UNCHANGED <<lastProgress, shown>>
        BY <1>6 DEF NoMessage, Goto, Subscribed, StreamInv, TypeOK
  <2>2. QED
        BY <1>1, <1>2, <2>1 DEF ProgressInv, StatusInv, StreamInv
<1>7. CASE Poll(s)
  <2>1. Subscribed(s)' => inbox'[s] = inbox[s]
        BY <1>7 DEF Poll, Goto, Subscribed, StreamInv, TypeOK
  <2>2. Subscribed(s)
        BY <1>7 DEF Poll, Subscribed
  <2>3. CASE IsNews(s)
    <3>1. /\ shown'[s].status = status /\ lastProgress'[s] = progress
          /\ shown'[s].progress = progress
          BY <1>7, <2>3, ConstantFacts DEF Poll, Show, StreamInv, TypeOK
    <3>2. QED
          BY <1>1, <1>2, <2>1, <2>2, <3>1 DEF ProgressInv, StatusInv, StreamInv
  <2>4. CASE ~IsNews(s)
        BY <1>1, <1>2, <1>7, <2>1, <2>2, <2>4 DEF Poll, ProgressInv, StatusInv, StreamInv
  <2>5. QED
        BY <2>3, <2>4
<1>8. QED
      BY <1>3, <1>4, <1>5, <1>6, <1>7 DEF Reader, Proceed

LEMMA StreamInvariant == Spec => []StreamInv
<1>1. Init => StreamInv
  <2>1. Init => WriterTypes
    <3>1. "queued" \in Statuses /\ 0 \in 0..Whole /\ 1 \in 1..MaxMessages /\ 1 \in 0..1
          BY ConstantFacts DEF Statuses
    <3>2. Idle \in {Idle} \cup 0..Over /\ NoEvent \in Events \cup {NoEvent}
          OBVIOUS
    <3>3. ASSUME Init PROVE at \in [Workers -> {Idle} \cup 0..Over]
          BY <3>2, <3>3 DEF Init
    <3>4. ASSUME Init PROVE /\ pending \in [Workers -> Events \cup {NoEvent}]
                            /\ earlier \in [Workers -> SUBSET Workers]
          BY <3>2, <3>4 DEF Init
    <3>5. QED
          BY <3>1, <3>3, <3>4 DEF Init, WriterTypes
  <2>2. Init => StreamTypes
    <3>1. "queued" \in Statuses /\ 0 \in 0..Whole /\ "off" \in Phases /\ <<>> \in Seq(Events)
          BY ConstantFacts, EmptySeq DEF Statuses, Phases
    <3>2. QED
          BY <3>1 DEF Init, StreamTypes, Subscribed
  <2>3. QED
        BY <2>1, <2>2, TypesSplit
        DEF Init, StreamInv, EarlierInv, OrderInv, PendingInv, IsLatest, Publishing, ProgressInv,
            StatusInv, Subscribed
<1>2. StreamInv /\ [Next]_vars => StreamInv'
  <2> SUFFICES ASSUME StreamInv, [Next]_vars PROVE StreamInv'
      OBVIOUS
  <2>1. ASSUME NEW w \in Workers, Writer(w) PROVE StreamInv'
        BY <2>1, WriterStep, WriterStreams, TypesSplit, WriterKeepsKnowledge
        DEF StreamInv, Knowledge, WriterInv
  <2>2. CASE Cancel
        BY <2>2, CancelStep, TypesSplit, CancelKeepsKnowledge DEF StreamInv, Knowledge, WriterInv
  <2>3. ASSUME NEW s \in Streams, Reader(s) PROVE StreamInv'
        BY <2>3, ReaderTypes, ReaderKeepsKnowledge, OtherStreams DEF StreamInv, WriterInv
  <2>4. CASE UNCHANGED vars
    <3>1. TypeOK'
          BY <2>4 DEF vars, row, broker, workers, streams, history, StreamInv, TypeOK, Subscribed
    <3>2. EarlierInv' /\ OrderInv' /\ PendingInv'
          BY <2>4 DEF vars, row, workers, history, StreamInv, EarlierInv, OrderInv, PendingInv,
                      InOrder, IsLatest, Publishing
    <3>3. ASSUME NEW s \in Streams PROVE ProgressInv(s)' /\ StatusInv(s)'
          BY <2>4 DEF vars, row, workers, streams, history, StreamInv, ProgressInv, StatusInv,
                      InOrder, Subscribed, Publishing
    <3>4. QED
          BY <3>1, <3>2, <3>3 DEF StreamInv
  <2>5. QED
        BY <2>1, <2>2, <2>3, <2>4 DEF Next, Reader
<1>3. QED
      BY <1>1, <1>2, PTL DEF Spec

\* The row, the workers and the streams keep their types: what is shown has a
\* status and a progress of the row's range, though events may carry none
\* (publish_job_event in db.py, job_events in routers/jobs.py).
THEOREM EventsTypeCorrect == Spec => []TypeOK
<1>1. StreamInv => TypeOK
      BY DEF StreamInv
<1>2. QED
      BY <1>1, StreamInvariant, PTL

LEMMA OnlyPollsLeavePolling ==
    ASSUME TypeOK, [Next]_vars, NEW s \in Streams, phase[s] = "polling", phase'[s] # "polling"
    PROVE  Poll(s)
<1>1. ASSUME NEW w \in Workers, Writer(w) PROVE FALSE
      BY <1>1 DEF Writer, Take, Discard, Begin, Report, Complete, Follow, Retry, MarkFailed, Ack,
                  Abort, Dies, Redeliver, Publish, PublishFails, Lose, Write, streams
<1>2. ASSUME NEW t \in Streams, t # s, Reader(t) PROVE FALSE
      BY <1>2 DEF TypeOK, Reader, Proceed, Open, RedisFails, Subscribe, Receive, NoMessage,
                  Poll, Deadline, Goto
<1>3. CASE Reader(s)
      BY <1>3 DEF Reader, Proceed, Open, RedisFails, Subscribe, Receive, NoMessage, Deadline
<1>4. CASE UNCHANGED vars
      BY <1>4 DEF vars, streams
<1>5. CASE Cancel
      BY <1>5 DEF Cancel, streams
<1>6. QED
      BY <1>1, <1>2, <1>3, <1>4, <1>5 DEF Next, Reader

\* After a poll the client has seen the progress that was read, whatever was
\* lost, canceled or started over (the comparison with last_progress in
\* job_events).
THEOREM PollsAlwaysBringProgress == Spec => PollsBringProgress
<1>1. StreamInv /\ [Next]_vars =>
          [\A s \in Streams : (phase[s] = "polling" /\ phase'[s] # "polling")
              => shown'[s].progress = progress]_vars
  <2> SUFFICES ASSUME StreamInv, [Next]_vars, NEW s \in Streams,
                      phase[s] = "polling", phase'[s] # "polling"
               PROVE  shown'[s].progress = progress
      OBVIOUS
  <2>1. Poll(s) /\ Subscribed(s)
        BY OnlyPollsLeavePolling DEF StreamInv, Subscribed
  <2>2. CASE IsNews(s)
        BY <2>1, <2>2, ConstantFacts DEF Poll, Show, StreamInv, TypeOK
  <2>3. CASE ~IsNews(s)
        BY <2>1, <2>3, ConstantFacts DEF Poll, IsNews, StreamInv, TypeOK, ProgressInv
  <2>4. QED
        BY <2>2, <2>3
<1>2. QED
      BY <1>1, StreamInvariant, PTL DEF Spec, PollsBringProgress

\* A stream that ends over the row without having shown an outcome missed it
\* because a publication was lost, the job was canceled, two workers published
\* in another order than they wrote, or the event was still on its way: not
\* because it subscribed late (job_events).
THEOREM FollowersAlwaysSeeTheEnd == Spec => FollowersSeeTheEnd
<1>1. StreamInv /\ [Next]_vars =>
          [\A s \in Streams :
              (phase[s] = "polling" /\ phase'[s] = "closed" /\ shown'[s].status \notin Terminal)
                  => lost \/ canceled \/ overtaken \/ Publishing # {} \/ inbox[s] # <<>>]_vars
  <2> SUFFICES ASSUME StreamInv, [Next]_vars, NEW s \in Streams,
                      phase[s] = "polling", phase'[s] = "closed",
                      InOrder, Publishing = {}, inbox[s] = <<>>
               PROVE  shown'[s].status \in Terminal
      BY DEF InOrder
  <2>1. Poll(s) /\ Subscribed(s)
        BY OnlyPollsLeavePolling DEF StreamInv, Subscribed
  <2>2. status \in Terminal
        BY <2>1 DEF Poll, Goto, Ends, StreamInv, TypeOK
  <2>3. CASE IsNews(s)
        BY <2>1, <2>2, <2>3 DEF Poll, Show, StreamInv, TypeOK
  <2>4. CASE ~IsNews(s)
    <3>1. lastProgress[s] # NoProgress /\ shown' = shown
          BY <2>1, <2>4, ConstantFacts DEF Poll, IsNews, StreamInv, TypeOK
    <3>2. QED
          BY <2>1, <2>2, <3>1 DEF StreamInv, StatusInv
  <2>5. QED
        BY <2>3, <2>4
<1>2. QED
      BY <1>1, StreamInvariant, PTL DEF Spec, FollowersSeeTheEnd

=============================================================================
