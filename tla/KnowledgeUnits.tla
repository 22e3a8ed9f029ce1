---------------------------- MODULE KnowledgeUnits ----------------------------
(***************************************************************************)
(* The table knowledge_units between those who use it at the same time: a  *)
(* worker that inserts the units of a run, editors who change them one by  *)
(* one or in bulk, and a reader who pages through the review queue         *)
(* (routers/knowledge_units.py, knowledge_unit_repository.py and           *)
(* insert_knowledge_units in the worker's db.py).                          *)
(*                                                                         *)
(* Requests are transactions of Postgres in read committed: a read takes   *)
(* no lock, an update locks its row until the end of the transaction, and  *)
(* of transactions that wait on each other one is rolled back.             *)
(***************************************************************************)
EXTENDS Integers, Sequences, FiniteSets, SequencesExt

CONSTANTS
    Units, Inserts,
    UnitsOf,        \* UnitsOf[i]: the units of the transaction i
    Extracted,      \* Extracted[u]: the fields of u as they are inserted
    Values,         \* of a field
    Editors,
    Requests,       \* what an editor may ask for: sequences of [unit, patch]
    Filters,        \* statuses a reader may list, and AnyStatus
    AnyStatus,
    Limit,          \* units on a page
    MaxTime         \* bound on the clock, in ticks of created_at

Fields == {"status", "subject"}
Contents == [Fields -> Values]
Patches == UNION {[names -> Values] : names \in SUBSET Fields}

ASSUME UnitsAssumption ==
    /\ IsFiniteSet(Units) /\ IsFiniteSet(Editors)
    /\ UnitsOf \in [Inserts -> SUBSET Units]
    /\ \A i, k \in Inserts : i # k => UnitsOf[i] \cap UnitsOf[k] = {}
    /\ Extracted \in [Units -> Contents]
    /\ \A r \in Requests : r \in Seq([unit : Units, patch : Patches]) /\ r # <<>>
    /\ AnyStatus \in Filters /\ AnyStatus \notin Values
    /\ Limit \in Nat \ {0} /\ MaxTime \in Nat \ {0}

VARIABLES
    now,
    began,      \* began[i]: when the transaction i began; 0 if it has not
    stored,     \* units that are in the table
    fields,     \* fields[u], as committed
    created,    \* created[u]: created_at
    edits,      \* unit_edits, in the order of their commits
    \* An editor's request
    phase, request, at,
    loaded,     \* what its session has loaded of each unit, or <<>>
    version,    \* version[e][u]: u as the request has written it, not yet
                \* committed, or <<>>; the row is locked as long as there is one
    records,    \* its edits, not yet committed
    \* A reader
    listing,    \* "off", "on" or "over"
    filter, cursor,
    pages,      \* the units shown, in order
    steady      \* units that have matched ever since the first page

table   == <<stored, fields, created, edits>>
inserts == <<now, began>>
editing == <<phase, request, at, loaded, version, records>>
reading == <<listing, filter, cursor, pages, steady>>
vars == <<table, inserts, editing, reading>>

Times == 1..MaxTime
NoCursor == MaxTime + 1     \* all units were created before it

Matching(us, f) ==
    {u \in us : filter = AnyStatus \/ f[u].status = filter}

Edit == [unit : Units, before : Contents, after : Patches]

TypeOK ==
    /\ now \in Times /\ began \in [Inserts -> {0} \cup Times]
    /\ stored \subseteq Units
    /\ fields \in [Units -> Contents]
    /\ created \in [Units -> {0} \cup Times]
    /\ \A u \in stored : created[u] # 0
    /\ edits \in Seq(Edit) /\ \A d \in ToSet(edits) : d.unit \in stored
    /\ phase \in [Editors -> {"idle", "read", "write", "done", "failed"}]
    /\ request \in [Editors -> Requests \cup {<<>>}]
    /\ at \in [Editors -> Nat \ {0}]
    /\ \A e \in Editors : phase[e] = "write" => at[e] \in DOMAIN request[e]
    /\ loaded \in [Editors -> [Units -> {<<>>} \cup Contents]]
    /\ version \in [Editors -> [Units -> {<<>>} \cup Contents]]
    /\ records \in [Editors -> Seq(Edit)]
    /\ listing \in {"off", "on", "over"}
    /\ filter \in Filters /\ cursor \in Times \cup {NoCursor}
    /\ pages \in Seq(Units) /\ ToSet(pages) \subseteq stored
    /\ steady \subseteq stored

Init ==
    /\ now = 1 /\ began = [i \in Inserts |-> 0]
    /\ stored = {} /\ fields = Extracted /\ created = [u \in Units |-> 0]
    /\ edits = <<>>
    /\ phase = [e \in Editors |-> "idle"]
    /\ request = [e \in Editors |-> <<>>]
    /\ at = [e \in Editors |-> 1]
    /\ loaded = [e \in Editors |-> [u \in Units |-> <<>>]]
    /\ version = [e \in Editors |-> [u \in Units |-> <<>>]]
    /\ records = [e \in Editors |-> <<>>]
    /\ listing = "off" /\ filter = AnyStatus /\ cursor = NoCursor
    /\ pages = <<>> /\ steady = {}

-----------------------------------------------------------------------------
(***************************************************************************)
(* The worker.                                                             *)
(***************************************************************************)
Tick ==
    /\ now < MaxTime
    /\ now' = now + 1
    /\ UNCHANGED <<began, table, editing, reading>>

BeginInsert(i) ==
    /\ began[i] = 0
    /\ began' = [began EXCEPT ![i] = now]
    /\ UNCHANGED <<now, table, editing, reading>>

\* executemany is one transaction, and created_at the time it began.
CommitInsert(i) ==
    /\ began[i] # 0 /\ UnitsOf[i] \cap stored = {}
    /\ stored' = stored \cup UnitsOf[i]
    /\ created' = [u \in Units |-> IF u \in UnitsOf[i] THEN began[i] ELSE created[u]]
    /\ UNCHANGED <<fields, edits, inserts, editing, reading>>

-----------------------------------------------------------------------------
(***************************************************************************)
(* Editors: update_knowledge_unit asks for one update,                     *)
(* bulk_update_knowledge_units for one per unit, in the request's order.   *)
(***************************************************************************)
Current(e) == request[e][at[e]]

Ask(e, r) ==
    /\ phase[e] = "idle"
    /\ request' = [request EXCEPT ![e] = r]
    /\ phase' = [phase EXCEPT ![e] = "read"]
    /\ UNCHANGED <<table, inserts, at, loaded, version, records, reading>>

\* A faulty form: a unit that is not found is not noticed.
FoundAlways(u) == TRUE

Found(u) == u \in stored

\* get_by_id: a unit the session has loaded before keeps the values it has
\* there; a unit that is not found is passed over.
ReadUnit(e) ==
    /\ phase[e] = "read" /\ at[e] \in DOMAIN request[e]
    /\ LET u == Current(e).unit
       IN  IF Found(u)
           THEN /\ loaded' = [loaded EXCEPT ![e][u] = IF @ = <<>> THEN fields[u] ELSE @]
                /\ phase' = [phase EXCEPT ![e] = "write"]
                /\ UNCHANGED at
           ELSE at' = [at EXCEPT ![e] = @ + 1] /\ UNCHANGED <<loaded, phase>>
    /\ UNCHANGED <<table, inserts, request, version, records, reading>>

Locked(e, u) == version[e][u] # <<>>

\* The update of e waits for the transaction of f to end.
Waits(e, f) == phase[e] = "write" /\ e # f /\ Locked(f, Current(e).unit)

\* A faulty form: all of the patch is written.
AllPatched(e) == DOMAIN Current(e).patch

\* The session writes the fields whose values differ from those it has loaded.
\* (It always writes updated_at, so there is an update, and a lock.)
Changed(e) ==
    {f \in DOMAIN Current(e).patch : Current(e).patch[f] # loaded[e][Current(e).unit][f]}

Overwrite(c, patch, names) == [f \in Fields |-> IF f \in names THEN patch[f] ELSE c[f]]

\* A faulty form: the image is taken after the fields have been set.
BeforeTooLate(e) ==
    Overwrite(loaded[e][Current(e).unit], Current(e).patch, DOMAIN Current(e).patch)

Before(e) == loaded[e][Current(e).unit]

\* setattr, the UnitEdit and the flush.  The update applies to the row as it
\* is by then, whatever was loaded.
WriteUnit(e) ==
    /\ phase[e] = "write"
    /\ \A f \in Editors : ~Waits(e, f)
    /\ LET u     == Current(e).unit
           patch == Current(e).patch
           base  == IF Locked(e, u) THEN version[e][u] ELSE fields[u]
       IN  /\ version' = [version EXCEPT ![e][u] = Overwrite(base, patch, Changed(e))]
           /\ records' = [records EXCEPT ![e] =
                  Append(@, [unit |-> u, before |-> Before(e), after |-> patch])]
           /\ loaded' = [loaded EXCEPT ![e][u] = Overwrite(@, patch, DOMAIN patch)]
    /\ at' = [at EXCEPT ![e] = @ + 1]
    /\ phase' = [phase EXCEPT ![e] = "read"]
    /\ UNCHANGED <<table, inserts, request, reading>>

EndSession(e, outcome) ==
    /\ phase' = [phase EXCEPT ![e] = outcome]
    /\ loaded' = [loaded EXCEPT ![e] = [u \in Units |-> <<>>]]
    /\ version' = [version EXCEPT ![e] = [u \in Units |-> <<>>]]
    /\ records' = [records EXCEPT ![e] = <<>>]
    /\ at' = [at EXCEPT ![e] = 1]
    /\ UNCHANGED request

CommitEdits(e) ==
    /\ phase[e] = "read" /\ at[e] > Len(request[e])
    /\ fields' = [u \in Units |-> IF Locked(e, u) THEN version[e][u] ELSE fields[u]]
    /\ edits' = edits \o records[e]
    /\ steady' = steady \cap Matching(stored, fields')
    /\ EndSession(e, "done")
    /\ UNCHANGED <<stored, created, inserts, listing, filter, cursor, pages>>

\* An error, or a client that is gone: the session rolls back.
Rollback(e) ==
    /\ phase[e] \in {"read", "write"}
    /\ EndSession(e, "failed")
    /\ UNCHANGED <<table, inserts, reading>>

\* Of editors that wait on each other, the database picks a victim.
Deadlocked(e) == \E f \in Editors : Waits(e, f) /\ Waits(f, e)

BreakDeadlock(e) == Deadlocked(e) /\ Rollback(e)

-----------------------------------------------------------------------------
(***************************************************************************)
(* The reader.                                                             *)
(***************************************************************************)
\* A faulty form: the units created at the cursor count as not yet shown.
NotYetShownOrLast(u) == created[u] <= cursor

NotYetShown(u) == created[u] < cursor

\* What list_for_book may return of us: the newest ones, those of one time in
\* any order.
Newest(us, n) ==
    {page \in UNION {[1..k -> us] : k \in 0..n} :
        /\ IsInjective(page)
        /\ Len(page) = IF Cardinality(us) < n THEN Cardinality(us) ELSE n
        /\ \A i, k \in 1..Len(page) : i < k => created[page[i]] >= created[page[k]]
        /\ \A u \in us \ ToSet(page), v \in ToSet(page) : created[v] >= created[u]}

OpenList(f) ==
    /\ listing = "off"
    /\ listing' = "on" /\ filter' = f
    /\ steady' = {u \in stored : f = AnyStatus \/ fields[u].status = f}
    /\ UNCHANGED <<table, inserts, editing, cursor, pages>>

\* A faulty form: the next page begins after the unit that was read ahead.
LastRead(us) == us[Len(us)]

LastShown(us) == us[Limit]

\* list_knowledge_units: it reads one unit more than it shows, to see whether
\* there is another page.
ReadPage ==
    /\ listing = "on"
    /\ \E us \in Newest({u \in Matching(stored, fields) : NotYetShown(u)}, Limit + 1) :
          IF Len(us) > Limit
          THEN /\ pages' = pages \o SubSeq(us, 1, Limit)
               /\ cursor' = created[LastShown(us)]
               /\ UNCHANGED listing
          ELSE /\ pages' = pages \o us
               /\ listing' = "over"
               /\ UNCHANGED cursor
    /\ UNCHANGED <<table, inserts, editing, filter, steady>>

-----------------------------------------------------------------------------
EditorStep(e) == ReadUnit(e) \/ WriteUnit(e) \/ CommitEdits(e) \/ BreakDeadlock(e)

Next ==
    \/ Tick
    \/ \E i \in Inserts : BeginInsert(i) \/ CommitInsert(i)
    \/ \E e \in Editors : EditorStep(e) \/ Rollback(e) \/ \E r \in Requests : Ask(e, r)
    \/ (\E f \in Filters : OpenList(f)) \/ ReadPage

Spec == Init /\ [][Next]_vars

-----------------------------------------------------------------------------
(***************************************************************************)
(* Properties.                                                             *)
(***************************************************************************)
\* The edit d found another value in the field f of u.
Changes(d, u, f) == d.unit = u /\ f \in DOMAIN d.after /\ d.after[f] # d.before[f]

\* What the edits of a trail make of a field that has the value v at first.
Becomes(trail, u, f, v, value) ==
    \/ value = v /\ \A n \in DOMAIN trail : ~Changes(trail[n], u, f)
    \/ \E n \in DOMAIN trail :
          /\ Changes(trail[n], u, f) /\ value = trail[n].after[f]
          /\ \A k \in DOMAIN trail : k > n => ~Changes(trail[k], u, f)

\* A field has the value that was set by the last edit, in the order of their
\* commits, which found another one: editors who overtake each other do not
\* undo what they did not see.
LastChangeStands ==
    \A u \in Units, f \in Fields : Becomes(edits, u, f, Extracted[u][f], fields[u][f])

\* When a field changes, the audit trail holds the value it had and the one
\* it gets, though images before an edit may be stale.  (docs/USER_STORIES.md:
\* 306, "Previous values preserved in unit_edits (full audit trail)".)
Recorded(trail, u, f, v) ==
    \E d \in ToSet(trail) :
        d.unit = u /\ (d.before[f] = v \/ (f \in DOMAIN d.after /\ d.after[f] = v))

PreviousValuesKept ==
    [][\A u \in stored, f \in Fields : fields'[u][f] # fields[u][f] =>
          \A v \in {fields[u][f], fields'[u][f]} : Recorded(edits', u, f, v)]_vars

\* Paging shows no unit twice, and when it is over it has shown every unit
\* that matched all the while, unless it was created together with a unit
\* that was shown; whatever is inserted, changed or committed late meanwhile.
ListingIsSound ==
    /\ IsInjective(pages)
    /\ listing = "over" => \A u \in steady \ ToSet(pages) :
          \E v \in ToSet(pages) : created[v] = created[u]

=============================================================================
