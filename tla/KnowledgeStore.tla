---------------------------- MODULE KnowledgeStore ----------------------------
(***************************************************************************)
(* What pipeline runs over pre-extracted books write: points to Qdrant,    *)
(* chunk rows and knowledge units to Postgres, concepts, relations and     *)
(* process steps to Neo4j (_run_pre_extracted in ingestion_pipeline.py,    *)
(* unit_extractor.py, graph_builder.py, qdrant_client.py, db.py).          *)
(*                                                                         *)
(* The three stores share no transaction.  A run is one attempt at a job;  *)
(* retried, redelivered and repeated jobs are further runs over the same   *)
(* book, and runs may overlap.  A run stops anywhere, and nothing it has   *)
(* written is undone.                                                      *)
(***************************************************************************)
EXTENDS Integers, Sequences, FiniteSets, SequencesExt

CONSTANTS
    Books, Runs,
    Chunks,       \* text hashes
    ChunksOf,     \* ChunksOf[b]: the chunks of b's document, in order
    BatchSize,    \* points in one upsert
    Findings,     \* what the model may find in a chunk
    Extractions,  \* Extractions[c]: the answers the model may give for chunk c
    Keys, NoKey,  \* canonical keys of concepts, and the lack of one
    Labels,       \* domain labels
    NoBook,
    MaxSteps, NoText,
    BuildGraph    \* config.build_graph

Kinds == {"claim", "definition", "process"}

\* An answer is a sequence of findings that passed validation: claims have
\* subject and object, processes their steps; other kinds may lack a subject.
ASSUME StoreAssumption ==
    /\ IsFiniteSet(Runs)
    /\ NoKey \notin Keys /\ NoBook \notin Books
    /\ ChunksOf \in [Books -> Seq(Chunks)]
    /\ BatchSize \in Nat \ {0} /\ MaxSteps \in Nat
    /\ \A f \in Findings :
          /\ f.kind \in Kinds /\ f.subject \in Keys \cup {NoKey}
          /\ f.domain \in Labels \cup {"Concept"}
          /\ f.kind = "claim" => f.subject \in Keys /\ f.object \in Keys
          /\ f.kind = "process" => /\ Len(f.steps) \in 0..MaxSteps
                                   /\ DOMAIN f.steps = 1..Len(f.steps)
    /\ Extractions \in [Chunks -> SUBSET Seq(Findings)]
    /\ BuildGraph \in BOOLEAN

VARIABLES
    pc, book,      \* each run: how far it has come, and its book
    done,          \* chunks of the document its current stage is through with
    found,         \* the units it has extracted
    groups,        \* the graph batches it has still to write
    \* Qdrant
    collection,    \* "missing", "bare" (without payload indexes), "indexed"
    points,
    \* Postgres
    rows, units,
    \* Neo4j
    labels,        \* labels[k]: the labels of the concept with key k; {} if there is none
    bookIds,       \* bookIds[k]: the books it is recorded for
    relations,     \* the ids of the units that have their relation
    steps          \* steps[k][i]: text of the i-th step of the process of subject k

runVars   == <<pc, book, done, found, groups>>
qdrant    == <<collection, points>>
postgres  == <<rows, units>>
neo4j     == <<labels, bookIds, relations, steps>>
vars == <<runVars, qdrant, postgres, neo4j>>

\* A unit as _to_db_dict makes it: its id is new, whatever it says; here it
\* is the run that made it and its place among that run's units.
UnitIds == Runs \X Nat
Unit(r, n, b, c, f) == [id |-> <<r, n>>, book |-> b, chunk |-> c, finding |-> f]

Phases == {"idle", "collection", "create", "index", "upsert", "rows", "extract",
           "insert", "graph", "done", "failed"}
Running == Phases \ {"idle", "done", "failed"}

IsUnit(u) ==
    /\ u.id \in UnitIds /\ u.book \in Books /\ u.chunk \in Chunks
    /\ u.finding \in Findings

TypeOK ==
    /\ pc \in [Runs -> Phases]
    /\ book \in [Runs -> Books \cup {NoBook}]
    /\ done \in [Runs -> Nat]
    /\ \A r \in Runs : \A u \in found[r] : IsUnit(u)
    /\ \A r \in Runs : \A g \in groups[r] : g \subseteq found[r] /\ g # {}
    /\ collection \in {"missing", "bare", "indexed"}
    /\ points \subseteq Books \X Chunks /\ rows \subseteq Books \X Chunks
    /\ \A u \in units : IsUnit(u)
    /\ labels \in [Keys -> SUBSET (Labels \cup {"Concept"})]
    /\ bookIds \in [Keys -> SUBSET Books]
    /\ relations \subseteq UnitIds
    /\ DOMAIN steps = Keys

Init ==
    /\ pc = [r \in Runs |-> "idle"]
    /\ book = [r \in Runs |-> NoBook]
    /\ done = [r \in Runs |-> 0]
    /\ found = [r \in Runs |-> {}]
    /\ groups = [r \in Runs |-> {}]
    /\ collection = "missing"
    /\ points = {} /\ rows = {} /\ units = {}
    /\ labels = [k \in Keys |-> {}]
    /\ bookIds = [k \in Keys |-> {}]
    /\ relations = {}
    /\ steps = [k \in Keys |-> [i \in 1..MaxSteps |-> NoText]]

-----------------------------------------------------------------------------
(***************************************************************************)
(* A run, up to its units.                                                 *)
(***************************************************************************)
Document(r) == ChunksOf[book[r]]

Goto(r, next) ==
    /\ pc' = [pc EXCEPT ![r] = next]
    /\ done' = [done EXCEPT ![r] = 0]

\* A point is named by its book and the hash of its text.
Point(r, c) == <<book[r], c>>

Start(r, b) ==
    /\ pc[r] = "idle"
    /\ book' = [book EXCEPT ![r] = b]
    /\ Goto(r, "collection")
    /\ UNCHANGED <<found, groups, qdrant, postgres, neo4j>>

\* ensure_collection: it looks whether the collection exists ...
CheckCollection(r) ==
    /\ pc[r] = "collection"
    /\ Goto(r, IF collection = "missing" THEN "create" ELSE "upsert")
    /\ UNCHANGED <<book, found, groups, qdrant, postgres, neo4j>>

\* ... creates it, which fails if someone else has done so meanwhile ...
CreateCollection(r) ==
    /\ pc[r] = "create"
    /\ IF collection = "missing"
       THEN collection' = "bare" /\ Goto(r, "index")
       ELSE UNCHANGED collection /\ Goto(r, "failed")
    /\ UNCHANGED <<book, found, groups, points, postgres, neo4j>>

\* ... and adds the payload indexes.
CreateIndexes(r) ==
    /\ pc[r] = "index"
    /\ collection' = "indexed"
    /\ Goto(r, "upsert")
    /\ UNCHANGED <<book, found, groups, points, postgres, neo4j>>

\* A faulty form: the range of the batches stops short of the last chunk.
BatchesEndShort(r) == Len(Document(r)) - 1

BatchesEnd(r) == Len(Document(r))

\* upsert_points: the next batch.
UpsertBatch(r) ==
    /\ pc[r] = "upsert" /\ done[r] < BatchesEnd(r)
    /\ LET last  == IF done[r] + BatchSize <= Len(Document(r))
                    THEN done[r] + BatchSize ELSE Len(Document(r))
           batch == SubSeq(Document(r), done[r] + 1, last)
       IN  /\ points' = points \cup {Point(r, c) : c \in ToSet(batch)}
           /\ done' = [done EXCEPT ![r] = last]
    /\ UNCHANGED <<pc, book, found, groups, collection, postgres, neo4j>>

UpsertsDone(r) ==
    /\ pc[r] = "upsert" /\ done[r] >= BatchesEnd(r)
    /\ Goto(r, "rows")
    /\ UNCHANGED <<book, found, groups, qdrant, postgres, neo4j>>

PointsOf(r) == {Point(r, c) : c \in ToSet(Document(r))}

\* insert_chunks: all rows in one transaction; those that exist are kept.
InsertChunks(r) ==
    /\ pc[r] = "rows"
    /\ rows' = rows \cup PointsOf(r)
    /\ Goto(r, "extract")
    /\ UNCHANGED <<book, found, groups, qdrant, units, neo4j>>

\* extract_units_for_chunk on the next chunk: a call that fails, or an answer
\* that cannot be read, yields nothing.
ExtractUnits(r) ==
    /\ pc[r] = "extract" /\ done[r] < Len(Document(r))
    /\ LET c == Document(r)[done[r] + 1]
           n == Cardinality(found[r])
       IN  \E answer \in Extractions[c] \cup {<<>>} :
             found' = [found EXCEPT ![r] = @ \cup
                 {Unit(r, n + i, book[r], c, answer[i]) : i \in DOMAIN answer}]
    /\ done' = [done EXCEPT ![r] = @ + 1]
    /\ UNCHANGED <<pc, book, groups, qdrant, postgres, neo4j>>

ExtractionDone(r) ==
    /\ pc[r] = "extract" /\ done[r] = Len(Document(r))
    /\ Goto(r, "insert")
    /\ UNCHANGED <<book, found, groups, qdrant, postgres, neo4j>>

-----------------------------------------------------------------------------
(***************************************************************************)
(* build_graph_for_units.  Units are grouped by what cannot be a parameter *)
(* in Cypher; each group is one statement, and claims come before          *)
(* definitions, definitions before processes.  Which group of a kind comes *)
(* first is left open.                                                     *)
(***************************************************************************)
InGraph(u) == u.finding.subject # NoKey

\* A faulty form: units of different domains share a statement.
SameGroupAnyDomain(u, v) ==
    LET f == u.finding  g == v.finding
    IN  /\ f.kind = g.kind /\ f.lang = g.lang
        /\ f.kind = "claim" => f.relType = g.relType

SameGroup(u, v) ==
    LET f == u.finding  g == v.finding
    IN  /\ f.kind = g.kind /\ f.domain = g.domain /\ f.lang = g.lang
        /\ f.kind = "claim" => f.relType = g.relType

\* A faulty form: units without a canonical key are not left out.
GroupsOfAll(us) == {{v \in us : InGraph(v) /\ SameGroup(u, v)} : u \in us}

Groups(us) == {{v \in us : InGraph(v) /\ SameGroup(u, v)} : u \in {w \in us : InGraph(w)}}

Kind(g) == (CHOOSE u \in g : TRUE).finding.kind
Domain(g) == (CHOOSE u \in g : TRUE).finding.domain
Rank(kind) == CASE kind = "claim" -> 1 [] kind = "definition" -> 2 [] kind = "process" -> 3

\* A faulty form: a unit found before is not inserted, but goes to the graph.
NewUnitsOnly(r) ==
    {u \in found[r] : \A v \in units : v.chunk # u.chunk \/ v.finding # u.finding}

NewUnits(r) == found[r]

\* insert_knowledge_units: all units in one transaction.
InsertUnits(r) ==
    /\ pc[r] = "insert"
    /\ units' = units \cup NewUnits(r)
    /\ groups' = [groups EXCEPT ![r] = IF BuildGraph THEN Groups(found[r]) ELSE {}]
    /\ Goto(r, "graph")
    /\ UNCHANGED <<book, found, qdrant, rows, neo4j>>

Subjects(g) == {u.finding.subject : u \in g}
Objects(g)  == IF Kind(g) = "claim" THEN {u.finding.object : u \in g} ELSE {}

Exists(k) == labels[k] # {}

\* MERGE looks for a concept with the key and the label.  If there is none it
\* creates one, which the unique constraint on canonical_key refuses when a
\* concept with that key exists.
Mergeable(g) == \A k \in Subjects(g) : Exists(k) => Domain(g) \in labels[k]

\* A statement runs clause by clause: the subjects of all its units first,
\* which the objects then match if they have the same key.
MergedLabels(g) ==
    [k \in Keys |->
        IF k \in Subjects(g) THEN labels[k] \cup {"Concept", Domain(g)}
        ELSE IF k \in Objects(g) THEN labels[k] \cup {"Concept"}
        ELSE labels[k]]

\* The steps of the processes in g; of two units with one subject the later
\* one overwrites the steps they both have, and leaves the others.
\* A faulty form: the range of the steps stops short of the last one.
WritesStepBefore(u, i) == i < Len(u.finding.steps)

WritesStep(u, i) == i <= Len(u.finding.steps)

LastOf(us) == CHOOSE u \in us : \A v \in us : v.id[2] <= u.id[2]

Writers(g, k, i) == {u \in g : u.finding.subject = k /\ WritesStep(u, i)}

StepTexts(g) ==
    [k \in Keys |-> [i \in 1..MaxSteps |->
        IF Writers(g, k, i) = {} THEN steps[k][i]
        ELSE LastOf(Writers(g, k, i)).finding.steps[i]]]

ComesNext(r, g) == \A h \in groups[r] : Rank(Kind(g)) <= Rank(Kind(h))

WriteGroup(r, g) ==
    /\ pc[r] = "graph" /\ ComesNext(r, g) /\ Mergeable(g)
    /\ labels' = MergedLabels(g)
    /\ bookIds' = [k \in Keys |->
                      IF k \in Subjects(g) \cup Objects(g)
                      THEN bookIds[k] \cup {book[r]} ELSE bookIds[k]]
    /\ relations' = IF Kind(g) = "definition" THEN relations
                    ELSE relations \cup {u.id : u \in g}
    /\ steps' = IF Kind(g) = "process" THEN StepTexts(g) ELSE steps
    /\ groups' = [groups EXCEPT ![r] = @ \ {g}]
    /\ UNCHANGED <<pc, book, done, found, qdrant, postgres>>

\* A refused statement ends the run.
RefuseGroup(r, g) ==
    /\ pc[r] = "graph" /\ ComesNext(r, g) /\ ~Mergeable(g)
    /\ Goto(r, "failed")
    /\ UNCHANGED <<book, found, groups, qdrant, postgres, neo4j>>

Finish(r) ==
    /\ pc[r] = "graph" /\ groups[r] = {}
    /\ Goto(r, "done")
    /\ UNCHANGED <<book, found, groups, qdrant, postgres, neo4j>>

\* A store or the embedding service fails, or the worker dies.
Fail(r) ==
    /\ pc[r] \in Running
    /\ Goto(r, "failed")
    /\ UNCHANGED <<book, found, groups, qdrant, postgres, neo4j>>

Step(r) ==
    \/ CheckCollection(r) \/ CreateCollection(r) \/ CreateIndexes(r)
    \/ UpsertBatch(r) \/ UpsertsDone(r) \/ InsertChunks(r)
    \/ ExtractUnits(r) \/ ExtractionDone(r) \/ InsertUnits(r)
    \/ \E g \in groups[r] : WriteGroup(r, g) \/ RefuseGroup(r, g)
    \/ Finish(r)

Next == \E r \in Runs : Step(r) \/ Fail(r) \/ \E b \in Books : Start(r, b)

Spec == Init /\ [][Next]_vars

-----------------------------------------------------------------------------
(***************************************************************************)
(* Properties.                                                             *)
(***************************************************************************)
HasRow(u) == <<u.book, u.chunk>> \in rows

Ends(u) == {u.finding.subject} \cup (IF u.finding.kind = "claim" THEN {u.finding.object} ELSE {})

\* From a relation of the graph one comes back to the text it was read in,
\* however runs fail and overlap: its unit is in Postgres, the unit's chunk
\* has its row, the row its point, and the concepts the unit is about record
\* its book.  (chunk_id_map and unit_id; "the evidence trail" of
\* ingestion_pipeline.py.)
EvidenceTrail ==
    /\ \A id \in relations : \E u \in units :
          /\ u.id = id
          /\ \A k \in Ends(u) : Exists(k) /\ u.book \in bookIds[k]
    /\ \A u \in units : HasRow(u)
    /\ rows \subseteq points
    /\ points # {} => collection # "missing"

\* A run that says it is done has left everything it found in all three
\* stores, whatever other runs over this and other books have done: points,
\* rows, units, their relations, and each subject under its domain label.
CompletedRunIsStored ==
    \A r \in Runs : pc[r] = "done" =>
        /\ PointsOf(r) \subseteq points \cap rows
        /\ found[r] \subseteq units
        /\ BuildGraph => \A u \in found[r] : InGraph(u) =>
              /\ {"Concept", u.finding.domain} \subseteq labels[u.finding.subject]
              /\ u.finding.kind # "definition" => u.id \in relations

\* The steps of a process are one unit's whole list of steps, as long as the
\* units that describe the process agree on it.  (Step nodes are named by the
\* process and the place only, graph_builder.py:435.)
ProcessOf(k) ==
    {u \in units : u.finding.kind = "process" /\ u.finding.subject = k /\ u.id \in relations}

AgreedProcessIsWhole ==
    \A k \in Keys : \A u \in ProcessOf(k) :
        (\A v \in ProcessOf(k) : v.finding.steps = u.finding.steps)
            => \A i \in 1..MaxSteps :
                  steps[k][i] = IF i \in DOMAIN u.finding.steps THEN u.finding.steps[i] ELSE NoText

\* A run that repeats another one adds nothing: no unit is inserted that says
\* what a unit of another run says of the same chunk.  jobs.py:191 says so of
\* retries: "Each pipeline stage is idempotent so partial work is safely
\* re-runnable."  It fails: unit ids are random (unit_extractor.py:212).
RerunsAddNothing ==
    \A u, v \in units :
        (u.chunk = v.chunk /\ u.book = v.book /\ u.finding = v.finding) => u.id[1] = v.id[1]

=============================================================================
