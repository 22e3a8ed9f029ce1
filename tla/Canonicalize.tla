----------------------------- MODULE Canonicalize -----------------------------
(***************************************************************************)
(* Entity resolution: canonicalize_concepts of tasks/canonicalize_graph.py *)
(* run for several books at once.  A task reads its book's concepts from   *)
(* Neo4j, upserts the embeddings of their labels into a Qdrant collection  *)
(* all books share, asks it for the neighbours of each concept, and links  *)
(* the pairs it has found with SAME_AS.                                    *)
(*                                                                         *)
(* There is no lock between tasks.  They interleave, fail, are retried and *)
(* delivered again, and books go on being ingested meanwhile, which may    *)
(* change the label of a concept two books share.                          *)
(***************************************************************************)
EXTENDS Integers, FiniteSets

CONSTANTS
    Concepts,     \* canonical keys
    Books,
    LabelIn,      \* LabelIn[b][c]: the label book b gives concept c, or NoLabel
    Labels, NoLabel,
    Near,         \* pairs of labels above SAME_AS_THRESHOLD, in both orders
    Tasks,        \* deliveries, on any worker
    BookOf,       \* BookOf[t]: the book_id of the task t
    Limit,        \* hits of a query
    BatchSize,    \* points in one upsert
    MaxRetries    \* retries of the embedding

IsNear(x, y) == x = y \/ <<x, y>> \in Near

ASSUME CanonicalizeAssumption ==
    /\ IsFiniteSet(Concepts) /\ NoLabel \notin Labels
    /\ LabelIn \in [Books -> [Concepts -> Labels \cup {NoLabel}]]
    /\ Near \subseteq Labels \X Labels
    /\ \A p \in Near : <<p[2], p[1]>> \in Near
    /\ BookOf \in [Tasks -> Books]
    /\ Limit \in Nat \ {0} /\ BatchSize \in Nat \ {0} /\ MaxRetries \in Nat

VARIABLES
    ingested,   \* books whose graph has been built
    label,      \* label[c] in Neo4j; NoLabel where there is no such concept
    vectors,    \* vectors[c] in concept_labels, given by its label; NoLabel where none
    sameAs,     \* the SAME_AS relationships, with their direction
    pc, retries,
    read,       \* read[t]: the label of each concept as the task has read it
    todo,       \* concepts still to upsert, then to query
    found       \* pairs still to link, in the direction they were found

neo4j == <<ingested, label, sameAs>>
local == <<pc, retries, read, todo, found>>
vars == <<neo4j, vectors, local>>

Phases == {"idle", "fetch", "embed", "upsert", "query", "link", "done", "failed"}
Running == Phases \ {"idle", "done", "failed"}
Nothing == [c \in Concepts |-> NoLabel]
Labelled(ls) == {c \in Concepts : ls[c] # NoLabel}

TypeOK ==
    /\ ingested \subseteq Books
    /\ label \in [Concepts -> Labels \cup {NoLabel}]
    /\ vectors \in [Concepts -> Labels \cup {NoLabel}]
    /\ Labelled(vectors) \subseteq Labelled(label)
    /\ sameAs \subseteq Concepts \X Concepts
    /\ pc \in [Tasks -> Phases]
    /\ retries \in [Tasks -> 0..MaxRetries]
    /\ read \in [Tasks -> [Concepts -> Labels \cup {NoLabel}]]
    /\ \A t \in Tasks : todo[t] \subseteq Labelled(read[t])
    /\ \A t \in Tasks : found[t] \subseteq Labelled(read[t]) \X Concepts

Init ==
    /\ ingested = {} /\ label = Nothing /\ vectors = Nothing /\ sameAs = {}
    /\ pc = [t \in Tasks |-> "idle"]
    /\ retries = [t \in Tasks |-> 0]
    /\ read = [t \in Tasks |-> Nothing]
    /\ todo = [t \in Tasks |-> {}]
    /\ found = [t \in Tasks |-> {}]

\* The graph of book b is built: its labels overwrite those that are there.
Ingest(b) ==
    /\ b \notin ingested
    /\ ingested' = ingested \cup {b}
    /\ label' = [c \in Concepts |->
                    IF LabelIn[b][c] = NoLabel THEN label[c] ELSE LabelIn[b][c]]
    /\ UNCHANGED <<vectors, sameAs, local>>

-----------------------------------------------------------------------------
(***************************************************************************)
(* One task.                                                               *)
(***************************************************************************)
ConceptsOf(b) == Labelled(LabelIn[b])

\* The message is delivered, for the first time or again.
Deliver(t) ==
    /\ pc[t] = "idle" /\ BookOf[t] \in ingested
    /\ pc' = [pc EXCEPT ![t] = "fetch"]
    /\ UNCHANGED <<neo4j, vectors, retries, read, todo, found>>

Fetch(t) ==
    LET mine == [c \in Concepts |-> IF c \in ConceptsOf(BookOf[t]) THEN label[c] ELSE NoLabel]
    IN  /\ pc[t] = "fetch"
        /\ read' = [read EXCEPT ![t] = mine]
        /\ pc' = [pc EXCEPT ![t] = IF mine = Nothing THEN "done" ELSE "embed"]
        /\ UNCHANGED <<neo4j, vectors, retries, todo, found>>

Embed(t) ==
    /\ pc[t] = "embed"
    /\ todo' = [todo EXCEPT ![t] = Labelled(read[t])]
    /\ pc' = [pc EXCEPT ![t] = "upsert"]
    /\ UNCHANGED <<neo4j, vectors, retries, read, found>>

\* self.retry: another delivery, which starts over.
EmbedFails(t) ==
    /\ pc[t] = "embed" /\ retries[t] < MaxRetries
    /\ retries' = [retries EXCEPT ![t] = @ + 1]
    /\ pc' = [pc EXCEPT ![t] = "idle"]
    /\ UNCHANGED <<neo4j, vectors, read, todo, found>>

\* A batch of the task's points, in the order the concepts were read in.
UpsertBatch(t) ==
    /\ pc[t] = "upsert" /\ todo[t] # {}
    /\ \E batch \in SUBSET todo[t] :
          /\ Cardinality(batch) = IF Cardinality(todo[t]) < BatchSize
                                  THEN Cardinality(todo[t]) ELSE BatchSize
          /\ vectors' = [c \in Concepts |-> IF c \in batch THEN read[t][c] ELSE vectors[c]]
          /\ todo' = [todo EXCEPT ![t] = @ \ batch]
    /\ UNCHANGED <<neo4j, pc, retries, read, found>>

\* Faulty forms: concepts that have a link already are passed over, and the
\* whole collection is gone through.
UnlinkedOf(t) ==
    {c \in Labelled(read[t]) : \A d \in Concepts : {<<c, d>>, <<d, c>>} \cap sameAs = {}}
WholeCollection(t) == Labelled(vectors)

ToQuery(t) == Labelled(read[t])

UpsertsDone(t) ==
    /\ pc[t] = "upsert" /\ todo[t] = {}
    /\ pc' = [pc EXCEPT ![t] = "query"]
    /\ todo' = [todo EXCEPT ![t] = ToQuery(t)]
    /\ UNCHANGED <<neo4j, vectors, retries, read, found>>

\* A faulty form: the threshold is not applied to the hits.
AnyHits(t, c) == {d \in Concepts : vectors[d] # NoLabel}

\* The stored concepts that are near the embedding of c; c is one of them.
NearHits(t, c) == {d \in Concepts : vectors[d] # NoLabel /\ IsNear(vectors[d], read[t][c])}

\* query_points returns the nearest, so those above the threshold before all
\* others; where there are more of them than it returns, any of them.
Query(t, c) ==
    /\ pc[t] = "query" /\ c \in todo[t]
    /\ \E hits \in SUBSET NearHits(t, c) :
          /\ Cardinality(hits) = IF Cardinality(NearHits(t, c)) < Limit
                                 THEN Cardinality(NearHits(t, c)) ELSE Limit
          /\ found' = [found EXCEPT ![t] = @ \cup
                {<<c, d>> : d \in {e \in hits \ {c} : <<e, c>> \notin found[t]}}]
    /\ todo' = [todo EXCEPT ![t] = @ \ {c}]
    /\ UNCHANGED <<neo4j, vectors, pc, retries, read>>

QueriesDone(t) ==
    /\ pc[t] = "query" /\ todo[t] = {}
    /\ pc' = [pc EXCEPT ![t] = "link"]
    /\ UNCHANGED <<neo4j, vectors, retries, read, todo, found>>

\* MATCH both concepts, MERGE the relationship.
Link(t, pair) ==
    /\ pc[t] = "link" /\ pair \in found[t]
    /\ sameAs' = IF {pair[1], pair[2]} \subseteq Labelled(label)
                 THEN sameAs \cup {pair} ELSE sameAs
    /\ found' = [found EXCEPT ![t] = @ \ {pair}]
    /\ UNCHANGED <<ingested, label, vectors, pc, retries, read, todo>>

Finish(t) ==
    /\ pc[t] = "link" /\ found[t] = {}
    /\ pc' = [pc EXCEPT ![t] = "done"]
    /\ UNCHANGED <<neo4j, vectors, retries, read, todo, found>>

Forget(t) ==
    /\ read' = [read EXCEPT ![t] = Nothing]
    /\ todo' = [todo EXCEPT ![t] = {}]
    /\ found' = [found EXCEPT ![t] = {}]

\* The worker dies: the message has not been acknowledged, and comes again.
Crash(t) ==
    /\ pc[t] \in Running
    /\ pc' = [pc EXCEPT ![t] = "idle"]
    /\ Forget(t)
    /\ UNCHANGED <<neo4j, vectors, retries>>

\* Any other error, the time limit, the last failed embedding.
Fail(t) ==
    /\ pc[t] \in Running
    /\ pc' = [pc EXCEPT ![t] = "failed"]
    /\ Forget(t)
    /\ UNCHANGED <<neo4j, vectors, retries>>

Step(t) ==
    \/ Deliver(t) \/ Fetch(t) \/ Embed(t) \/ EmbedFails(t)
    \/ UpsertBatch(t) \/ UpsertsDone(t)
    \/ \E c \in Concepts : Query(t, c)
    \/ QueriesDone(t)
    \/ \E pair \in found[t] : Link(t, pair)
    \/ Finish(t) \/ Crash(t) \/ Fail(t)

Next == (\E b \in Books : Ingest(b)) \/ \E t \in Tasks : Step(t)

Spec == Init /\ [][Next]_vars

-----------------------------------------------------------------------------
(***************************************************************************)
(* Properties.                                                             *)
(***************************************************************************)
Resolved(b) == \E t \in Tasks : BookOf[t] = b /\ pc[t] = "done"

LabelsOf(c) == {LabelIn[b][c] : b \in ingested} \ {NoLabel}

\* No more concepts can come near to c than a query returns.
Uncrowded(c) ==
    Cardinality({d \in Concepts : \E x \in LabelsOf(c), y \in LabelsOf(d) : IsNear(x, y)}) <= Limit

\* Once each book with one of two concepts has had a task that went through,
\* the concepts are linked if their labels are near: whoever upserts later
\* sees the other one's vector, whatever fails or is delivered again.  Asked
\* of concepts whose books agree on their label; and of uncrowded ones, as
\* limit=6 leaves out further neighbours (canonicalize_graph.py:210).
NearConceptsLinked ==
    \A c, d \in Concepts :
        /\ c # d
        /\ Cardinality(LabelsOf(c)) = 1 /\ Cardinality(LabelsOf(d)) = 1
        /\ IsNear(label[c], label[d])
        /\ Uncrowded(c) /\ Uncrowded(d)
        /\ \A b \in ingested : {c, d} \cap ConceptsOf(b) # {} => Resolved(b)
        => <<c, d>> \in sameAs \/ <<d, c>> \in sameAs

\* No concept is linked to itself, and none to a concept that no book has
\* given a label near to one of its own, stale vectors notwithstanding.
LinksAreJustified ==
    \A p \in sameAs :
        /\ p[1] # p[2]
        /\ \E x \in LabelsOf(p[1]), y \in LabelsOf(p[2]) : IsNear(x, y)

=============================================================================
