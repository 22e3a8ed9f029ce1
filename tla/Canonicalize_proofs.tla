------------------------ MODULE Canonicalize_proofs ------------------------
(***************************************************************************)
(* Theorems about Canonicalize, for all values of its constants: any       *)
(* number of tasks over any books, failing and delivered again anywhere.   *)
(***************************************************************************)
EXTENDS Canonicalize, FiniteSetTheorems, TLAPS

\* The type invariant, made inductive: what a task has left to do is forgotten
\* when it starts over, and what has a label keeps one.
TaskInv(t) ==
    /\ pc[t] \in {"idle", "fetch", "embed"} => todo[t] = {} /\ found[t] = {}
    /\ Labelled(read[t]) \subseteq Labelled(label)

TypeInv ==
    /\ TypeOK
    /\ DOMAIN todo = Tasks /\ DOMAIN found = Tasks
    /\ IsFiniteSet(ingested)
    /\ \A t \in Tasks : TaskInv(t)

\* Every label anywhere is one that an ingested book gives, and no concept of
\* an ingested book is without.
IsGiven(c, x) == x # NoLabel => x \in LabelsOf(c)

LabelInv ==
    \A c \in Concepts :
        /\ IsGiven(c, label[c]) /\ IsGiven(c, vectors[c])
        /\ \A t \in Tasks : IsGiven(c, read[t][c])
        /\ LabelsOf(c) # {} => label[c] # NoLabel

\* A pair for which some labels of its concepts are near.
Justified(p) ==
    /\ p[1] # p[2]
    /\ \E x \in LabelsOf(p[1]), y \in LabelsOf(p[2]) : IsNear(x, y)

PairInv ==
    /\ \A p \in sameAs : Justified(p)
    /\ \A t \in Tasks : \A p \in found[t] : Justified(p)

\* A task that goes through reads all its book's concepts, and what it is
\* through with it has upserted.
Has(t, c) == c \in Labelled(read[t])

ProgressInv(t) ==
    /\ pc[t] \in Running \cup {"done"} => BookOf[t] \in ingested
    /\ pc[t] \in (Running \cup {"done"}) \ {"fetch"} => Labelled(read[t]) = ConceptsOf(BookOf[t])
    /\ \A c \in Labelled(read[t]) :
          pc[t] \in {"query", "link", "done"} \/ (pc[t] = "upsert" /\ c \notin todo[t])
              => vectors[c] # NoLabel
    /\ pc[t] = "done" => found[t] = {}

\* The task t has asked for the neighbours of c.
Queried(t, c) ==
    /\ Has(t, c)
    /\ pc[t] \in {"link", "done"} \/ (pc[t] = "query" /\ c \notin todo[t])

\* Concepts that must be found near to each other.
MustLink(c, d) ==
    /\ c # d
    /\ \E x, y \in Labels : LabelsOf(c) = {x} /\ LabelsOf(d) = {y} /\ IsNear(x, y)
    /\ Uncrowded(c) /\ Uncrowded(d)

Pair(c, d) == {<<c, d>>, <<d, c>>}

\* Once two tasks have asked, one for each of two such concepts, the concepts
\* are linked or one of the two tasks is to link them.
LinkInv ==
    \A c, d \in Concepts : \A t, u \in Tasks :
        Queried(t, c) /\ Queried(u, d) /\ MustLink(c, d)
            => Pair(c, d) \cap (sameAs \cup found[t] \cup found[u]) # {}

CanonInv ==
    /\ TypeInv /\ LabelInv /\ PairInv
    /\ \A t \in Tasks : ProgressInv(t)
    /\ LinkInv

-----------------------------------------------------------------------------
(***************************************************************************)
(* Types.                                                                  *)
(***************************************************************************)
LEMMA ConstantFacts ==
    /\ IsFiniteSet(Concepts) /\ NoLabel \notin Labels
    /\ LabelIn \in [Books -> [Concepts -> Labels \cup {NoLabel}]]
    /\ \A x, y \in Labels : IsNear(x, y) => IsNear(y, x)
    /\ BookOf \in [Tasks -> Books]
    /\ Limit \in Nat \ {0} /\ BatchSize \in Nat \ {0} /\ MaxRetries \in Nat
BY CanonicalizeAssumption DEF IsNear

LEMMA NothingLabelled == Labelled(Nothing) = {} /\ Nothing \in [Concepts -> Labels \cup {NoLabel}]
BY DEF Labelled, Nothing

LEMMA TypeInitially == Init => TypeInv
BY ConstantFacts, NothingLabelled, FS_EmptySet DEF Init, TypeInv, TypeOK, TaskInv, Phases

\* A step of the task t that changes no store and reads nothing.
LEMMA ControlTypes ==
    ASSUME TypeInv, NEW t \in Tasks, NEW next \in Phases,
           pc' = [pc EXCEPT ![t] = next], UNCHANGED <<neo4j, vectors, retries, read>>,
           DOMAIN todo' = Tasks, DOMAIN found' = Tasks,
           \A u \in Tasks \ {t} : todo'[u] = todo[u] /\ found'[u] = found[u],
           todo'[t] \subseteq Labelled(read[t]),
           found'[t] \subseteq Labelled(read[t]) \X Concepts,
           next \in {"idle", "fetch", "embed"} => todo'[t] = {} /\ found'[t] = {}
    PROVE  TypeInv'
<1>1. TypeOK'
  <2>1. pc' \in [Tasks -> Phases]
        BY DEF TypeInv, TypeOK
  <2>2. \A u \in Tasks : /\ todo'[u] \subseteq Labelled(read[u])
                         /\ found'[u] \subseteq Labelled(read[u]) \X Concepts
        BY DEF TypeInv, TypeOK
  <2>3. QED
        BY <2>1, <2>2 DEF TypeInv, TypeOK, neo4j
<1>2. \A u \in Tasks : TaskInv(u)'
      BY DEF TypeInv, TypeOK, TaskInv, neo4j, Labelled
<1>3. QED
      BY <1>1, <1>2 DEF TypeInv, neo4j

LEMMA TypeStep ==
    ASSUME TypeInv, [Next]_vars
    PROVE  TypeInv'
<1> USE DEF neo4j, Running, Phases
<1>0. TypeOK /\ \A t \in Tasks : TaskInv(t)
      BY DEF TypeInv
<1>1. ASSUME NEW b \in Books, Ingest(b) PROVE TypeInv'
  <2>1. label' \in [Concepts -> Labels \cup {NoLabel}] /\ Labelled(label) \subseteq Labelled(label')
        BY <1>1, ConstantFacts DEF Ingest, TypeInv, TypeOK, Labelled
  <2>2. IsFiniteSet(ingested')
        BY <1>1, FS_AddElement DEF Ingest, TypeInv
  <2>3. TypeOK'
        BY <1>1, <2>1 DEF Ingest, TypeInv, TypeOK, local, Labelled
  <2>4. \A t \in Tasks : TaskInv(t)'
        BY <1>1, <2>1 DEF Ingest, TypeInv, TaskInv, local, Labelled
  <2>5. QED
        BY <1>1, <2>2, <2>3, <2>4 DEF Ingest, TypeInv, local
<1>2. ASSUME NEW t \in Tasks, Deliver(t) PROVE TypeInv'
      BY <1>0, <1>2, ControlTypes DEF Deliver, TypeInv, TypeOK, TaskInv
<1>3. ASSUME NEW t \in Tasks, Fetch(t) PROVE TypeInv'
  <2> DEFINE mine == [c \in Concepts |-> IF c \in ConceptsOf(BookOf[t]) THEN label[c] ELSE NoLabel]
  <2>1. /\ mine \in [Concepts -> Labels \cup {NoLabel}] /\ Labelled(mine) \subseteq Labelled(label)
        /\ read' = [read EXCEPT ![t] = mine] /\ pc' \in [Tasks -> Phases]
        /\ pc'[t] \in {"embed", "done"} /\ pc[t] = "fetch"
        BY <1>0, <1>3 DEF Fetch, TypeOK, Labelled
  <2>2. todo[t] = {} /\ found[t] = {}
        BY <1>0, <2>1 DEF TaskInv
  <2>3. \A u \in Tasks \ {t} : read'[u] = read[u] /\ pc'[u] = pc[u]
        BY <1>0, <1>3 DEF Fetch, TypeOK
  <2>4. TypeOK'
        BY <1>0, <1>3, <2>1, <2>2, <2>3 DEF Fetch, TypeOK
  <2>5. ASSUME NEW u \in Tasks PROVE TaskInv(u)'
        BY <1>0, <1>3, <2>1, <2>2, <2>3 DEF Fetch, TypeOK, TaskInv
  <2>6. QED
        BY <1>3, <2>4, <2>5 DEF Fetch, TypeInv
<1>4. ASSUME NEW t \in Tasks, Embed(t) PROVE TypeInv'
      BY <1>0, <1>4, ControlTypes DEF Embed, TypeInv, TypeOK, TaskInv
<1>5. ASSUME NEW t \in Tasks, EmbedFails(t) PROVE TypeInv'
  <2>1. retries' \in [Tasks -> 0..MaxRetries]
        BY <1>0, <1>5, ConstantFacts DEF EmbedFails, TypeOK
  <2>2. TypeOK'
        BY <1>0, <1>5, <2>1 DEF EmbedFails, TypeOK
  <2>3. \A u \in Tasks : TaskInv(u)'
        BY <1>0, <1>5 DEF EmbedFails, TypeOK, TaskInv
  <2>4. QED
        BY <1>5, <2>2, <2>3 DEF EmbedFails, TypeInv
<1>6. ASSUME NEW t \in Tasks, UpsertBatch(t) PROVE TypeInv'
  <2>1. PICK batch \in SUBSET todo[t] :
            /\ vectors' = [c \in Concepts |-> IF c \in batch THEN read[t][c] ELSE vectors[c]]
            /\ todo' = [todo EXCEPT ![t] = @ \ batch]
        BY <1>6 DEF UpsertBatch
  <2>2. vectors' \in [Concepts -> Labels \cup {NoLabel}]
        BY <1>0, <2>1 DEF TypeOK
  <2>3. Labelled(vectors') \subseteq Labelled(label)
        BY <1>0, <2>1 DEF TypeOK, TaskInv, Labelled
  <2>4. TypeOK'
        BY <1>0, <1>6, <2>1, <2>2, <2>3 DEF UpsertBatch, TypeOK, TypeInv
  <2>5. \A u \in Tasks : TaskInv(u)'
        BY <1>0, <1>6, <2>1 DEF UpsertBatch, TaskInv, TypeInv
  <2>6. QED
        BY <1>6, <2>1, <2>4, <2>5 DEF UpsertBatch, TypeInv
<1>7. ASSUME NEW t \in Tasks, UpsertsDone(t) PROVE TypeInv'
      BY <1>0, <1>7, ControlTypes DEF UpsertsDone, ToQuery, TypeInv, TypeOK
<1>8. ASSUME NEW t \in Tasks, NEW c \in Concepts, Query(t, c) PROVE TypeInv'
  <2>1. PICK hits \in SUBSET NearHits(t, c) :
            found' = [found EXCEPT ![t] = @ \cup
                {<<c, d>> : d \in {e \in hits \ {c} : <<e, c>> \notin found[t]}}]
        BY <1>8 DEF Query
  <2>2. hits \subseteq Concepts /\ c \in Labelled(read[t]) /\ pc[t] = "query"
        BY <1>0, <1>8 DEF NearHits, Query, TypeOK
  <2>3. found'[t] \subseteq Labelled(read[t]) \X Concepts
    <3>1. found'[t] = found[t] \cup {<<c, d>> : d \in {e \in hits \ {c} : <<e, c>> \notin found[t]}}
          BY <2>1 DEF TypeInv
    <3>2. found[t] \subseteq Labelled(read[t]) \X Concepts
          BY <1>0 DEF TypeOK
    <3>3. \A d \in hits : <<c, d>> \in Labelled(read[t]) \X Concepts
          BY <2>2
    <3>4. QED
          BY <3>1, <3>2, <3>3
  <2>4. TypeOK'
        BY <1>0, <1>8, <2>1, <2>3 DEF Query, TypeOK, TypeInv
  <2>5. \A u \in Tasks : TaskInv(u)'
        BY <1>0, <1>8, <2>1, <2>2 DEF Query, TaskInv, TypeInv
  <2>6. QED
        BY <1>8, <2>1, <2>4, <2>5 DEF Query, TypeInv
<1>9. ASSUME NEW t \in Tasks, QueriesDone(t) PROVE TypeInv'
      BY <1>0, <1>9, ControlTypes DEF QueriesDone, TypeInv, TypeOK
<1>10. ASSUME NEW t \in Tasks, NEW pair \in found[t], Link(t, pair) PROVE TypeInv'
  <2>1. sameAs' \subseteq Concepts \X Concepts
        BY <1>0, <1>10 DEF Link, TypeOK, Labelled
  <2>2. TypeOK'
        BY <1>0, <1>10, <2>1 DEF Link, TypeOK, TypeInv
  <2>3. \A u \in Tasks : TaskInv(u)'
        BY <1>0, <1>10 DEF Link, TaskInv, TypeInv
  <2>4. QED
        BY <1>10, <2>2, <2>3 DEF Link, TypeInv
<1>11. ASSUME NEW t \in Tasks, Finish(t) PROVE TypeInv'
      BY <1>0, <1>11, ControlTypes DEF Finish, TypeInv, TypeOK
<1>12. ASSUME NEW t \in Tasks, Crash(t) \/ Fail(t) PROVE TypeInv'
  <2>1. /\ read'[t] = Nothing /\ todo'[t] = {} /\ found'[t] = {}
        /\ read' \in [Tasks -> [Concepts -> Labels \cup {NoLabel}]] /\ pc' \in [Tasks -> Phases]
        /\ DOMAIN todo' = Tasks /\ DOMAIN found' = Tasks
        /\ UNCHANGED <<neo4j, vectors, retries>>
    <3>1. Forget(t) /\ UNCHANGED <<neo4j, vectors, retries>>
          /\ (pc' = [pc EXCEPT ![t] = "idle"] \/ pc' = [pc EXCEPT ![t] = "failed"])
          BY <1>12 DEF Crash, Fail
    <3>2. read' \in [Tasks -> [Concepts -> Labels \cup {NoLabel}]] /\ read'[t] = Nothing
          BY <1>0, <3>1, NothingLabelled DEF Forget, TypeOK
    <3>3. /\ todo'[t] = {} /\ found'[t] = {}
          /\ DOMAIN todo' = Tasks /\ DOMAIN found' = Tasks
          BY <3>1 DEF Forget, TypeInv
    <3>4. QED
          BY <1>0, <3>1, <3>2, <3>3 DEF TypeOK
  <2>2. \A u \in Tasks \ {t} : /\ read'[u] = read[u] /\ todo'[u] = todo[u]
                               /\ found'[u] = found[u] /\ pc'[u] = pc[u]
        BY <1>0, <1>12 DEF Crash, Fail, Forget, TypeInv, TypeOK
  <2>3. TypeOK'
        BY <1>0, <2>1, <2>2, NothingLabelled DEF TypeOK
  <2>4. \A u \in Tasks : TaskInv(u)'
        BY <1>0, <2>1, <2>2, NothingLabelled DEF TaskInv
  <2>5. QED
        BY <2>1, <2>3, <2>4 DEF TypeInv
<1>13. CASE UNCHANGED vars
      BY <1>13 DEF vars, local, TypeInv, TypeOK, TaskInv, Labelled
<1>14. QED
      BY <1>1, <1>2, <1>3, <1>4, <1>5, <1>6, <1>7, <1>8, <1>9, <1>10, <1>11, <1>12, <1>13
      DEF Next, Step

-----------------------------------------------------------------------------
(***************************************************************************)
(* Labels and pairs.  Ingestion only adds labels, so what was near stays   *)
(* so.                                                                     *)
(***************************************************************************)
LEMMA LabelsGrow ==
    ASSUME [Next]_vars, NEW c
    PROVE  ingested \subseteq ingested' /\ LabelsOf(c) \subseteq LabelsOf(c)'
<1>1. ingested \subseteq ingested'
      BY DEF Next, Step, vars, neo4j, Ingest, Deliver, Fetch, Embed, EmbedFails, UpsertBatch,
             UpsertsDone, Query, QueriesDone, Link, Finish, Crash, Fail
<1>2. QED
      BY <1>1 DEF LabelsOf

LEMMA LabelStep ==
    ASSUME TypeInv, LabelInv, [Next]_vars
    PROVE  LabelInv'
<1> USE DEF neo4j
<1>0. \A c, x : IsGiven(c, x) => IsGiven(c, x)'
      BY LabelsGrow DEF IsGiven
<1>1. ASSUME NEW b \in Books, Ingest(b) PROVE LabelInv'
  <2>1. ASSUME NEW c \in Concepts, label'[c] # NoLabel PROVE label'[c] \in LabelsOf(c)'
    <3>1. CASE LabelIn[b][c] = NoLabel
      <4>1. label'[c] = label[c] /\ IsGiven(c, label[c])
            BY <1>1, <3>1 DEF Ingest, LabelInv
      <4>2. QED
            BY <2>1, <4>1, LabelsGrow DEF IsGiven
    <3>2. CASE LabelIn[b][c] # NoLabel
      <4>1. label'[c] = LabelIn[b][c] /\ b \in ingested'
            BY <1>1, <2>1, <3>2 DEF Ingest
      <4>2. QED
            BY <3>2, <4>1 DEF LabelsOf
    <3>3. QED
          BY <3>1, <3>2
  <2>2. ASSUME NEW c \in Concepts, LabelsOf(c)' # {} PROVE label'[c] # NoLabel
    <3>1. CASE LabelIn[b][c] = NoLabel
      <4>1. LabelsOf(c)' = LabelsOf(c)
            BY <1>1, <3>1 DEF Ingest, LabelsOf
      <4>2. QED
            BY <1>1, <2>2, <3>1, <4>1 DEF Ingest, LabelInv
    <3>2. CASE LabelIn[b][c] # NoLabel
          BY <1>1, <3>2 DEF Ingest
    <3>3. QED
          BY <3>1, <3>2
  <2>3. UNCHANGED <<vectors, read>>
        BY <1>1 DEF Ingest, local
  <2>4. ASSUME NEW c \in Concepts
        PROVE  IsGiven(c, vectors[c])' /\ \A t \in Tasks : IsGiven(c, read[t][c])'
        BY <1>0, <2>3 DEF LabelInv, IsGiven
  <2>5. QED
        BY <2>1, <2>2, <2>4 DEF LabelInv, IsGiven
<1>2. ASSUME UNCHANGED <<ingested, label>>,
             \A c \in Concepts : /\ IsGiven(c, vectors'[c])
                                 /\ \A t \in Tasks : IsGiven(c, read'[t][c])
      PROVE  LabelInv'
      BY <1>2 DEF LabelInv, LabelsOf, IsGiven
<1>3. ASSUME UNCHANGED <<ingested, label, vectors, read>> PROVE LabelInv'
      BY <1>3 DEF LabelInv, LabelsOf, IsGiven
<1>4. ASSUME NEW t \in Tasks, Fetch(t) PROVE LabelInv'
  <2>1. ASSUME NEW u \in Tasks, NEW c \in Concepts PROVE IsGiven(c, read'[u][c])
    <3>1. u # t => read'[u] = read[u]
          BY <1>4 DEF Fetch, TypeInv, TypeOK
    <3>2. read'[t][c] \in {label[c], NoLabel}
          BY <1>4 DEF Fetch, TypeInv, TypeOK
    <3>3. QED
          BY <3>1, <3>2 DEF LabelInv, IsGiven
  <2>2. UNCHANGED <<ingested, label, vectors>>
        BY <1>4 DEF Fetch
  <2>3. QED
        BY <1>2, <2>1, <2>2 DEF LabelInv
<1>5. ASSUME NEW t \in Tasks, UpsertBatch(t) PROVE LabelInv'
  <2>1. UNCHANGED <<ingested, label, read>>
        BY <1>5 DEF UpsertBatch
  <2>2. \A c \in Concepts : vectors'[c] \in {vectors[c], read[t][c]}
        BY <1>5 DEF UpsertBatch
  <2>3. QED
        BY <1>2, <2>1, <2>2 DEF LabelInv
<1>6. ASSUME NEW t \in Tasks, Crash(t) \/ Fail(t) PROVE LabelInv'
  <2>1. UNCHANGED <<ingested, label, vectors>> /\ read' = [read EXCEPT ![t] = Nothing]
        BY <1>6 DEF Crash, Fail, Forget
  <2>2. \A u \in Tasks : \A c \in Concepts : read'[u][c] \in {read[u][c], NoLabel}
        BY <2>1 DEF TypeInv, TypeOK, Nothing
  <2>3. QED
        BY <1>2, <2>1, <2>2 DEF LabelInv, IsGiven
<1>7. ASSUME NEW t \in Tasks, Deliver(t) \/ Embed(t) \/ EmbedFails(t) \/ UpsertsDone(t)
      PROVE  LabelInv'
      BY <1>3, <1>7 DEF Deliver, Embed, EmbedFails, UpsertsDone
<1>8. ASSUME NEW t \in Tasks, NEW c \in Concepts, Query(t, c) PROVE LabelInv'
      BY <1>3, <1>8 DEF Query
<1>9. ASSUME NEW t \in Tasks, NEW pair \in found[t], Link(t, pair) PROVE LabelInv'
      BY <1>3, <1>9 DEF Link
<1>10. ASSUME NEW t \in Tasks, QueriesDone(t) \/ Finish(t) PROVE LabelInv'
      BY <1>3, <1>10 DEF QueriesDone, Finish
<1>11. CASE UNCHANGED vars
      BY <1>3, <1>11 DEF vars, local
<1>12. QED
      BY <1>1, <1>4, <1>5, <1>6, <1>7, <1>8, <1>9, <1>10, <1>11 DEF Next, Step

\* A hit of a query has a label near to one of the concept's.
LEMMA HitsAreJustified ==
    ASSUME TypeInv, LabelInv, NEW t \in Tasks, NEW c \in Labelled(read[t]),
           NEW d \in NearHits(t, c), d # c
    PROVE  Justified(<<c, d>>)
<1>1. c \in Concepts /\ d \in Concepts
      BY DEF Labelled, NearHits
<1>2. read[t][c] \in LabelsOf(c) /\ vectors[d] \in LabelsOf(d)
      BY <1>1 DEF LabelInv, IsGiven, Labelled, NearHits
<1>3. IsNear(vectors[d], read[t][c])
      BY DEF NearHits
<1>4. IsNear(read[t][c], vectors[d])
  <2>1. read[t][c] \in Labels /\ vectors[d] \in Labels
        BY <1>1 DEF TypeInv, TypeOK, Labelled, NearHits
  <2>2. QED
        BY <1>3, <2>1, ConstantFacts
<1>5. QED
      BY <1>2, <1>4 DEF Justified

LEMMA PairStep ==
    ASSUME TypeInv, LabelInv, PairInv, [Next]_vars
    PROVE  PairInv'
<1> USE DEF neo4j
<1>0. \A p : Justified(p) => Justified(p)'
      BY LabelsGrow DEF Justified
<1>1. ASSUME sameAs' \subseteq sameAs \cup UNION {found[t] : t \in Tasks},
             \A t \in Tasks : found'[t] \subseteq found[t]
      PROVE  PairInv'
      BY <1>0, <1>1 DEF PairInv
<1>2. ASSUME NEW b \in Books, Ingest(b) PROVE PairInv'
      BY <1>1, <1>2 DEF Ingest, local
<1>3. ASSUME NEW t \in Tasks, Deliver(t) \/ Fetch(t) \/ Embed(t) \/ EmbedFails(t) \/ UpsertBatch(t)
      PROVE  PairInv'
      BY <1>1, <1>3 DEF Deliver, Fetch, Embed, EmbedFails, UpsertBatch
<1>4. ASSUME NEW t \in Tasks, UpsertsDone(t) \/ QueriesDone(t) \/ Finish(t) PROVE PairInv'
      BY <1>1, <1>4 DEF UpsertsDone, QueriesDone, Finish
<1>5. ASSUME NEW t \in Tasks, NEW c \in Concepts, Query(t, c) PROVE PairInv'
  <2>1. PICK hits \in SUBSET NearHits(t, c) :
            found' = [found EXCEPT ![t] = @ \cup
                {<<c, d>> : d \in {e \in hits \ {c} : <<e, c>> \notin found[t]}}]
        BY <1>5 DEF Query
  <2>2. c \in Labelled(read[t])
        BY <1>5 DEF Query, TypeInv, TypeOK
  <2>3. \A d \in hits \ {c} : Justified(<<c, d>>)
        BY <2>2, HitsAreJustified
  <2>4. \A u \in Tasks : \A p \in found'[u] : p \in found[u] \/ Justified(p)
        BY <2>1, <2>3 DEF TypeInv
  <2>5. sameAs' = sameAs
        BY <1>5 DEF Query
  <2>6. QED
        BY <1>0, <2>4, <2>5 DEF PairInv
<1>6. ASSUME NEW t \in Tasks, NEW pair \in found[t], Link(t, pair) PROVE PairInv'
  <2>1. sameAs' \subseteq sameAs \cup found[t]
        BY <1>6 DEF Link
  <2>2. \A u \in Tasks : found'[u] \subseteq found[u]
        BY <1>6 DEF Link, TypeInv
  <2>3. QED
        BY <1>1, <2>1, <2>2
<1>7. ASSUME NEW t \in Tasks, Crash(t) \/ Fail(t) PROVE PairInv'
      BY <1>1, <1>7 DEF Crash, Fail, Forget, TypeInv
<1>8. CASE UNCHANGED vars
      BY <1>1, <1>8 DEF vars, local
<1>9. QED
      BY <1>2, <1>3, <1>4, <1>5, <1>6, <1>7, <1>8 DEF Next, Step

-----------------------------------------------------------------------------
(***************************************************************************)
(* How far a task has come.                                                *)
(***************************************************************************)
VectorsStay == \A c \in Concepts : vectors[c] # NoLabel => vectors'[c] # NoLabel

LEMMA VectorsAreKept ==
    ASSUME TypeInv, [Next]_vars
    PROVE  VectorsStay
<1>1. ASSUME UNCHANGED vectors PROVE VectorsStay
      BY <1>1 DEF VectorsStay
<1>2. ASSUME NEW t \in Tasks, UpsertBatch(t) PROVE VectorsStay
  <2>1. \A c \in Concepts : \/ vectors'[c] = vectors[c]
                            \/ c \in todo[t] /\ vectors'[c] = read[t][c]
        BY <1>2 DEF UpsertBatch
  <2>2. QED
        BY <2>1 DEF VectorsStay, TypeInv, TypeOK, Labelled
<1>3. QED
      BY <1>1, <1>2
      DEF Next, Step, vars, Ingest, Deliver, Fetch, Embed, EmbedFails,
          UpsertsDone, Query, QueriesDone, Link, Finish, Crash, Fail

Untouched(u) ==
    /\ pc'[u] = pc[u] /\ read'[u] = read[u]
    /\ todo'[u] = todo[u] /\ found'[u] = found[u]

LEMMA OtherTasks ==
    ASSUME TypeInv, NEW t \in Tasks, Step(t), NEW u \in Tasks \ {t}
    PROVE  Untouched(u)
<1> USE DEF TypeInv, TypeOK, Untouched
<1>1. CASE Deliver(t) \/ Fetch(t) \/ Embed(t) \/ EmbedFails(t)
      BY <1>1 DEF Deliver, Fetch, Embed, EmbedFails
<1>2. CASE UpsertBatch(t) \/ UpsertsDone(t) \/ QueriesDone(t) \/ Finish(t)
      BY <1>2 DEF UpsertBatch, UpsertsDone, QueriesDone, Finish
<1>3. ASSUME NEW c \in Concepts, Query(t, c) PROVE Untouched(u)
      BY <1>3 DEF Query
<1>4. ASSUME NEW pair \in found[t], Link(t, pair) PROVE Untouched(u)
      BY <1>4 DEF Link
<1>5. CASE Crash(t) \/ Fail(t)
      BY <1>5 DEF Crash, Fail, Forget
<1>6. QED
      BY <1>1, <1>2, <1>3, <1>4, <1>5 DEF Step

LEMMA ProgressKept ==
    ASSUME TypeInv, NEW u \in Tasks, ProgressInv(u), Untouched(u), [Next]_vars
    PROVE  ProgressInv(u)'
<1>1. VectorsStay /\ ingested \subseteq ingested'
      BY VectorsAreKept, LabelsGrow
<1>2. Labelled(read[u]) \subseteq Concepts
      BY DEF Labelled
<1>3. QED
      BY <1>1, <1>2 DEF ProgressInv, Untouched, VectorsStay

LEMMA ProgressStep ==
    ASSUME TypeInv, LabelInv, \A t \in Tasks : ProgressInv(t), [Next]_vars
    PROVE  \A u \in Tasks : ProgressInv(u)'
<1> USE DEF neo4j, Running, Phases
<1>1. ASSUME NEW t \in Tasks, Step(t), ProgressInv(t)' PROVE \A u \in Tasks : ProgressInv(u)'
      BY <1>1, OtherTasks, ProgressKept
<1>2. ASSUME NEW b \in Books, Ingest(b) PROVE \A u \in Tasks : ProgressInv(u)'
      BY <1>2, ProgressKept DEF Ingest, local, Untouched
<1>3. ASSUME NEW t \in Tasks, Deliver(t) \/ EmbedFails(t) PROVE ProgressInv(t)'
      BY <1>3 DEF Deliver, EmbedFails, ProgressInv, TypeInv, TypeOK
<1>4. ASSUME NEW t \in Tasks, Fetch(t) PROVE ProgressInv(t)'
  <2> DEFINE mine == [c \in Concepts |-> IF c \in ConceptsOf(BookOf[t]) THEN label[c] ELSE NoLabel]
  <2>1. /\ read'[t] = mine /\ UNCHANGED <<ingested, vectors, todo, found>>
        /\ pc'[t] = IF mine = Nothing THEN "done" ELSE "embed"
        /\ pc[t] = "fetch"
        BY <1>4 DEF Fetch, TypeInv, TypeOK
  <2>2. BookOf[t] \in ingested /\ found[t] = {}
        BY <2>1 DEF ProgressInv, TypeInv, TaskInv
  <2>3. ASSUME NEW c \in ConceptsOf(BookOf[t]) PROVE c \in Concepts /\ label[c] # NoLabel
    <3>1. LabelIn[BookOf[t]][c] \in LabelsOf(c) /\ c \in Concepts
          BY <2>2 DEF ConceptsOf, Labelled, LabelsOf
    <3>2. QED
          BY <3>1 DEF LabelInv
  <2>4. Labelled(mine) = ConceptsOf(BookOf[t])
        BY <2>3 DEF Labelled
  <2>5. mine = Nothing => Labelled(mine) = {}
        BY NothingLabelled
  <2>6. QED
        BY <2>1, <2>2, <2>4, <2>5 DEF ProgressInv
<1>5. ASSUME NEW t \in Tasks, Embed(t) PROVE ProgressInv(t)'
      BY <1>5 DEF Embed, ProgressInv, TypeInv, TypeOK
<1>6. ASSUME NEW t \in Tasks, UpsertBatch(t) PROVE ProgressInv(t)'
  <2>1. PICK batch \in SUBSET todo[t] :
            /\ vectors' = [c \in Concepts |-> IF c \in batch THEN read[t][c] ELSE vectors[c]]
            /\ todo'[t] = todo[t] \ batch
        BY <1>6 DEF UpsertBatch, TypeInv
  <2>2. UNCHANGED <<ingested, pc, read, found>> /\ pc[t] = "upsert"
        BY <1>6 DEF UpsertBatch
  <2>3. \A c \in Labelled(read[t]) : c \notin todo'[t] => vectors'[c] # NoLabel
        BY <2>1, <2>2 DEF ProgressInv, Labelled
  <2>4. QED
        BY <2>2, <2>3 DEF ProgressInv
<1>7. ASSUME NEW t \in Tasks, UpsertsDone(t) \/ QueriesDone(t) \/ Finish(t) PROVE ProgressInv(t)'
      BY <1>7 DEF UpsertsDone, QueriesDone, Finish, ProgressInv, TypeInv, TypeOK
<1>8. ASSUME NEW t \in Tasks, NEW c \in Concepts, Query(t, c) PROVE ProgressInv(t)'
      BY <1>8 DEF Query, ProgressInv
<1>9. ASSUME NEW t \in Tasks, NEW pair \in found[t], Link(t, pair) PROVE ProgressInv(t)'
      BY <1>9 DEF Link, ProgressInv
<1>10. ASSUME NEW t \in Tasks, Crash(t) \/ Fail(t) PROVE ProgressInv(t)'
      BY <1>10 DEF Crash, Fail, ProgressInv, TypeInv, TypeOK
<1>11. CASE UNCHANGED vars
      BY <1>11, ProgressKept DEF vars, local, Untouched
<1>12. QED
      BY <1>1, <1>2, <1>3, <1>4, <1>5, <1>6, <1>7, <1>8, <1>9, <1>10, <1>11 DEF Next, Step

-----------------------------------------------------------------------------
(***************************************************************************)
(* Pairs that must be linked.                                              *)
(***************************************************************************)
Crowd(c) == {d \in Concepts : \E x \in LabelsOf(c), y \in LabelsOf(d) : IsNear(x, y)}

LEMMA GivenLabels ==
    ASSUME TypeOK, NEW c \in Concepts
    PROVE  LabelsOf(c) \subseteq Labels
BY ConstantFacts DEF TypeOK, LabelsOf

LEMMA MustLinkBothWays ==
    ASSUME TypeOK, NEW c \in Concepts, NEW d \in Concepts, MustLink(c, d)
    PROVE  MustLink(d, c) /\ Pair(d, c) = Pair(c, d)
BY ConstantFacts DEF MustLink, Pair

\* What must be linked must have been so before, if it had labels.
LEMMA MustLinkBefore ==
    ASSUME TypeInv, [Next]_vars, NEW c \in Concepts, NEW d \in Concepts, MustLink(c, d)',
           LabelsOf(c) # {}, LabelsOf(d) # {}
    PROVE  MustLink(c, d)
<1>1. \A e : LabelsOf(e) \subseteq LabelsOf(e)'
      BY LabelsGrow
<1>2. ASSUME NEW e \in Concepts, Uncrowded(e)' PROVE Uncrowded(e)
  <2>1. Crowd(e) \in SUBSET (Crowd(e)') /\ Crowd(e)' \in SUBSET Concepts
        BY <1>1 DEF Crowd
  <2>2. IsFiniteSet(Crowd(e)')
        BY <2>1, ConstantFacts, FS_Subset
  <2>3. /\ Cardinality(Crowd(e)) \in Nat /\ Cardinality(Crowd(e)') \in Nat
        /\ Cardinality(Crowd(e)) <= Cardinality(Crowd(e)')
        BY <2>1, <2>2, FS_Subset, FS_CardinalityType
  <2>4. Cardinality(Crowd(e)') <= Limit
        BY <1>2 DEF Uncrowded, Crowd
  <2>5. QED
        BY <2>3, <2>4, ConstantFacts DEF Uncrowded, Crowd
<1>3. \E x, y \in Labels : LabelsOf(c) = {x} /\ LabelsOf(d) = {y} /\ IsNear(x, y)
  <2>1. PICK x \in Labels, y \in Labels :
            LabelsOf(c)' = {x} /\ LabelsOf(d)' = {y} /\ IsNear(x, y)
        BY DEF MustLink
  <2>2. LabelsOf(c) = {x} /\ LabelsOf(d) = {y}
        BY <1>1, <2>1
  <2>3. QED
        BY <2>1, <2>2
<1>4. QED
      BY <1>2, <1>3 DEF MustLink

LEMMA QueriedHasLabel ==
    ASSUME LabelInv, NEW t \in Tasks, NEW c \in Concepts, Queried(t, c)
    PROVE  read[t][c] \in LabelsOf(c)
BY DEF LabelInv, IsGiven, Queried, Has, Labelled

LEMMA LinkKept ==
    ASSUME TypeInv, LabelInv, LinkInv, [Next]_vars, sameAs \subseteq sameAs',
           \A t \in Tasks : \A c \in Concepts :
               Queried(t, c)' => Queried(t, c) /\ found[t] \subseteq found'[t] \cup sameAs'
    PROVE  LinkInv'
<1> SUFFICES ASSUME NEW c \in Concepts, NEW d \in Concepts, NEW t \in Tasks, NEW u \in Tasks,
                    Queried(t, c)', Queried(u, d)', MustLink(c, d)'
             PROVE  Pair(c, d) \cap (sameAs' \cup found'[t] \cup found'[u]) # {}
    BY DEF LinkInv, Pair
<1>1. /\ Queried(t, c) /\ Queried(u, d)
      /\ found[t] \subseteq found'[t] \cup sameAs' /\ found[u] \subseteq found'[u] \cup sameAs'
      OBVIOUS
<1>2. MustLink(c, d)
      BY <1>1, QueriedHasLabel, MustLinkBefore
<1>3. Pair(c, d) \cap (sameAs \cup found[t] \cup found[u]) # {}
      BY <1>1, <1>2 DEF LinkInv
<1>4. QED
      BY <1>1, <1>3

\* A query finds each concept it must find and that has a vector already.
LEMMA QueryFinds ==
    ASSUME TypeInv, LabelInv, NEW t \in Tasks, NEW c \in Concepts, Query(t, c),
           NEW d \in Concepts, MustLink(c, d), vectors[d] # NoLabel
    PROVE  Pair(c, d) \cap found'[t] # {}
<1>1. PICK hits \in SUBSET NearHits(t, c) :
          /\ Cardinality(hits) = IF Cardinality(NearHits(t, c)) < Limit
                                 THEN Cardinality(NearHits(t, c)) ELSE Limit
          /\ found'[t] = found[t] \cup
                {<<c, e>> : e \in {e \in hits \ {c} : <<e, c>> \notin found[t]}}
      BY DEF Query, TypeInv
<1>2. PICK x \in Labels, y \in Labels :
          LabelsOf(c) = {x} /\ LabelsOf(d) = {y} /\ IsNear(x, y)
      BY DEF MustLink
<1>3. read[t][c] = x
  <2>1. read[t][c] # NoLabel
        BY DEF Query, TypeInv, TypeOK, Labelled
  <2>2. QED
        BY <1>2, <2>1 DEF LabelInv, IsGiven
<1>4. d \in NearHits(t, c)
  <2>1. vectors[d] = y
        BY <1>2 DEF LabelInv, IsGiven
  <2>2. QED
        BY <1>2, <1>3, <2>1, ConstantFacts DEF NearHits
<1>5. NearHits(t, c) \subseteq Crowd(c)
  <2>1. ASSUME NEW e \in NearHits(t, c) PROVE e \in Crowd(c)
    <3>1. e \in Concepts /\ vectors[e] \in LabelsOf(e) /\ IsNear(vectors[e], x)
          BY <1>3 DEF NearHits, LabelInv, IsGiven
    <3>2. vectors[e] \in Labels
          BY <3>1, GivenLabels DEF TypeInv
    <3>3. QED
          BY <1>2, <3>1, <3>2, ConstantFacts DEF Crowd
  <2>2. QED
        BY <2>1
<1>6. hits = NearHits(t, c)
  <2>1. IsFiniteSet(Crowd(c))
        BY ConstantFacts, FS_Subset DEF Crowd
  <2>2. /\ IsFiniteSet(NearHits(t, c))
        /\ Cardinality(NearHits(t, c)) <= Cardinality(Crowd(c))
        BY <1>5, <2>1, FS_Subset
  <2>3. Cardinality(Crowd(c)) <= Limit
        BY DEF MustLink, Uncrowded, Crowd
  <2>4. Cardinality(hits) = Cardinality(NearHits(t, c))
    <3>1. Cardinality(NearHits(t, c)) \in Nat /\ Cardinality(Crowd(c)) \in Nat
          BY <2>1, <2>2, FS_CardinalityType
    <3>2. Limit \in Nat
          BY ConstantFacts
    <3>3. Cardinality(NearHits(t, c)) <= Limit
          BY <2>2, <2>3, <3>1, <3>2
    <3>4. Cardinality(NearHits(t, c)) < Limit \/ Cardinality(NearHits(t, c)) = Limit
          BY <3>1, <3>2, <3>3
    <3>5. QED
          BY <1>1, <3>4
  <2>5. QED
        BY <2>2, <2>4, FS_Subset
<1>7. CASE <<d, c>> \in found[t]
      BY <1>1, <1>7 DEF Pair
<1>8. CASE <<d, c>> \notin found[t]
  <2>1. d \in hits \ {c}
        BY <1>4, <1>6 DEF MustLink
  <2>2. <<c, d>> \in found'[t]
        BY <1>1, <1>8, <2>1
  <2>3. QED
        BY <2>2 DEF Pair
<1>9. QED
      BY <1>7, <1>8

LEMMA QueryLinks ==
    ASSUME TypeInv, LabelInv, LinkInv, \A t \in Tasks : ProgressInv(t),
           NEW t \in Tasks, NEW c \in Concepts, Query(t, c)
    PROVE  LinkInv'
<1>1. UNCHANGED <<ingested, label, sameAs, vectors, read, pc>> /\ pc[t] = "query"
      BY DEF Query, neo4j
<1>2. /\ \A u \in Tasks : found[u] \subseteq found'[u]
      /\ \A u \in Tasks \ {t} : todo'[u] = todo[u]
      /\ todo'[t] = todo[t] \ {c}
      BY DEF Query, TypeInv
<1>3. \A e, f \in Concepts : MustLink(e, f)' = MustLink(e, f)
      BY <1>1 DEF MustLink, Uncrowded, LabelsOf
<1>4. ASSUME NEW u \in Tasks, NEW d \in Concepts, Queried(u, d)', ~Queried(u, d)
      PROVE  u = t /\ d = c
      BY <1>1, <1>2, <1>4 DEF Queried, Has
<1>5. ASSUME NEW u \in Tasks, NEW d \in Concepts, Queried(u, d)', d # c
      PROVE  vectors[d] # NoLabel
  <2>1. Queried(u, d)
        BY <1>4, <1>5
  <2>2. QED
        BY <2>1 DEF Queried, Has, ProgressInv
<1>6. ASSUME NEW e \in Concepts, NEW f \in Concepts, NEW u \in Tasks, NEW v \in Tasks,
             Queried(u, e)', Queried(v, f)', MustLink(e, f)
      PROVE  Pair(e, f) \cap (sameAs' \cup found'[u] \cup found'[v]) # {}
  <2>1. e # f
        BY <1>6 DEF MustLink
  <2>2. CASE Queried(u, e) /\ Queried(v, f)
        BY <1>1, <1>2, <1>6, <2>2 DEF LinkInv
  <2>3. CASE ~Queried(u, e)
    <3>1. u = t /\ e = c
          BY <1>4, <1>6, <2>3
    <3>2. Pair(e, f) \cap found'[u] # {}
          BY <1>5, <1>6, <2>1, <3>1, QueryFinds
    <3>3. QED
          BY <3>2
  <2>4. CASE ~Queried(v, f)
    <3>1. v = t /\ f = c
          BY <1>4, <1>6, <2>4
    <3>2. MustLink(f, e) /\ Pair(f, e) = Pair(e, f)
          BY <1>6, MustLinkBothWays DEF TypeInv
    <3>3. Pair(f, e) \cap found'[v] # {}
          BY <1>5, <1>6, <2>1, <3>1, <3>2, QueryFinds
    <3>4. QED
          BY <3>2, <3>3
  <2>5. QED
        BY <2>2, <2>3, <2>4
<1>7. QED
      BY <1>3, <1>6 DEF LinkInv, Pair

LEMMA LinkStep ==
    ASSUME CanonInv, [Next]_vars
    PROVE  LinkInv'
<1> USE DEF neo4j
<1>1. TypeInv /\ LabelInv /\ LinkInv
      BY DEF CanonInv
<1>2. ASSUME UNCHANGED sameAs, NEW t \in Tasks, Step(t),
             \A c \in Concepts : Queried(t, c)' => Queried(t, c) /\ found[t] \subseteq found'[t]
      PROVE  LinkInv'
  <2>1. \A u \in Tasks \ {t} : \A c \in Concepts :
            Queried(u, c)' => Queried(u, c) /\ found[u] \subseteq found'[u]
        BY <1>1, <1>2, OtherTasks DEF Untouched, Queried, Has
  <2>2. QED
        BY <1>1, <1>2, <2>1, LinkKept
<1>3. ASSUME NEW b \in Books, Ingest(b) PROVE LinkInv'
      BY <1>1, <1>3, LinkKept DEF Ingest, local, Queried, Has
<1>4. ASSUME NEW t \in Tasks, Deliver(t) \/ Embed(t) \/ EmbedFails(t) \/ UpsertBatch(t)
      PROVE  LinkInv'
  <2>1. \A c \in Concepts : ~Queried(t, c)'
        BY <1>1, <1>4 DEF Deliver, Embed, EmbedFails, UpsertBatch, Queried, TypeInv, TypeOK
  <2>2. QED
        BY <1>2, <1>4, <2>1 DEF Deliver, Embed, EmbedFails, UpsertBatch, Step
<1>5. ASSUME NEW t \in Tasks, Fetch(t) PROVE LinkInv'
  <2>1. /\ pc'[t] \in {"embed", "done"} /\ sameAs' = sameAs
        /\ pc'[t] = "done" => read'[t] = Nothing
        BY <1>1, <1>5 DEF Fetch, TypeInv, TypeOK
  <2>2. \A c \in Concepts : ~Queried(t, c)'
        BY <2>1, NothingLabelled DEF Queried, Has
  <2>3. QED
        BY <1>2, <1>5, <2>1, <2>2 DEF Step
<1>6. ASSUME NEW t \in Tasks, UpsertsDone(t) PROVE LinkInv'
  <2>1. \A c \in Concepts : ~Queried(t, c)'
        BY <1>1, <1>6 DEF UpsertsDone, ToQuery, Queried, Has, TypeInv, TypeOK
  <2>2. QED
        BY <1>2, <1>6, <2>1 DEF UpsertsDone, Step
<1>7. ASSUME NEW t \in Tasks, NEW c \in Concepts, Query(t, c) PROVE LinkInv'
      BY <1>7, QueryLinks DEF CanonInv
<1>8. ASSUME NEW t \in Tasks, QueriesDone(t) \/ Finish(t) PROVE LinkInv'
  <2>1. \A c \in Concepts : Queried(t, c)' => Queried(t, c)
        BY <1>1, <1>8 DEF QueriesDone, Finish, Queried, Has, TypeInv, TypeOK
  <2>2. QED
        BY <1>2, <1>8, <2>1 DEF QueriesDone, Finish, Step
<1>9. ASSUME NEW t \in Tasks, NEW pair \in found[t], Link(t, pair) PROVE LinkInv'
  <2>1. pair[1] \in Concepts /\ pair[2] \in Concepts /\ Justified(pair)
        BY <1>1, <1>9 DEF TypeInv, TypeOK, Labelled, PairInv, CanonInv
  <2>2. {pair[1], pair[2]} \subseteq Labelled(label)
        BY <1>1, <2>1 DEF Justified, LabelInv, Labelled
  <2>3. sameAs' = sameAs \cup {pair}
        BY <1>9, <2>2 DEF Link
  <2>4. \A u \in Tasks : found[u] \subseteq found'[u] \cup sameAs'
        BY <1>1, <1>9, <2>3 DEF Link, TypeInv
  <2>5. \A u \in Tasks : \A c \in Concepts : Queried(u, c)' = Queried(u, c)
        BY <1>9 DEF Link, Queried, Has
  <2>6. QED
        BY <1>1, <2>3, <2>4, <2>5, LinkKept
<1>10. ASSUME NEW t \in Tasks, Crash(t) \/ Fail(t) PROVE LinkInv'
  <2>1. \A c \in Concepts : ~Queried(t, c)'
        BY <1>1, <1>10 DEF Crash, Fail, Queried, TypeInv, TypeOK
  <2>2. QED
        BY <1>2, <1>10, <2>1 DEF Crash, Fail, Step
<1>11. CASE UNCHANGED vars
      BY <1>1, <1>11, LinkKept DEF vars, local, Queried, Has
<1>12. QED
      BY <1>3, <1>4, <1>5, <1>6, <1>7, <1>8, <1>9, <1>10, <1>11 DEF Next, Step

-----------------------------------------------------------------------------
(***************************************************************************)
(* The theorems.                                                           *)
(***************************************************************************)
LEMMA CanonInvariant == Spec => []CanonInv
<1>1. Init => CanonInv
  <2>1. Init => TypeInv
        BY TypeInitially
  <2>2. Init => LabelInv /\ PairInv
        BY NothingLabelled DEF Init, LabelInv, PairInv, IsGiven, LabelsOf, Nothing
  <2>3. Init => LinkInv /\ \A t \in Tasks : ProgressInv(t)
        BY NothingLabelled DEF Init, LinkInv, Queried, ProgressInv, Running
  <2>4. QED
        BY <2>1, <2>2, <2>3 DEF CanonInv
<1>2. CanonInv /\ [Next]_vars => CanonInv'
      BY TypeStep, LabelStep, PairStep, ProgressStep, LinkStep DEF CanonInv
<1>3. QED
      BY <1>1, <1>2, PTL DEF Spec

\* Stores and tasks keep their types: what a task has left to do is of the
\* concepts it has read, and the collection holds no concept that the graph
\* has not (canonicalize_concepts).
THEOREM CanonTypeCorrect == Spec => []TypeOK
<1>1. CanonInv => TypeOK
      BY DEF CanonInv, TypeInv
<1>2. QED
      BY <1>1, CanonInvariant, PTL

\* No concept is linked to itself or to one that no book gave a near label,
\* stale vectors notwithstanding (the hits of query_points in
\* canonicalize_concepts).
THEOREM LinksHaveReasons == Spec => []LinksAreJustified
<1>1. CanonInv => LinksAreJustified
      BY DEF CanonInv, PairInv, Justified, LinksAreJustified
<1>2. QED
      BY <1>1, CanonInvariant, PTL

LEMMA OnlyLabel ==
    ASSUME TypeInv, LabelInv, NEW c \in Concepts, Cardinality(LabelsOf(c)) = 1
    PROVE  LabelsOf(c) = {label[c]} /\ label[c] \in Labels
<1>1. IsFiniteSet(LabelsOf(c))
  <2> DEFINE f   == [b \in ingested |-> LabelIn[b][c]]
             all == {LabelIn[b][c] : b \in ingested}
  <2>1. f \in Surjection(ingested, all)
        BY DEF Surjection
  <2>2. IsFiniteSet(all)
        BY <2>1, FS_Surjection DEF TypeInv
  <2>3. QED
        BY <2>2, FS_Difference DEF LabelsOf
<1>2. PICK x : LabelsOf(c) = {x}
      BY <1>1, FS_Singleton
<1>3. label[c] = x
      BY <1>2 DEF LabelInv, IsGiven
<1>4. QED
      BY <1>2, <1>3, GivenLabels DEF TypeInv

\* Two concepts with near labels are linked once each book that has one of
\* them has had a task that went through, however the tasks interleave, fail
\* and are delivered again: the later one sees the earlier one's vector
\* (the upserts come before the queries in canonicalize_concepts).
THEOREM NearConceptsGetLinked == Spec => []NearConceptsLinked
<1>1. ASSUME CanonInv, NEW c \in Concepts, Cardinality(LabelsOf(c)) = 1,
             \A b \in ingested : c \in ConceptsOf(b) => Resolved(b)
      PROVE  \E t \in Tasks : Queried(t, c) /\ found[t] = {}
  <2>1. PICK b \in ingested : c \in ConceptsOf(b)
        BY <1>1, OnlyLabel DEF CanonInv, LabelsOf, ConceptsOf, Labelled
  <2>2. PICK t \in Tasks : BookOf[t] = b /\ pc[t] = "done"
        BY <1>1, <2>1 DEF Resolved
  <2>3. c \in Labelled(read[t]) /\ found[t] = {}
        BY <1>1, <2>1, <2>2 DEF CanonInv, ProgressInv
  <2>4. QED
        BY <2>2, <2>3 DEF Queried, Has
<1>2. CanonInv => NearConceptsLinked
  <2> SUFFICES ASSUME CanonInv, NEW c \in Concepts, NEW d \in Concepts, c # d,
                      Cardinality(LabelsOf(c)) = 1, Cardinality(LabelsOf(d)) = 1,
                      IsNear(label[c], label[d]), Uncrowded(c), Uncrowded(d),
                      \A b \in ingested : {c, d} \cap ConceptsOf(b) # {} => Resolved(b)
               PROVE  <<c, d>> \in sameAs \/ <<d, c>> \in sameAs
      BY DEF NearConceptsLinked
  <2>1. MustLink(c, d)
        BY OnlyLabel DEF CanonInv, MustLink
  <2>2. PICK t \in Tasks : Queried(t, c) /\ found[t] = {}
        BY <1>1
  <2>3. PICK u \in Tasks : Queried(u, d) /\ found[u] = {}
        BY <1>1
  <2>4. Pair(c, d) \cap sameAs # {}
        BY <2>1, <2>2, <2>3 DEF CanonInv, LinkInv
  <2>5. QED
        BY <2>4 DEF Pair
<1>3. QED
      BY <1>2, CanonInvariant, PTL

=============================================================================
