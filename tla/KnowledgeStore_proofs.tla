------------------------ MODULE KnowledgeStore_proofs ------------------------
(***************************************************************************)
(* Theorems about KnowledgeStore, for all values of its constants: any     *)
(* number of runs over any books, overlapping and failing anywhere.        *)
(***************************************************************************)
EXTENDS KnowledgeStore, FiniteSetTheorems, SequenceTheorems, TLAPS

\* The type invariant, made inductive: a run finds finitely many units.
TypeInv ==
    /\ TypeOK
    /\ DOMAIN found = Runs /\ DOMAIN groups = Runs
    /\ \A r \in Runs : IsFiniteSet(found[r])

\* How far a run has come says what it has written, whatever other runs do:
\* nothing is taken out of the stores.
HasCollection == Phases \ {"idle", "collection", "create", "failed"}
HasPoints     == {"rows", "extract", "insert", "graph", "done"}
HasRows       == HasPoints \ {"rows"}
HasUnits      == {"graph", "done"}

RunInv(r) ==
    /\ pc[r] # "idle" => book[r] \in Books
    /\ pc[r] \in HasCollection => collection # "missing"
    /\ pc[r] = "upsert" =>
          /\ done[r] <= Len(Document(r))
          /\ \A i \in 1..done[r] : Point(r, Document(r)[i]) \in points
    /\ pc[r] \in HasPoints => PointsOf(r) \subseteq points
    /\ pc[r] \in HasRows => PointsOf(r) \subseteq rows
    /\ pc[r] = "extract" => done[r] <= Len(Document(r))
    /\ pc[r] \notin HasRows \cup {"failed"} => found[r] = {}
    /\ \A u \in found[r] : u.book = book[r] /\ u.chunk \in ToSet(Document(r))
    /\ pc[r] \in HasUnits => found[r] \subseteq units

\* The batches a run has still to write are of units that go to the graph and
\* agree in all that Cypher takes no parameter for; what is in no batch is
\* written.
Written(u) ==
    /\ {"Concept", u.finding.domain} \subseteq labels[u.finding.subject]
    /\ u.finding.kind # "definition" => u.id \in relations

GroupInv(r) ==
    /\ pc[r] \notin HasUnits \cup {"failed"} => groups[r] = {}
    /\ \A g \in groups[r] : \A u, v \in g : InGraph(u) /\ SameGroup(u, v)
    /\ pc[r] = "done" => groups[r] = {}
    /\ pc[r] \in HasUnits /\ BuildGraph =>
          \A u \in found[r] : InGraph(u) => Written(u) \/ \E g \in groups[r] : u \in g

\* What the stores say of each other.
TrailInv ==
    /\ \A id \in relations : \E u \in units :
          /\ u.id = id
          /\ \A k \in Ends(u) : k \in Keys /\ Exists(k) /\ u.book \in bookIds[k]
    /\ \A u \in units : HasRow(u)
    /\ rows \subseteq points
    /\ points # {} => collection # "missing"

StoreInv ==
    /\ TypeInv
    /\ \A r \in Runs : RunInv(r) /\ GroupInv(r)
    /\ TrailInv

-----------------------------------------------------------------------------
(***************************************************************************)
(* Types.                                                                  *)
(***************************************************************************)
\* What the proofs need of the constants.
LEMMA ConstantFacts ==
    /\ \A b \in Books : ChunksOf[b] \in Seq(Chunks)
    /\ BatchSize \in Nat \ {0}
    /\ \A c \in Chunks : Extractions[c] \subseteq Seq(Findings)
    /\ \A f \in Findings :
          /\ f.kind \in Kinds /\ f.subject \in Keys \cup {NoKey}
          /\ f.domain \in Labels \cup {"Concept"}
          /\ f.kind = "claim" => f.subject \in Keys /\ f.object \in Keys
    /\ NoKey \notin Keys
    /\ BuildGraph \in BOOLEAN
BY StoreAssumption

LEMMA GotoTypes ==
    ASSUME TypeInv, NEW r \in Runs, NEW next \in Phases, Goto(r, next)
    PROVE  pc' \in [Runs -> Phases] /\ done' \in [Runs -> Nat]
BY DEF TypeInv, TypeOK, Goto

\* The units that one answer adds are finitely many.
AnswerUnits(r, n, b, c, answer) == {Unit(r, n + i, b, c, answer[i]) : i \in DOMAIN answer}

LEMMA AnswerTypes ==
    ASSUME NEW r \in Runs, NEW n \in Nat, NEW b \in Books, NEW c \in Chunks,
           NEW answer \in Seq(Findings)
    PROVE  /\ IsFiniteSet(AnswerUnits(r, n, b, c, answer))
           /\ \A u \in AnswerUnits(r, n, b, c, answer) : IsUnit(u)
<1> DEFINE new == AnswerUnits(r, n, b, c, answer)
<1>1. DOMAIN answer = 1..Len(answer) /\ Len(answer) \in Nat
      BY LenProperties
<1>2. IsFiniteSet(new)
  <2> DEFINE f == [i \in 1..Len(answer) |-> Unit(r, n + i, b, c, answer[i])]
  <2>1. f \in Surjection(1..Len(answer), new)
        BY <1>1 DEF Surjection, AnswerUnits
  <2>2. QED
        BY <1>1, <2>1, FS_NatSurjection DEF ExistsSurjection
<1>3. ASSUME NEW u \in new PROVE IsUnit(u)
  <2>1. PICK i \in 1..Len(answer) : u = Unit(r, n + i, b, c, answer[i])
        BY <1>1 DEF AnswerUnits
  <2>2. answer[i] \in Findings /\ n + i \in Nat
        BY <1>1, ElementOfSeq
  <2>3. QED
        BY <2>1, <2>2 DEF Unit, IsUnit, UnitIds
<1>4. QED
      BY <1>2, <1>3

LEMMA GroupsTypes ==
    ASSUME NEW us, NEW g \in Groups(us)
    PROVE  g \subseteq us /\ g # {} /\ \A u, v \in g : InGraph(u) /\ SameGroup(u, v)
<1>1. PICK u \in us : InGraph(u) /\ g = {v \in us : InGraph(v) /\ SameGroup(u, v)}
      BY DEF Groups
<1>2. u \in g
      BY <1>1 DEF SameGroup
<1>3. QED
      BY <1>1, <1>2 DEF SameGroup

LEMMA GroupsCover ==
    ASSUME NEW us, NEW u \in us, InGraph(u)
    PROVE  \E g \in Groups(us) : u \in g
<1> DEFINE g == {v \in us : InGraph(v) /\ SameGroup(u, v)}
<1>1. g \in Groups(us)
      BY DEF Groups
<1>2. u \in g
      BY DEF SameGroup
<1>3. QED
      BY <1>1, <1>2

LEMMA TypeInitially == Init => TypeInv
BY FS_EmptySet DEF Init, TypeInv, TypeOK, Phases

LEMMA ControlTypes ==
    ASSUME TypeInv, NEW r \in Runs, NEW next \in Phases, Goto(r, next),
           book' \in [Runs -> Books \cup {NoBook}],
           collection' \in {"missing", "bare", "indexed"},
           rows' \subseteq Books \X Chunks,
           UNCHANGED <<found, groups, points, units, neo4j>>
    PROVE  TypeInv'
<1>1. pc' \in [Runs -> Phases] /\ done' \in [Runs -> Nat]
      BY GotoTypes
<1>2. QED
      BY <1>1 DEF TypeInv, TypeOK, neo4j, IsUnit

LEMMA TypeStep ==
    ASSUME TypeInv, \A r \in Runs : RunInv(r) /\ GroupInv(r), [Next]_vars
    PROVE  TypeInv'
<1> USE DEF qdrant, postgres
<1>0. /\ book \in [Runs -> Books \cup {NoBook}] /\ rows \subseteq Books \X Chunks
      /\ collection \in {"missing", "bare", "indexed"}
      /\ pc \in [Runs -> Phases] /\ done \in [Runs -> Nat]
      BY DEF TypeInv, TypeOK
<1>1. ASSUME NEW r \in Runs, NEW b \in Books, Start(r, b) PROVE TypeInv'
  <2>1. book' \in [Runs -> Books \cup {NoBook}]
        BY <1>0, <1>1 DEF Start
  <2>2. QED
        BY <1>0, <1>1, <2>1, ControlTypes DEF Start, Phases
<1>2. ASSUME NEW r \in Runs, CheckCollection(r) PROVE TypeInv'
      BY <1>0, <1>2, ControlTypes DEF CheckCollection, Phases
<1>3. ASSUME NEW r \in Runs, CreateCollection(r) PROVE TypeInv'
      BY <1>0, <1>3, ControlTypes DEF CreateCollection, Phases
<1>4. ASSUME NEW r \in Runs, CreateIndexes(r) PROVE TypeInv'
      BY <1>0, <1>4, ControlTypes DEF CreateIndexes, Phases
<1>5. ASSUME NEW r \in Runs, UpsertBatch(r) PROVE TypeInv'
  <2> DEFINE last == IF done[r] + BatchSize <= Len(Document(r))
                     THEN done[r] + BatchSize ELSE Len(Document(r))
             batch == SubSeq(Document(r), done[r] + 1, last)
  <2>1. /\ points' = points \cup {Point(r, c) : c \in ToSet(batch)}
        /\ done' = [done EXCEPT ![r] = last]
        BY <1>5 DEF UpsertBatch
  <2>2. book[r] \in Books /\ Document(r) \in Seq(Chunks)
        BY <1>5, ConstantFacts DEF UpsertBatch, RunInv, Document
  <2>3. last \in Nat /\ last <= Len(Document(r))
        BY <1>0, <2>2, ConstantFacts
  <2>4. batch \in Seq(Chunks)
    <3>1. \A i \in done[r] + 1 .. last : Document(r)[i] \in Chunks
          BY <1>0, <2>2, <2>3, ElementOfSeq
    <3>2. QED
          BY <1>0, <2>3, <3>1, SubSeqProperties
  <2>5. ToSet(batch) \subseteq Chunks
        BY <2>4, LenProperties, ElementOfSeq DEF ToSet
  <2>6. points' \subseteq Books \X Chunks
        BY <2>1, <2>2, <2>5 DEF TypeInv, TypeOK, Point
  <2>7. done' \in [Runs -> Nat]
        BY <1>0, <2>1, <2>3
  <2>8. QED
        BY <1>5, <2>6, <2>7 DEF UpsertBatch, TypeInv, TypeOK, neo4j, IsUnit
<1>6. ASSUME NEW r \in Runs, UpsertsDone(r) PROVE TypeInv'
      BY <1>0, <1>6, ControlTypes DEF UpsertsDone, Phases
<1>7. ASSUME NEW r \in Runs, InsertChunks(r) PROVE TypeInv'
  <2>1. book[r] \in Books /\ Document(r) \in Seq(Chunks)
        BY <1>7, ConstantFacts DEF InsertChunks, RunInv, Document
  <2>2. ToSet(Document(r)) \subseteq Chunks
        BY <2>1, LenProperties, ElementOfSeq DEF ToSet
  <2>3. rows' \subseteq Books \X Chunks
        BY <1>0, <1>7, <2>1, <2>2 DEF InsertChunks, PointsOf, Point
  <2>4. QED
        BY <1>0, <1>7, <2>3, ControlTypes DEF InsertChunks, Phases
<1>8. ASSUME NEW r \in Runs, ExtractUnits(r) PROVE TypeInv'
  <2> DEFINE c == Document(r)[done[r] + 1]
             n == Cardinality(found[r])
             new(answer) == AnswerUnits(r, n, book[r], c, answer)
  <2>1. PICK answer \in Extractions[c] \cup {<<>>} :
            found' = [found EXCEPT ![r] = @ \cup new(answer)]
        BY <1>8 DEF ExtractUnits, AnswerUnits
  <2>2. book[r] \in Books /\ Document(r) \in Seq(Chunks)
        BY <1>8, ConstantFacts DEF ExtractUnits, RunInv, Document
  <2>3. c \in Chunks
        BY <1>0, <1>8, <2>2, ElementOfSeq DEF ExtractUnits
  <2>4. answer \in Seq(Findings)
        BY <2>1, <2>3, ConstantFacts, EmptySeq
  <2>5. n \in Nat
        BY FS_CardinalityType DEF TypeInv
  <2>6. IsFiniteSet(new(answer)) /\ \A u \in new(answer) : IsUnit(u)
        BY <2>2, <2>3, <2>4, <2>5, AnswerTypes
  <2>7. /\ DOMAIN found' = Runs
        /\ \A s \in Runs : IsFiniteSet(found'[s]) /\ \A u \in found'[s] : IsUnit(u)
        BY <2>1, <2>6, FS_Union DEF TypeInv, TypeOK
  <2>8. \A s \in Runs : found[s] \subseteq found'[s]
        BY <2>1 DEF TypeInv
  <2>9. done' \in [Runs -> Nat]
        BY <1>0, <1>8 DEF ExtractUnits
  <2>10. QED
        BY <1>8, <2>7, <2>8, <2>9 DEF ExtractUnits, TypeInv, TypeOK, neo4j, IsUnit
<1>9. ASSUME NEW r \in Runs, ExtractionDone(r) PROVE TypeInv'
      BY <1>0, <1>9, ControlTypes DEF ExtractionDone, Phases
<1>10. ASSUME NEW r \in Runs, InsertUnits(r) PROVE TypeInv'
  <2>1. pc' \in [Runs -> Phases] /\ done' \in [Runs -> Nat]
        BY <1>10, GotoTypes DEF InsertUnits, Phases
  <2>2. \A s \in Runs : \A g \in groups'[s] : g \subseteq found[s] /\ g # {}
        BY <1>10, GroupsTypes DEF InsertUnits, TypeInv, TypeOK
  <2>3. \A u \in units' : IsUnit(u)
        BY <1>10 DEF InsertUnits, NewUnits, TypeInv, TypeOK
  <2>4. QED
        BY <1>10, <2>1, <2>2, <2>3 DEF InsertUnits, TypeInv, TypeOK, neo4j, IsUnit
<1>11. ASSUME NEW r \in Runs, NEW g \in groups[r], WriteGroup(r, g) PROVE TypeInv'
  <2>1. g \subseteq found[r] /\ g # {} /\ book[r] \in Books /\ \A u \in g : IsUnit(u)
        BY <1>11 DEF TypeInv, TypeOK, RunInv, WriteGroup
  <2>2. Domain(g) \in Labels \cup {"Concept"}
        BY <2>1, ConstantFacts DEF Domain, IsUnit
  <2>3. labels' \in [Keys -> SUBSET (Labels \cup {"Concept"})]
        BY <1>11, <2>2 DEF WriteGroup, MergedLabels, TypeInv, TypeOK
  <2>4. bookIds' \in [Keys -> SUBSET Books]
        BY <1>11, <2>1 DEF WriteGroup, TypeInv, TypeOK
  <2>5. relations' \subseteq UnitIds
        BY <1>11, <2>1 DEF WriteGroup, TypeInv, TypeOK, IsUnit
  <2>6. DOMAIN steps' = Keys
        BY <1>11 DEF WriteGroup, StepTexts, TypeInv, TypeOK
  <2>7. /\ DOMAIN groups' = Runs
        /\ \A s \in Runs : \A h \in groups'[s] : h \subseteq found[s] /\ h # {}
        BY <1>11 DEF WriteGroup, TypeInv, TypeOK
  <2>8. QED
        BY <1>11, <2>3, <2>4, <2>5, <2>6, <2>7 DEF WriteGroup, TypeInv, TypeOK, IsUnit
<1>12. ASSUME NEW r \in Runs, NEW g \in groups[r], RefuseGroup(r, g) PROVE TypeInv'
      BY <1>0, <1>12, ControlTypes DEF RefuseGroup, Phases
<1>13. ASSUME NEW r \in Runs, Finish(r) PROVE TypeInv'
      BY <1>0, <1>13, ControlTypes DEF Finish, Phases
<1>14. ASSUME NEW r \in Runs, Fail(r) PROVE TypeInv'
      BY <1>0, <1>14, ControlTypes DEF Fail, Phases
<1>15. CASE UNCHANGED vars
      BY <1>15 DEF vars, runVars, neo4j, TypeInv, TypeOK, IsUnit
<1>16. QED
      BY <1>1, <1>2, <1>3, <1>4, <1>5, <1>6, <1>7, <1>8, <1>9, <1>10, <1>11, <1>12, <1>13,
         <1>14, <1>15 DEF Next, Step

-----------------------------------------------------------------------------
(***************************************************************************)
(* Runs.  Nothing is taken out of a store, and a run's own state is its    *)
(* alone: what is known of it survives the steps of the others.            *)
(***************************************************************************)
StoresGrow ==
    /\ points \subseteq points' /\ rows \subseteq rows' /\ units \subseteq units'
    /\ collection # "missing" => collection' # "missing"
    /\ relations \subseteq relations'
    /\ \A k \in Keys : labels[k] \subseteq labels'[k] /\ bookIds[k] \subseteq bookIds'[k]

LEMMA Growth ==
    ASSUME TypeInv, [Next]_vars
    PROVE  StoresGrow
<1> USE DEF qdrant, postgres, neo4j, StoresGrow
<1>1. ASSUME NEW r \in Runs, NEW b \in Books, Start(r, b) PROVE StoresGrow
      BY <1>1 DEF Start
<1>2. ASSUME NEW r \in Runs, CheckCollection(r) \/ CreateCollection(r) \/ CreateIndexes(r)
      PROVE  StoresGrow
      BY <1>2 DEF CheckCollection, CreateCollection, CreateIndexes
<1>3. ASSUME NEW r \in Runs, UpsertBatch(r) \/ UpsertsDone(r) \/ InsertChunks(r)
      PROVE  StoresGrow
      BY <1>3 DEF UpsertBatch, UpsertsDone, InsertChunks
<1>4. ASSUME NEW r \in Runs, ExtractUnits(r) \/ ExtractionDone(r) \/ InsertUnits(r)
      PROVE  StoresGrow
      BY <1>4 DEF ExtractUnits, ExtractionDone, InsertUnits
<1>5. ASSUME NEW r \in Runs, NEW g \in groups[r], WriteGroup(r, g) PROVE StoresGrow
      BY <1>5 DEF WriteGroup, MergedLabels
<1>6. ASSUME NEW r \in Runs, NEW g \in groups[r], RefuseGroup(r, g) PROVE StoresGrow
      BY <1>6 DEF RefuseGroup
<1>7. ASSUME NEW r \in Runs, Finish(r) \/ Fail(r) PROVE StoresGrow
      BY <1>7 DEF Finish, Fail
<1>8. CASE UNCHANGED vars
      BY <1>8 DEF vars
<1>9. QED
      BY <1>1, <1>2, <1>3, <1>4, <1>5, <1>6, <1>7, <1>8 DEF Next, Step

Untouched(s) ==
    /\ pc'[s] = pc[s] /\ book'[s] = book[s] /\ done'[s] = done[s]
    /\ found'[s] = found[s] /\ groups'[s] = groups[s]

LEMMA OtherRuns ==
    ASSUME TypeInv, NEW r \in Runs, NEW s \in Runs \ {r},
           Step(r) \/ Fail(r) \/ \E b \in Books : Start(r, b)
    PROVE  Untouched(s)
<1> USE DEF Untouched, Goto, TypeInv, TypeOK
<1>1. ASSUME NEW b \in Books, Start(r, b) PROVE Untouched(s)
      BY <1>1 DEF Start
<1>2. CASE CheckCollection(r) \/ CreateCollection(r) \/ CreateIndexes(r)
      BY <1>2 DEF CheckCollection, CreateCollection, CreateIndexes
<1>3. CASE UpsertBatch(r) \/ UpsertsDone(r) \/ InsertChunks(r)
      BY <1>3 DEF UpsertBatch, UpsertsDone, InsertChunks
<1>4. CASE ExtractUnits(r) \/ ExtractionDone(r) \/ InsertUnits(r)
      BY <1>4 DEF ExtractUnits, ExtractionDone, InsertUnits
<1>5. ASSUME NEW g \in groups[r], WriteGroup(r, g) \/ RefuseGroup(r, g) PROVE Untouched(s)
      BY <1>5 DEF WriteGroup, RefuseGroup
<1>6. CASE Finish(r) \/ Fail(r)
      BY <1>6 DEF Finish, Fail
<1>7. QED
      BY <1>1, <1>2, <1>3, <1>4, <1>5, <1>6 DEF Step

LEMMA RunInvKept ==
    ASSUME TypeInv, NEW s \in Runs, RunInv(s), Untouched(s), StoresGrow
    PROVE  RunInv(s)'
BY DEF RunInv, Untouched, StoresGrow, Document, PointsOf, Point, TypeInv, TypeOK

LEMMA SliceElements ==
    ASSUME NEW S, NEW seq \in Seq(S), NEW a \in Nat, NEW b \in Nat, a <= b, b <= Len(seq)
    PROVE  \A i \in a + 1 .. b : seq[i] \in ToSet(SubSeq(seq, a + 1, b))
<1> DEFINE slice == SubSeq(seq, a + 1, b)
<1>1. Len(seq) \in Nat /\ \A i \in a + 1 .. b : seq[i] \in S
      BY LenProperties, ElementOfSeq
<1>2. /\ slice \in Seq(S)
      /\ Len(slice) = IF a + 1 <= b THEN b - (a + 1) + 1 ELSE 0
      /\ \A i \in 1 .. b - (a + 1) + 1 : slice[i] = seq[a + 1 + i - 1]
      BY <1>1, SubSeqProperties
<1>3. DOMAIN slice = 1..Len(slice)
      BY <1>2, LenProperties
<1>4. ASSUME NEW i \in a + 1 .. b PROVE i - a \in DOMAIN slice /\ slice[i - a] = seq[i]
  <2>1. i - a \in 1 .. b - (a + 1) + 1 /\ a + 1 + (i - a) - 1 = i /\ Len(slice) = b - a
        BY <1>2
  <2>2. QED
        BY <1>2, <1>3, <2>1
<1>5. QED
      BY <1>4 DEF ToSet

\* A batch's points are the next ones of the document.
LEMMA BatchPoints ==
    ASSUME TypeInv, NEW r \in Runs, RunInv(r), UpsertBatch(r)
    PROVE  RunInv(r)'
<1> DEFINE last  == IF done[r] + BatchSize <= Len(Document(r))
                    THEN done[r] + BatchSize ELSE Len(Document(r))
           batch == SubSeq(Document(r), done[r] + 1, last)
<1>1. /\ pc[r] = "upsert" /\ pc' = pc /\ book' = book /\ found' = found
      /\ rows' = rows /\ units' = units /\ collection' = collection
      /\ points' = points \cup {Point(r, c) : c \in ToSet(batch)}
      /\ done'[r] = last
      BY DEF UpsertBatch, TypeInv, TypeOK, postgres
<1>2. book[r] \in Books /\ Document(r) \in Seq(Chunks) /\ done[r] \in Nat
      /\ done[r] <= Len(Document(r))
      BY <1>1, ConstantFacts DEF RunInv, Document, TypeInv, TypeOK
<1>3. last \in Nat /\ last <= Len(Document(r)) /\ done[r] <= last
      BY <1>2, ConstantFacts, LenProperties
<1>4. \A i \in done[r] + 1 .. last : Document(r)[i] \in ToSet(batch)
      BY <1>2, <1>3, SliceElements
<1>5. \A i \in 1..last : Point(r, Document(r)[i]) \in points'
      BY <1>1, <1>2, <1>3, <1>4 DEF RunInv
<1>6. Document(r)' = Document(r) /\ \A c : Point(r, c)' = Point(r, c)
      BY <1>1 DEF Document, Point
<1>7. QED
      BY <1>1, <1>2, <1>3, <1>5, <1>6 DEF RunInv, HasPoints, HasRows, HasUnits, HasCollection

LEMMA AllPoints ==
    ASSUME TypeInv, NEW r \in Runs, RunInv(r), UpsertsDone(r)
    PROVE  PointsOf(r) \subseteq points
<1>1. Document(r) \in Seq(Chunks) /\ done[r] = Len(Document(r)) /\ pc[r] = "upsert"
      BY ConstantFacts, LenProperties
      DEF UpsertsDone, BatchesEnd, RunInv, Document, TypeInv, TypeOK
<1>2. DOMAIN Document(r) = 1..Len(Document(r))
      BY <1>1, LenProperties
<1>3. QED
      BY <1>1, <1>2 DEF PointsOf, ToSet, RunInv

\* A run that moves on has earned what its new phase says.
LEMMA MovedRun ==
    ASSUME TypeInv, NEW r \in Runs, RunInv(r), StoresGrow, pc[r] # "idle",
           NEW next \in Phases \ {"idle"}, Goto(r, next), UNCHANGED <<book, found>>,
           next \in HasCollection => collection' # "missing",
           next \in HasPoints => PointsOf(r) \subseteq points',
           next \in HasRows => PointsOf(r) \subseteq rows',
           next \notin HasRows \cup {"failed"} => found[r] = {},
           next \in HasUnits => found[r] \subseteq units'
    PROVE  RunInv(r)'
<1>1. pc'[r] = next /\ done'[r] = 0
      BY DEF Goto, TypeInv, TypeOK
<1>2. Document(r)' = Document(r) /\ PointsOf(r)' = PointsOf(r)
      BY DEF Document, PointsOf, Point
<1>3. Len(Document(r)) \in Nat /\ 1..0 = {}
      BY ConstantFacts, LenProperties DEF RunInv, Document
<1>4. QED
      BY <1>1, <1>2, <1>3 DEF RunInv

LEMMA ExtractedUnits ==
    ASSUME TypeInv, NEW r \in Runs, RunInv(r), ExtractUnits(r)
    PROVE  RunInv(r)'
<1> DEFINE c == Document(r)[done[r] + 1]
           n == Cardinality(found[r])
<1>1. /\ pc[r] = "extract" /\ done[r] < Len(Document(r))
      /\ UNCHANGED <<pc, book, collection, points, rows, units>>
      /\ done'[r] = done[r] + 1
      BY DEF ExtractUnits, TypeInv, TypeOK, qdrant, postgres
<1>2. Document(r) \in Seq(Chunks) /\ done[r] \in Nat
      BY <1>1, ConstantFacts DEF RunInv, Document, TypeInv, TypeOK
<1>3. c \in ToSet(Document(r)) /\ done[r] + 1 <= Len(Document(r))
  <2>1. done[r] + 1 \in DOMAIN Document(r)
        BY <1>1, <1>2, LenProperties
  <2>2. QED
        BY <1>1, <1>2, <2>1, LenProperties DEF ToSet
<1>4. \A u \in found'[r] : u.book = book[r] /\ u.chunk \in ToSet(Document(r))
  <2>1. PICK answer : found' = [found EXCEPT ![r] = @ \cup AnswerUnits(r, n, book[r], c, answer)]
        BY DEF ExtractUnits, AnswerUnits
  <2>2. \A u \in AnswerUnits(r, n, book[r], c, answer) : u.book = book[r] /\ u.chunk = c
        BY DEF AnswerUnits, Unit
  <2>3. found'[r] = found[r] \cup AnswerUnits(r, n, book[r], c, answer)
        BY <2>1 DEF TypeInv
  <2>4. QED
        BY <1>3, <2>2, <2>3 DEF RunInv
<1>5. Document(r)' = Document(r) /\ PointsOf(r)' = PointsOf(r)
      BY <1>1 DEF Document, PointsOf, Point
<1>6. QED
      BY <1>1, <1>3, <1>4, <1>5 DEF RunInv, HasPoints, HasRows, HasUnits, HasCollection

LEMMA RunStep ==
    ASSUME TypeInv, \A r \in Runs : RunInv(r), [Next]_vars
    PROVE  \A s \in Runs : RunInv(s)'
<1> USE DEF qdrant, postgres, HasPoints, HasRows, HasUnits, HasCollection, Phases
<1>1. StoresGrow
      BY Growth
<1>2. ASSUME NEW r \in Runs, Step(r) \/ Fail(r) \/ \E b \in Books : Start(r, b), RunInv(r)'
      PROVE  \A s \in Runs : RunInv(s)'
      BY <1>1, <1>2, OtherRuns, RunInvKept
<1>3. ASSUME NEW r \in Runs, NEW b \in Books, Start(r, b) PROVE RunInv(r)'
      BY <1>3 DEF Start, Goto, RunInv, TypeInv, TypeOK
<1>4. ASSUME NEW r \in Runs, CheckCollection(r) PROVE RunInv(r)'
      BY <1>1, <1>4, MovedRun DEF CheckCollection, RunInv
<1>5. ASSUME NEW r \in Runs, CreateCollection(r) PROVE RunInv(r)'
      BY <1>1, <1>5, MovedRun DEF CreateCollection, RunInv
<1>6. ASSUME NEW r \in Runs, CreateIndexes(r) PROVE RunInv(r)'
      BY <1>1, <1>6, MovedRun DEF CreateIndexes, RunInv
<1>7. ASSUME NEW r \in Runs, UpsertBatch(r) PROVE RunInv(r)'
      BY <1>7, BatchPoints
<1>8. ASSUME NEW r \in Runs, UpsertsDone(r) PROVE RunInv(r)'
      BY <1>1, <1>8, AllPoints, MovedRun DEF UpsertsDone, RunInv
<1>9. ASSUME NEW r \in Runs, InsertChunks(r) PROVE RunInv(r)'
      BY <1>1, <1>9, MovedRun DEF InsertChunks, RunInv
<1>10. ASSUME NEW r \in Runs, ExtractUnits(r) PROVE RunInv(r)'
      BY <1>10, ExtractedUnits
<1>11. ASSUME NEW r \in Runs, ExtractionDone(r) PROVE RunInv(r)'
      BY <1>1, <1>11, MovedRun DEF ExtractionDone, RunInv
<1>12. ASSUME NEW r \in Runs, InsertUnits(r) PROVE RunInv(r)'
      BY <1>1, <1>12, MovedRun DEF InsertUnits, NewUnits, RunInv
<1>13. ASSUME NEW r \in Runs, NEW g \in groups[r], WriteGroup(r, g) PROVE RunInv(r)'
      BY <1>13 DEF WriteGroup, RunInv, Document, PointsOf, Point
<1>14. ASSUME NEW r \in Runs, NEW g \in groups[r], RefuseGroup(r, g) PROVE RunInv(r)'
      BY <1>1, <1>14, MovedRun DEF RefuseGroup, RunInv
<1>15. ASSUME NEW r \in Runs, Finish(r) \/ Fail(r) PROVE RunInv(r)'
      BY <1>1, <1>15, MovedRun DEF Finish, Fail, Running, RunInv
<1>16. CASE UNCHANGED vars
      BY <1>1, <1>16, RunInvKept DEF vars, runVars, Untouched
<1>17. QED
      BY <1>2, <1>3, <1>4, <1>5, <1>6, <1>7, <1>8, <1>9, <1>10, <1>11, <1>12, <1>13, <1>14,
         <1>15, <1>16 DEF Next, Step

-----------------------------------------------------------------------------
(***************************************************************************)
(* Graph batches, and what the stores say of each other.                   *)
(***************************************************************************)
LEMMA GroupAgrees ==
    ASSUME TypeInv, NEW r \in Runs, GroupInv(r), NEW g \in groups[r], NEW u \in g
    PROVE  /\ u \in found[r] /\ IsUnit(u) /\ InGraph(u)
           /\ u.finding.subject \in Keys
           /\ Kind(g) = u.finding.kind /\ Domain(g) = u.finding.domain
<1>1. u \in found[r] /\ IsUnit(u)
      BY DEF TypeInv, TypeOK
<1>2. (CHOOSE v \in g : TRUE) \in g
      OBVIOUS
<1>3. InGraph(u) /\ SameGroup(u, CHOOSE v \in g : TRUE)
      BY <1>2 DEF GroupInv
<1>4. u.finding.subject \in Keys
      BY <1>1, <1>3, ConstantFacts DEF IsUnit, InGraph
<1>5. QED
      BY <1>1, <1>3, <1>4 DEF SameGroup, Kind, Domain

LEMMA WrittenGroup ==
    ASSUME TypeInv, NEW r \in Runs, GroupInv(r), NEW g \in groups[r], WriteGroup(r, g),
           NEW u \in g
    PROVE  Written(u)'
<1>1. /\ u.finding.subject \in Keys /\ u.finding.subject \in Subjects(g)
      /\ Kind(g) = u.finding.kind /\ Domain(g) = u.finding.domain
      BY GroupAgrees DEF Subjects
<1>2. labels'[u.finding.subject] =
          labels[u.finding.subject] \cup {"Concept", u.finding.domain}
      BY <1>1 DEF WriteGroup, MergedLabels
<1>3. u.finding.kind # "definition" => u.id \in relations'
      BY <1>1 DEF WriteGroup
<1>4. QED
      BY <1>2, <1>3 DEF Written

LEMMA WrittenStays ==
    ASSUME NEW u, IsUnit(u), InGraph(u), Written(u), StoresGrow
    PROVE  Written(u)'
<1>1. u.finding.subject \in Keys
      BY ConstantFacts DEF IsUnit, InGraph
<1>2. QED
      BY <1>1 DEF Written, StoresGrow

LEMMA GroupInvKept ==
    ASSUME TypeInv, NEW s \in Runs, GroupInv(s), Untouched(s), StoresGrow
    PROVE  GroupInv(s)'
<1>1. \A u \in found[s] : InGraph(u) /\ Written(u) => Written(u)'
      BY WrittenStays DEF TypeInv, TypeOK
<1>2. QED
      BY <1>1 DEF GroupInv, Untouched

\* Until a run inserts its units it has no batch to write.
LEMMA NoGroupsYet ==
    ASSUME TypeInv, NEW r \in Runs, GroupInv(r), pc[r] \notin HasUnits \cup {"failed"},
           pc'[r] \notin HasUnits, groups'[r] = groups[r]
    PROVE  GroupInv(r)'
BY DEF GroupInv, HasUnits

LEMMA GroupStep ==
    ASSUME TypeInv, \A r \in Runs : GroupInv(r), [Next]_vars
    PROVE  \A s \in Runs : GroupInv(s)'
<1> USE DEF Goto, HasUnits
<1>1. StoresGrow
      BY Growth
<1>2. ASSUME NEW r \in Runs, Step(r) \/ Fail(r) \/ \E b \in Books : Start(r, b), GroupInv(r)'
      PROVE  \A s \in Runs : GroupInv(s)'
      BY <1>1, <1>2, OtherRuns, GroupInvKept
<1>3. ASSUME NEW r \in Runs, NEW b \in Books, Start(r, b) PROVE GroupInv(r)'
      BY <1>3, NoGroupsYet DEF Start, TypeInv, TypeOK
<1>4. ASSUME NEW r \in Runs, CheckCollection(r) \/ CreateCollection(r) \/ CreateIndexes(r)
      PROVE  GroupInv(r)'
      BY <1>4, NoGroupsYet
      DEF CheckCollection, CreateCollection, CreateIndexes, TypeInv, TypeOK
<1>5. ASSUME NEW r \in Runs, UpsertBatch(r) \/ UpsertsDone(r) \/ InsertChunks(r)
      PROVE  GroupInv(r)'
      BY <1>5, NoGroupsYet DEF UpsertBatch, UpsertsDone, InsertChunks, TypeInv, TypeOK
<1>6. ASSUME NEW r \in Runs, ExtractUnits(r) \/ ExtractionDone(r) PROVE GroupInv(r)'
      BY <1>6, NoGroupsYet DEF ExtractUnits, ExtractionDone, TypeInv, TypeOK
<1>7. ASSUME NEW r \in Runs, InsertUnits(r) PROVE GroupInv(r)'
  <2>1. pc'[r] = "graph" /\ found' = found
        BY <1>7 DEF InsertUnits, TypeInv, TypeOK
  <2>2. groups'[r] = IF BuildGraph THEN Groups(found[r]) ELSE {}
        BY <1>7 DEF InsertUnits, TypeInv
  <2>3. \A g \in groups'[r] : \A u, v \in g : InGraph(u) /\ SameGroup(u, v)
        BY <2>2, GroupsTypes
  <2>4. BuildGraph => \A u \in found'[r] : InGraph(u) => \E g \in groups'[r] : u \in g
        BY <2>1, <2>2, GroupsCover
  <2>5. QED
        BY <2>1, <2>3, <2>4 DEF GroupInv
<1>8. ASSUME NEW r \in Runs, NEW g \in groups[r], WriteGroup(r, g) PROVE GroupInv(r)'
  <2>1. pc'[r] = "graph" /\ pc[r] = "graph" /\ found' = found /\ groups'[r] = groups[r] \ {g}
        BY <1>8 DEF WriteGroup, TypeInv, TypeOK
  <2>2. \A u \in g : Written(u)'
        BY <1>8, WrittenGroup
  <2>3. \A u \in found[r] : InGraph(u) /\ Written(u) => Written(u)'
        BY <1>1, WrittenStays DEF TypeInv, TypeOK
  <2>4. BuildGraph => \A u \in found[r] : InGraph(u) =>
            Written(u)' \/ \E h \in groups'[r] : u \in h
        BY <2>1, <2>2, <2>3 DEF GroupInv
  <2>5. QED
        BY <2>1, <2>4 DEF GroupInv
<1>9. ASSUME NEW r \in Runs, NEW g \in groups[r], RefuseGroup(r, g) PROVE GroupInv(r)'
      BY <1>9 DEF RefuseGroup, GroupInv, TypeInv, TypeOK
<1>10. ASSUME NEW r \in Runs, Finish(r) PROVE GroupInv(r)'
  <2>1. pc'[r] = "done" /\ pc[r] = "graph" /\ found' = found /\ groups'[r] = {}
        /\ groups[r] = {}
        BY <1>10 DEF Finish, TypeInv, TypeOK
  <2>2. \A u \in found[r] : InGraph(u) /\ Written(u) => Written(u)'
        BY <1>1, WrittenStays DEF TypeInv, TypeOK
  <2>3. QED
        BY <2>1, <2>2 DEF GroupInv
<1>11. ASSUME NEW r \in Runs, Fail(r) PROVE GroupInv(r)'
      BY <1>11 DEF Fail, GroupInv, TypeInv, TypeOK
<1>12. CASE UNCHANGED vars
      BY <1>1, <1>12, GroupInvKept DEF vars, runVars, Untouched
<1>13. QED
      BY <1>2, <1>3, <1>4, <1>5, <1>6, <1>7, <1>8, <1>9, <1>10, <1>11, <1>12 DEF Next, Step

LEMMA TrailStep ==
    ASSUME StoreInv, [Next]_vars
    PROVE  TrailInv'
<1> USE DEF qdrant, postgres, neo4j
<1>1. StoresGrow
      BY Growth DEF StoreInv
<1>2. ASSUME relations' = relations
      PROVE  \A id \in relations' : \E u \in units' :
                /\ u.id = id
                /\ \A k \in Ends(u) : k \in Keys /\ labels'[k] # {} /\ u.book \in bookIds'[k]
      BY <1>1, <1>2 DEF StoreInv, TrailInv, StoresGrow, Exists
<1>3. ASSUME UNCHANGED <<points, rows, units, relations, collection>> PROVE TrailInv'
      BY <1>2, <1>3 DEF StoreInv, TrailInv, HasRow, Exists
<1>4. ASSUME NEW r \in Runs, NEW b \in Books, Start(r, b) PROVE TrailInv'
      BY <1>3, <1>4 DEF Start
<1>5. ASSUME NEW r \in Runs, CheckCollection(r) \/ UpsertsDone(r) PROVE TrailInv'
      BY <1>3, <1>5 DEF CheckCollection, UpsertsDone
<1>6. ASSUME NEW r \in Runs, CreateCollection(r) \/ CreateIndexes(r) PROVE TrailInv'
      BY <1>2, <1>6 DEF CreateCollection, CreateIndexes, StoreInv, TrailInv, HasRow, Exists
<1>7. ASSUME NEW r \in Runs, UpsertBatch(r) PROVE TrailInv'
  <2>1. collection' # "missing"
        BY <1>7 DEF UpsertBatch, StoreInv, RunInv, HasCollection, Phases
  <2>2. UNCHANGED <<rows, units, relations>> /\ points \subseteq points'
        BY <1>7 DEF UpsertBatch
  <2>3. QED
        BY <1>2, <2>1, <2>2 DEF StoreInv, TrailInv, HasRow, Exists
<1>8. ASSUME NEW r \in Runs, InsertChunks(r) PROVE TrailInv'
  <2>1. rows' \subseteq points /\ rows \subseteq rows'
        BY <1>8 DEF InsertChunks, StoreInv, TrailInv, RunInv, HasPoints
  <2>2. QED
        BY <1>2, <1>8, <2>1 DEF InsertChunks, StoreInv, TrailInv, HasRow, Exists
<1>9. ASSUME NEW r \in Runs, ExtractUnits(r) \/ ExtractionDone(r) PROVE TrailInv'
      BY <1>3, <1>9 DEF ExtractUnits, ExtractionDone
<1>10. ASSUME NEW r \in Runs, InsertUnits(r) PROVE TrailInv'
  <2>1. UNCHANGED <<points, rows, relations, collection>> /\ units' = units \cup found[r]
        BY <1>10 DEF InsertUnits, NewUnits
  <2>2. \A u \in found[r] : <<u.book, u.chunk>> \in rows
        BY <1>10 DEF InsertUnits, StoreInv, RunInv, HasRows, HasPoints, PointsOf, Point
  <2>3. QED
        BY <1>2, <2>1, <2>2 DEF StoreInv, TrailInv, HasRow, Exists
<1>11. ASSUME NEW r \in Runs, NEW g \in groups[r], WriteGroup(r, g) PROVE TrailInv'
  <2>1. UNCHANGED <<points, rows, units, collection>> /\ relations' \subseteq relations \cup {u.id : u \in g}
        BY <1>11 DEF WriteGroup
  <2>2. ASSUME NEW u \in g
        PROVE  u \in units /\ \A k \in Ends(u) :
                  k \in Keys /\ labels'[k] # {} /\ u.book \in bookIds'[k]
    <3>1. /\ u \in found[r] /\ IsUnit(u) /\ u.finding.subject \in Keys
          /\ Kind(g) = u.finding.kind
          BY GroupAgrees DEF StoreInv
    <3>2. u \in units /\ u.book = book[r]
          BY <1>11, <3>1 DEF WriteGroup, StoreInv, RunInv, HasUnits
    <3>3. Ends(u) \subseteq Keys /\ Ends(u) \subseteq Subjects(g) \cup Objects(g)
          BY <3>1, ConstantFacts DEF Ends, Subjects, Objects, IsUnit
    <3>4. \A k \in Ends(u) : labels'[k] # {} /\ u.book \in bookIds'[k]
          BY <1>11, <3>2, <3>3 DEF WriteGroup, MergedLabels
    <3>5. QED
          BY <3>2, <3>3, <3>4
  <2>3. \A id \in relations : \E u \in units :
            /\ u.id = id
            /\ \A k \in Ends(u) : k \in Keys /\ labels'[k] # {} /\ u.book \in bookIds'[k]
        BY <1>1 DEF StoreInv, TrailInv, StoresGrow, Exists
  <2>4. QED
        BY <2>1, <2>2, <2>3 DEF StoreInv, TrailInv, HasRow, Exists
<1>12. ASSUME NEW r \in Runs, NEW g \in groups[r], RefuseGroup(r, g) PROVE TrailInv'
      BY <1>3, <1>12 DEF RefuseGroup
<1>13. ASSUME NEW r \in Runs, Finish(r) \/ Fail(r) PROVE TrailInv'
      BY <1>3, <1>13 DEF Finish, Fail
<1>14. CASE UNCHANGED vars
      BY <1>3, <1>14 DEF vars
<1>15. QED
      BY <1>4, <1>5, <1>6, <1>7, <1>8, <1>9, <1>10, <1>11, <1>12, <1>13, <1>14 DEF Next, Step

-----------------------------------------------------------------------------
(***************************************************************************)
(* The theorems of the stores.                                             *)
(***************************************************************************)
LEMMA StoreInvariant == Spec => []StoreInv
<1>1. Init => StoreInv
  <2>1. Init => TypeInv
        BY TypeInitially
  <2>2. Init => \A r \in Runs : RunInv(r) /\ GroupInv(r)
        BY DEF Init, RunInv, GroupInv, HasCollection, HasPoints, HasRows, HasUnits
  <2>3. Init => TrailInv
        BY DEF Init, TrailInv
  <2>4. QED
        BY <2>1, <2>2, <2>3 DEF StoreInv
<1>2. StoreInv /\ [Next]_vars => StoreInv'
  <2> SUFFICES ASSUME StoreInv, [Next]_vars PROVE StoreInv'
      OBVIOUS
  <2>1. TypeInv'
        BY TypeStep DEF StoreInv
  <2>2. \A r \in Runs : RunInv(r)'
        BY RunStep DEF StoreInv
  <2>3. \A r \in Runs : GroupInv(r)'
        BY GroupStep DEF StoreInv
  <2>4. TrailInv'
        BY TrailStep
  <2>5. QED
        BY <2>1, <2>2, <2>3, <2>4 DEF StoreInv
<1>3. QED
      BY <1>1, <1>2, PTL DEF Spec

\* Every variable of the stores and of the runs keeps its type, for any
\* documents, answers of the model and overlaps of runs
\* (_run_pre_extracted in ingestion_pipeline.py).
THEOREM StoreTypeCorrect == Spec => []TypeOK
<1>1. StoreInv => TypeOK
      BY DEF StoreInv, TypeInv
<1>2. QED
      BY <1>1, StoreInvariant, PTL

\* From a relation of the graph one comes back to its text, however runs fail
\* and overlap (the order of the stages in _run_pre_extracted).
THEOREM EvidenceIsTraceable == Spec => []EvidenceTrail
<1>1. StoreInv => EvidenceTrail
      BY DEF StoreInv, TrailInv, EvidenceTrail
<1>2. QED
      BY <1>1, StoreInvariant, PTL

\* A run that reports completion has left everything it found in all three
\* stores, whatever others did meanwhile (_run_pre_extracted and
\* build_graph_for_units).
THEOREM CompletionMeansStored == Spec => []CompletedRunIsStored
<1>1. StoreInv => CompletedRunIsStored
  <2> SUFFICES ASSUME StoreInv, NEW r \in Runs, pc[r] = "done"
               PROVE  /\ PointsOf(r) \subseteq points \cap rows
                      /\ found[r] \subseteq units
                      /\ BuildGraph => \A u \in found[r] : InGraph(u) => Written(u)
      BY DEF CompletedRunIsStored, Written
  <2>1. RunInv(r) /\ GroupInv(r)
        BY DEF StoreInv
  <2>2. QED
        BY <2>1 DEF RunInv, GroupInv, HasPoints, HasRows, HasUnits
<1>2. QED
      BY <1>1, StoreInvariant, PTL

-----------------------------------------------------------------------------
(***************************************************************************)
(* Units and their ids.  Ids are new, so that a relation names one unit.   *)
(***************************************************************************)
FoundInv(r) ==
    \A u \in found[r] :
        /\ u.id[1] = r /\ u.id[2] <= Cardinality(found[r])
        /\ \A v \in found[r] : u.id = v.id => u = v

IdInv ==
    /\ \A u \in units : u.id[1] \in Runs /\ u \in found[u.id[1]]
    /\ \A r \in Runs : FoundInv(r)

\* The units of an answer get the next ids, one each.
LEMMA AnswerIds ==
    ASSUME NEW r \in Runs, NEW n \in Nat, NEW b \in Books, NEW c \in Chunks,
           NEW answer \in Seq(Findings),
           NEW u \in AnswerUnits(r, n, b, c, answer)
    PROVE  /\ u.id[1] = r /\ u.id[2] \in n + 1 .. n + Len(answer)
           /\ \A v \in AnswerUnits(r, n, b, c, answer) : u.id = v.id => u = v
<1>1. DOMAIN answer = 1..Len(answer) /\ Len(answer) \in Nat
      BY LenProperties
<1>2. PICK i \in 1..Len(answer) : u = Unit(r, n + i, b, c, answer[i])
      BY <1>1 DEF AnswerUnits
<1>3. u.id = <<r, n + i>>
      BY <1>2 DEF Unit
<1>4. ASSUME NEW v \in AnswerUnits(r, n, b, c, answer), u.id = v.id PROVE u = v
  <2>1. PICK j \in 1..Len(answer) : v = Unit(r, n + j, b, c, answer[j])
        BY <1>1 DEF AnswerUnits
  <2>2. v.id = <<r, n + j>>
        BY <2>1 DEF Unit
  <2>3. n + i = n + j
        BY <1>3, <1>4, <2>2
  <2>4. i = j
        BY <1>1, <2>3
  <2>5. QED
        BY <1>2, <2>1, <2>4
<1>5. QED
      BY <1>1, <1>3, <1>4

LEMMA AnswerCount ==
    ASSUME NEW r \in Runs, NEW n \in Nat, NEW b \in Books, NEW c \in Chunks,
           NEW answer \in Seq(Findings)
    PROVE  Cardinality(AnswerUnits(r, n, b, c, answer)) = Len(answer)
<1> DEFINE new == AnswerUnits(r, n, b, c, answer)
           f   == [i \in 1..Len(answer) |-> Unit(r, n + i, b, c, answer[i])]
<1>1. DOMAIN answer = 1..Len(answer) /\ Len(answer) \in Nat
      BY LenProperties
<1>2. f \in Surjection(1..Len(answer), new)
      BY <1>1 DEF Surjection, AnswerUnits
<1>3. \A i, j \in 1..Len(answer) : f[i] = f[j] => i = j
  <2>1. SUFFICES ASSUME NEW i \in 1..Len(answer), NEW j \in 1..Len(answer), f[i] = f[j]
                 PROVE  i = j
        OBVIOUS
  <2>2. f[i].id = <<r, n + i>> /\ f[j].id = <<r, n + j>>
        BY DEF Unit
  <2>3. n + i = n + j
        BY <2>1, <2>2
  <2>4. QED
        BY <1>1, <2>3
<1>4. f \in Bijection(1..Len(answer), new)
      BY <1>2, <1>3 DEF Bijection, Injection, IsInjective, Surjection
<1>5. QED
      BY <1>1, <1>4, FS_CountingElements DEF ExistsBijection

LEMMA ExtractedIds ==
    ASSUME TypeInv, NEW r \in Runs, RunInv(r), FoundInv(r), ExtractUnits(r)
    PROVE  FoundInv(r)' /\ found[r] \subseteq found'[r]
<1> DEFINE n == Cardinality(found[r])
           c == Document(r)[done[r] + 1]
<1>1. PICK answer \in Extractions[c] \cup {<<>>} :
          found' = [found EXCEPT ![r] = @ \cup AnswerUnits(r, n, book[r], c, answer)]
      BY DEF ExtractUnits, AnswerUnits
<1>2. c \in Chunks /\ book[r] \in Books
  <2>1. Document(r) \in Seq(Chunks) /\ book[r] \in Books /\ done[r] \in Nat
        BY ConstantFacts DEF ExtractUnits, RunInv, Document, TypeInv, TypeOK
  <2>2. QED
        BY <2>1, ElementOfSeq DEF ExtractUnits
<1>3. answer \in Seq(Findings)
      BY <1>2, ConstantFacts, EmptySeq
<1> DEFINE new == AnswerUnits(r, n, book[r], c, answer)
<1>4. n \in Nat /\ Len(answer) \in Nat /\ IsFiniteSet(found[r]) /\ IsFiniteSet(new)
      BY <1>2, <1>3, AnswerTypes, FS_CardinalityType, LenProperties DEF TypeInv
<1>5. found'[r] = found[r] \cup new
      BY <1>1 DEF TypeInv
<1> HIDE DEF n, c
<1>6. \A u \in new : /\ u.id[1] = r /\ u.id[2] \in n + 1 .. n + Len(answer)
                     /\ \A v \in new : u.id = v.id => u = v
      BY <1>2, <1>3, <1>4, AnswerIds
<1>7. \A u \in found[r] : /\ u.id[1] = r /\ u.id[2] \in Nat /\ u.id[2] <= n
                          /\ \A v \in found[r] : u.id = v.id => u = v
      BY DEF FoundInv, n, TypeInv, TypeOK, IsUnit, UnitIds
<1>8. found[r] \cap new = {}
      BY <1>4, <1>6, <1>7
<1>9. Cardinality(found'[r]) = n + Len(answer)
  <2>1. Cardinality(new) = Len(answer)
        BY <1>2, <1>3, <1>4, AnswerCount
  <2>2. Cardinality(found[r] \cup new) =
            Cardinality(found[r]) + Cardinality(new) - Cardinality(found[r] \cap new)
        BY <1>4, FS_Union
  <2>3. Cardinality(found[r] \cap new) = 0
        BY <1>8, FS_EmptySet
  <2>4. QED
        BY <1>4, <1>5, <2>1, <2>2, <2>3 DEF n
<1>10. QED
       BY <1>4, <1>5, <1>6, <1>7, <1>9 DEF FoundInv

LEMMA IdStep ==
    ASSUME StoreInv, IdInv, [Next]_vars
    PROVE  IdInv'
<1> USE DEF qdrant, postgres
<1>1. ASSUME UNCHANGED <<found, units>> PROVE IdInv'
      BY <1>1 DEF IdInv, FoundInv
<1>2. ASSUME NEW r \in Runs, ExtractUnits(r) PROVE IdInv'
  <2>1. FoundInv(r)' /\ found[r] \subseteq found'[r]
        BY <1>2, ExtractedIds DEF StoreInv, IdInv
  <2>2. \A s \in Runs \ {r} : found'[s] = found[s]
        BY <1>2 DEF ExtractUnits, StoreInv, TypeInv
  <2>3. \A s \in Runs : FoundInv(s)' /\ found[s] \subseteq found'[s]
        BY <2>1, <2>2 DEF IdInv, FoundInv
  <2>4. QED
        BY <1>2, <2>3 DEF ExtractUnits, IdInv
<1>3. ASSUME NEW r \in Runs, InsertUnits(r) PROVE IdInv'
      BY <1>3 DEF InsertUnits, NewUnits, IdInv, FoundInv
<1>4. ASSUME NEW r \in Runs, NEW b \in Books, Start(r, b) PROVE IdInv'
      BY <1>1, <1>4 DEF Start
<1>5. ASSUME NEW r \in Runs, CheckCollection(r) \/ CreateCollection(r) \/ CreateIndexes(r)
      PROVE  IdInv'
      BY <1>1, <1>5 DEF CheckCollection, CreateCollection, CreateIndexes
<1>6. ASSUME NEW r \in Runs, UpsertBatch(r) \/ UpsertsDone(r) \/ InsertChunks(r)
      PROVE  IdInv'
      BY <1>1, <1>6 DEF UpsertBatch, UpsertsDone, InsertChunks
<1>7. ASSUME NEW r \in Runs, ExtractionDone(r) \/ Finish(r) \/ Fail(r) PROVE IdInv'
      BY <1>1, <1>7 DEF ExtractionDone, Finish, Fail
<1>8. ASSUME NEW r \in Runs, NEW g \in groups[r], WriteGroup(r, g) \/ RefuseGroup(r, g)
      PROVE  IdInv'
      BY <1>1, <1>8 DEF WriteGroup, RefuseGroup
<1>9. CASE UNCHANGED vars
      BY <1>1, <1>9 DEF vars, runVars
<1>10. QED
       BY <1>2, <1>3, <1>4, <1>5, <1>6, <1>7, <1>8, <1>9 DEF Next, Step

-----------------------------------------------------------------------------
(***************************************************************************)
(* The steps of processes.                                                 *)
(***************************************************************************)
\* A step in the graph is one of a unit that describes the process, and there
\* is none beyond what such units have.
StepsInv ==
    \A k \in Keys : \A i \in 1..MaxSteps :
        \/ steps[k][i] = NoText /\ \A u \in ProcessOf(k) : ~WritesStep(u, i)
        \/ \E u \in ProcessOf(k) : WritesStep(u, i) /\ steps[k][i] = u.finding.steps[i]

\* A finite set of numbers that is not empty has a largest one.
LEMMA LargestNumber ==
    ASSUME NEW S, S \subseteq Nat, IsFiniteSet(S), S # {}
    PROVE  \E m \in S : \A n \in S : n <= m
<1> DEFINE Above(m) == {n \in S : n > m}
           Aboves == {Above(m) : m \in S}
<1>1. Aboves \subseteq FiniteSubsetsOf(S) /\ Aboves # {}
  <2>1. ASSUME NEW m \in S PROVE Above(m) \in FiniteSubsetsOf(S)
    <3>1. Above(m) \in SUBSET S
          OBVIOUS
    <3>2. QED
          BY <3>1, FS_Subset DEF FiniteSubsetsOf
  <2>2. QED
        BY <2>1
<1>2. PICK A \in Aboves : \A B \in Aboves : <<B, A>> \notin StrictSubsetOrdering(S)
      BY <1>1, FS_StrictSubsetOrderingWellFounded, WFMin
<1>3. PICK m \in S : A = Above(m)
      BY <1>2
<1>4. ASSUME NEW n \in S, n > m PROVE FALSE
  <2>1. Above(n) \subseteq Above(m) /\ n \in Above(m) /\ n \notin Above(n)
    <3>1. n \in Nat /\ m \in Nat /\ \A x \in S : x \in Nat
          OBVIOUS
    <3>2. ASSUME NEW x \in S, x > n PROVE x > m
          BY <1>4, <3>1, <3>2
    <3>3. ~(n > n)
          BY <3>1
    <3>4. QED
          BY <1>4, <3>2, <3>3
  <2>2. <<Above(n), Above(m)>> \in StrictSubsetOrdering(S)
        BY <2>1 DEF StrictSubsetOrdering
  <2>3. QED
        BY <1>2, <1>3, <1>4, <2>2
<1>5. QED
      BY <1>3, <1>4

LEMMA LastIsOneOfThem ==
    ASSUME NEW us, IsFiniteSet(us), us # {}, \A u \in us : u.id[2] \in Nat
    PROVE  LastOf(us) \in us
<1> DEFINE S == {u.id[2] : u \in us}
<1>1. IsFiniteSet(S)
  <2> DEFINE f == [u \in us |-> u.id[2]]
  <2>1. f \in Surjection(us, S)
        BY DEF Surjection
  <2>2. QED
        BY <2>1, FS_Surjection
<1>2. PICK m \in S : \A n \in S : n <= m
  <2>1. S \subseteq Nat /\ S # {}
        OBVIOUS
  <2>2. QED
        BY <1>1, <2>1, LargestNumber
<1>3. PICK u \in us : u.id[2] = m
      BY <1>2
<1>4. \A v \in us : v.id[2] <= u.id[2]
      BY <1>2, <1>3
<1>5. QED
      BY <1>4 DEF LastOf

\* The step that a batch leaves at a place is one of its units' steps.
LEMMA WritersLast ==
    ASSUME TypeInv, NEW r \in Runs, NEW g \in groups[r], NEW k \in Keys,
           NEW i \in 1..MaxSteps, Writers(g, k, i) # {}
    PROVE  LastOf(Writers(g, k, i)) \in Writers(g, k, i)
<1>1. Writers(g, k, i) \subseteq g /\ g \subseteq found[r] /\ IsFiniteSet(found[r])
      BY DEF Writers, TypeInv, TypeOK
<1>2. IsFiniteSet(Writers(g, k, i))
      BY <1>1, FS_Subset
<1>3. \A u \in Writers(g, k, i) : u.id[2] \in Nat
      BY <1>1 DEF TypeInv, TypeOK, IsUnit, UnitIds
<1>4. QED
      BY <1>2, <1>3, LastIsOneOfThem

\* No other unit becomes part of a process by a step than those it writes.
LEMMA InsertedLater ==
    ASSUME StoreInv, IdInv, NEW r \in Runs, InsertUnits(r), NEW k \in Keys
    PROVE  ProcessOf(k)' = ProcessOf(k)
<1>1. units' = units \cup found[r] /\ relations' = relations
      BY DEF InsertUnits, NewUnits, neo4j
<1>2. ASSUME NEW u \in found[r], u.id \in relations PROVE u \in units
  <2>1. PICK v \in units : v.id = u.id
        BY <1>2 DEF StoreInv, TrailInv
  <2>2. u.id[1] = r /\ v \in found[r]
        BY <2>1 DEF IdInv, FoundInv
  <2>3. QED
        BY <2>1, <2>2 DEF IdInv, FoundInv
<1>3. QED
      BY <1>1, <1>2 DEF ProcessOf

LEMMA WrittenProcesses ==
    ASSUME StoreInv, IdInv, NEW r \in Runs, NEW g \in groups[r], WriteGroup(r, g),
           NEW k \in Keys
    PROVE  /\ ProcessOf(k) \subseteq ProcessOf(k)'
           /\ \A u \in ProcessOf(k)' \ ProcessOf(k) : u \in g /\ Kind(g) = "process"
           /\ Kind(g) = "process" => \A u \in g : u.finding.subject = k => u \in ProcessOf(k)'
<1>1. /\ units' = units
      /\ relations' = IF Kind(g) = "definition" THEN relations
                      ELSE relations \cup {u.id : u \in g}
      BY DEF WriteGroup, postgres
<1>2. g \subseteq units
      BY DEF WriteGroup, StoreInv, TypeInv, TypeOK, RunInv, HasUnits
<1>3. \A u \in g : Kind(g) = u.finding.kind
      BY GroupAgrees DEF StoreInv
<1>4. ASSUME NEW u \in units, NEW v \in g, u.id = v.id PROVE u = v
      BY <1>2, <1>4 DEF IdInv, FoundInv
<1>5. QED
      BY <1>1, <1>2, <1>3, <1>4 DEF ProcessOf

LEMMA StepsStep ==
    ASSUME StoreInv, IdInv, StepsInv, [Next]_vars
    PROVE  StepsInv'
<1> USE DEF postgres, neo4j
<1>1. ASSUME UNCHANGED steps, \A k \in Keys : ProcessOf(k)' = ProcessOf(k)
      PROVE  StepsInv'
      BY <1>1 DEF StepsInv, WritesStep
<1>2. ASSUME UNCHANGED <<units, neo4j>> PROVE StepsInv'
      BY <1>1, <1>2 DEF ProcessOf
<1>3. ASSUME NEW r \in Runs, InsertUnits(r) PROVE StepsInv'
      BY <1>1, <1>3, InsertedLater DEF InsertUnits
<1>4. ASSUME NEW r \in Runs, NEW g \in groups[r], WriteGroup(r, g) PROVE StepsInv'
  <2> SUFFICES ASSUME NEW k \in Keys, NEW i \in 1..MaxSteps
               PROVE  \/ steps'[k][i] = NoText /\ \A u \in ProcessOf(k)' : ~WritesStep(u, i)
                      \/ \E u \in ProcessOf(k)' : WritesStep(u, i) /\ steps'[k][i] = u.finding.steps[i]
      BY DEF StepsInv, WritesStep
  <2>1. /\ ProcessOf(k) \subseteq ProcessOf(k)'
        /\ \A u \in ProcessOf(k)' \ ProcessOf(k) : u \in g /\ Kind(g) = "process"
        /\ Kind(g) = "process" => \A u \in g : u.finding.subject = k => u \in ProcessOf(k)'
        BY <1>4, WrittenProcesses
  <2>2. CASE Kind(g) = "process" /\ Writers(g, k, i) # {}
    <3>1. LastOf(Writers(g, k, i)) \in Writers(g, k, i)
          BY <2>2, WritersLast DEF StoreInv
    <3>2. steps'[k][i] = LastOf(Writers(g, k, i)).finding.steps[i]
          BY <1>4, <2>2 DEF WriteGroup, StepTexts
    <3>3. QED
          BY <2>1, <2>2, <3>1, <3>2 DEF Writers
  <2>3. CASE ~(Kind(g) = "process" /\ Writers(g, k, i) # {})
    <3>1. steps'[k][i] = steps[k][i]
          BY <1>4, <2>3 DEF WriteGroup, StepTexts
    <3>2. \A u \in ProcessOf(k)' \ ProcessOf(k) : ~WritesStep(u, i)
          BY <2>1, <2>3 DEF Writers, ProcessOf
    <3>3. QED
          BY <2>1, <3>1, <3>2 DEF StepsInv
  <2>4. QED
        BY <2>2, <2>3
<1>5. ASSUME NEW r \in Runs, NEW b \in Books, Start(r, b) PROVE StepsInv'
      BY <1>2, <1>5 DEF Start
<1>6. ASSUME NEW r \in Runs, CheckCollection(r) \/ CreateCollection(r) \/ CreateIndexes(r)
      PROVE  StepsInv'
      BY <1>2, <1>6 DEF CheckCollection, CreateCollection, CreateIndexes
<1>7. ASSUME NEW r \in Runs, UpsertBatch(r) \/ UpsertsDone(r) \/ InsertChunks(r)
      PROVE  StepsInv'
      BY <1>2, <1>7 DEF UpsertBatch, UpsertsDone, InsertChunks
<1>8. ASSUME NEW r \in Runs, ExtractUnits(r) \/ ExtractionDone(r) \/ Finish(r) \/ Fail(r)
      PROVE  StepsInv'
      BY <1>2, <1>8 DEF ExtractUnits, ExtractionDone, Finish, Fail
<1>9. ASSUME NEW r \in Runs, NEW g \in groups[r], RefuseGroup(r, g) PROVE StepsInv'
      BY <1>2, <1>9 DEF RefuseGroup
<1>10. CASE UNCHANGED vars
      BY <1>2, <1>10 DEF vars
<1>11. QED
      BY <1>3, <1>4, <1>5, <1>6, <1>7, <1>8, <1>9, <1>10 DEF Next, Step

\* As long as the units that describe a process agree on its steps, the graph
\* has exactly these (build_graph_for_units in graph_builder.py).
THEOREM AgreedProcessesKept == Spec => []AgreedProcessIsWhole
<1> DEFINE Inv == StoreInv /\ IdInv /\ StepsInv
<1>1. Init => IdInv /\ StepsInv
      BY DEF Init, IdInv, FoundInv, StepsInv, ProcessOf
<1>2. StoreInv /\ StoreInv' /\ IdInv /\ StepsInv /\ [Next]_vars => IdInv' /\ StepsInv'
      BY IdStep, StepsStep
<1>3. StoreInv /\ StepsInv => AgreedProcessIsWhole
  <2> SUFFICES ASSUME StoreInv, StepsInv, NEW k \in Keys, NEW u \in ProcessOf(k),
                      \A v \in ProcessOf(k) : v.finding.steps = u.finding.steps,
                      NEW i \in 1..MaxSteps
               PROVE  steps[k][i] =
                        IF i \in DOMAIN u.finding.steps THEN u.finding.steps[i] ELSE NoText
      BY DEF AgreedProcessIsWhole
  <2>1. u.finding \in Findings /\ u.finding.kind = "process"
        BY DEF ProcessOf, StoreInv, TypeInv, TypeOK, IsUnit
  <2>2. \A v \in ProcessOf(k) : i \in DOMAIN u.finding.steps <=> WritesStep(v, i)
        BY <2>1, StoreAssumption DEF WritesStep
  <2>3. QED
        BY <2>2 DEF StepsInv
<1>4. QED
      BY <1>1, <1>2, <1>3, StoreInvariant, PTL DEF Spec

=============================================================================
