---------------------------- MODULE Corpus_proofs ----------------------------
(***************************************************************************)
(* What Extraction and Corpus promise of documents, stores, backups and    *)
(* records, for any number of scripts, breaks and losses, any books, and   *)
(* any sizes of parts, chunks and batches.                                 *)
(***************************************************************************)
EXTENDS Corpus, FiniteSetTheorems, SequenceTheorems, WellFoundedInduction, TLAPS

-----------------------------------------------------------------------------
(***************************************************************************)
(* The invariants.                                                         *)
(***************************************************************************)
\* What stores and files are of. A point has the vector of its own text; a
\* unit is recorded for its book, or is the pipeline's.
Makers   == {"import", "pipeline"}
KeySet   == {k \in [book: Books, text: Seq(Nat)] : IsKey(k)}
PointSet == {p \in [key: KeySet, from: Nat, to: Nat, vector: Seq(Nat), maker: Makers] :
                IsPoint(p) /\ p.vector = p.key.text}
UnitSet  == {u \in [chunk: KeySet, maker: Makers, book: Books, run: 0..MaxCommands] :
                u.book # u.chunk.book => u.maker = "pipeline"}
Leaf(b)  == 0..Pages[b]

\* A collection has one point of a name.
IsCollection(P) ==
    P \subseteq PointSet /\ IsFiniteSet(P) /\ \A p, q \in P : p.key = q.key => p = q

IsDump(d) == d \in [rows: SUBSET Books, users: BOOLEAN, units: SUBSET UnitSet]

\* The scripts that may be under way.
Lists == Seq(Books) \ {<<>>}
Names == Books \cup {NoName}

IsExtract(s) ==
    s \in [name: {"extract"}, books: Lists, force: BOOLEAN,
           step: {"look", "job", "document", "pages", "info"}, part: Nat, leaves: Seq(Nat)]
IsMend(s) ==
    s \in [name: {"mend"}, books: {<<Mended>>}, step: {"job", "document", "info"},
           first: Seq(Nat), leaves: Seq(Nat)]
IsImport(s) ==
    s \in [name: {"import"}, step: {"book", "upsert"}, books: Lists, force: BOOLEAN,
           todo: Seq(PointSet)]
IsIngest(s) ==
    s \in [name: {"ingest"}, step: {"book", "upsert", "units"}, books: Lists, todo: Seq(PointSet)]
IsIngestGraph(s) ==
    s \in [name: {"ingest"}, step: {"graph"}, books: Lists, todo: SUBSET UnitSet]
IsUnits(s) ==
    s \in [name: {"units"}, step: {"insert", "save"}, todo: SUBSET PointSet,
           bookOf: UNION {[G -> Books] : G \in SUBSET Names}, processed: SUBSET KeySet]
IsGraph(s) == s \in [name: {"graph", "build"}, step: {"graph"}, todo: SUBSET UnitSet]
IsBackup(s) == s \in [name: {"backup"}, step: {"postgres", "qdrant"}]
IsRestore(s) == s \in [name: {"restore"}, step: {"postgres", "qdrant", "neo4j"}]

IsScript(s) ==
    \/ s = Idle \/ IsExtract(s) \/ IsMend(s) \/ IsImport(s)
    \/ s.name = "ingest" /\ s.step # "graph" /\ IsIngest(s)
    \/ s.name = "ingest" /\ s.step = "graph" /\ IsIngestGraph(s)
    \/ IsUnits(s) \/ IsGraph(s) \/ IsBackup(s) \/ IsRestore(s)

FolderInv ==
    /\ DOMAIN doc = Books /\ DOMAIN meta = Books /\ DOMAIN parts = Books
    /\ \A b \in Books : doc[b] = NoFile \/ doc[b] \in Seq(Leaf(b))
    /\ \A b \in Books : meta[b] \subseteq 1..Pages[b] /\ parts[b] \subseteq 1..NumParts(b)
    /\ info \in [Books -> {"none", "whole", "cut"}]

StoreInv ==
    /\ IsCollection(points)
    /\ rows \subseteq Books /\ users \in BOOLEAN
    /\ units \subseteq UnitSet /\ graph \subseteq UnitSet

FileInv ==
    /\ checkpoint \subseteq KeySet
    /\ dump \in {NoFile, Cut} \/ IsDump(dump)
    /\ snapshot \in {NoFile, Cut} \/ IsCollection(snapshot)

HistoryInv ==
    /\ unfinished \subseteq Books /\ forgetful \in BOOLEAN /\ wentBack \in BOOLEAN
    /\ barren \subseteq KeySet /\ losses \in 0..MaxLosses
    /\ commands \in 0..MaxCommands /\ breaks \in 0..MaxBreaks

TypeInv == FolderInv /\ StoreInv /\ FileInv /\ HistoryInv /\ IsScript(script)

\* What a script has gathered of a document is in order, and of the parts
\* before the one that comes next.
PartOf(p) == (p - 1) \div PartPages

GatherInv ==
    script.name = "extract" =>
        /\ script.leaves \in Seq(Leaf(Current)) /\ InPageOrder(script.leaves)
        /\ script.part \in 1..NumParts(Current)
        /\ script.step = "look" => script.leaves = <<>> /\ script.part = 1
        /\ script.step = "job" =>
              \A i \in DOMAIN script.leaves :
                  script.leaves[i] # Blank => PartOf(script.leaves[i]) < script.part - 1

\* What is mended is in order, or has taken the second part among the first.
TakesBothParts(first) == first # <<>> /\ Last(first) \in PagesOf(Mended, 2)

MendInv ==
    script.name = "mend" =>
        /\ script.first \in Seq(1..Pages[Mended]) /\ InPageOrder(script.first)
        /\ script.leaves \in Seq(Leaf(Mended))
        /\ InPageOrder(script.leaves) \/ TakesBothParts(script.first)

\* The books of an import have documents. Of the book that is being stored, what
\* is not in the collection is still to be upserted.
Covers(b, maker) == KeysIn(ToSet(Made(b, maker))) \subseteq KeysIn(PointsOf(b))

UpsertInv ==
    script.name \in {"import", "ingest"} =>
        /\ \A n \in DOMAIN script.books : doc[script.books[n]] # NoFile
        /\ script.step = "upsert" =>
              LET maker == IF script.name = "import" THEN "import" ELSE "pipeline"
              IN  /\ KeysIn(ToSet(Made(Current, maker)))
                        \subseteq KeysIn(points) \cup KeysIn(ToSet(script.todo))
                  /\ \A i \in DOMAIN script.todo : script.todo[i].key.book = Current

WholeInv ==
    \A b \in Books \ unfinished :
        PointsOf(b) # {} => \E maker \in Makers : Covers(b, maker)

\* Chunks a script is through with have units or hold none, and units it is to
\* put into the graph are there.
ChunksWith(U) == {u.chunk : u \in U}

EarnedInv ==
    /\ RecordsAreEarned
    /\ script.name = "units" => wentBack \/ script.processed \subseteq ChunksWith(units) \cup barren
    /\ script.name \in {"graph", "build", "ingest"} /\ script.step = "graph" =>
          script.todo # {} /\ (wentBack \/ script.todo \subseteq units)

\* The chunks a script for units is still to look at are not among those it is
\* through with, and the names of their books lead to them.
TodoInv ==
    script.name = "units" =>
        /\ IsCollection(script.todo)
        /\ KeysIn(script.todo) \cap script.processed = {}
        /\ script.step = "insert" => script.todo # {}
        /\ \A p \in script.todo :
              /\ Name(p) \in DOMAIN script.bookOf
              /\ script.bookOf[Name(p)] # p.key.book => p.maker = "pipeline"

\* As long as no run has forgotten any units, every chunk has units of one run,
\* and the record knows all chunks that have.
Single(U) == \A u, v \in U : u.chunk = v.chunk => u = v

RepeatInv ==
    ~forgetful =>
        /\ Single(units)
        /\ ChunksWith(units) \subseteq (IF script.name = "units" THEN script.processed ELSE checkpoint)
        /\ script.name = "units" =>
              /\ checkpoint \subseteq script.processed
              /\ script.step = "insert" => checkpoint = script.processed
        /\ dump \notin {NoFile, Cut} => Single(dump.units) /\ ChunksWith(dump.units) \subseteq checkpoint

CorpusInv ==
    /\ TypeInv /\ GatherInv /\ MendInv /\ UpsertInv /\ WholeInv
    /\ EarnedInv /\ TodoInv /\ RepeatInv

-----------------------------------------------------------------------------
(***************************************************************************)
(* Loops. The library's induction takes an operator as a parameter; a set  *)
(* of numbers does here.                                                   *)
(***************************************************************************)
LEMMA LeastNumber ==
    ASSUME NEW S, S \subseteq Nat, S # {}
    PROVE  \E m \in S : \A n \in S : m <= n
<1>1. PICK m \in S : \A n \in S : <<n, m>> \notin OpToRel(<, Nat)
      BY NatLessThanWellFounded, WFMin
<1>2. ASSUME NEW n \in S PROVE m <= n
  <2>1. ~(n < m)
        BY <1>1, <1>2 DEF OpToRel
  <2>2. QED
        BY <2>1
<1>3. QED
      BY <1>2

LEMMA StepByStep ==
    ASSUME NEW m \in Nat, NEW B, 0 \in B, \A n \in 1..m : n - 1 \in B => n \in B
    PROVE  \A n \in 0..m : n \in B
<1> DEFINE Left == {n \in 0..m : n \notin B}
<1> SUFFICES ASSUME Left # {} PROVE FALSE
    OBVIOUS
<1>1. PICK n \in Left : \A k \in Left : n <= k
  <2>1. Left \subseteq Nat
        OBVIOUS
  <2> HIDE DEF Left
  <2>2. QED
        BY <2>1, LeastNumber
<1>2. n \in 0..m /\ n \notin B /\ n # 0
      BY <1>1
<1>3. n - 1 \in 0..m /\ n - 1 < n /\ n \in 1..m
      BY <1>2
<1>4. n - 1 \notin B
      BY <1>2, <1>3
<1>5. n <= n - 1
      BY <1>1, <1>3, <1>4
<1>6. QED
      BY <1>2, <1>5

\* What a loop makes of start in m rounds, the n-th of which makes step[n][x] of x.
IsLoop(f, start, step, m) ==
    f = [n \in 0..m |-> IF n = 0 THEN start ELSE step[n][f[n - 1]]]

LEMMA LoopIsDefined ==
    ASSUME NEW start, NEW step, NEW m \in Nat
    PROVE  \E f : IsLoop(f, start, step, m)
<1> DEFINE B == {n \in Nat : \E f : IsLoop(f, start, step, n)}
<1>1. 0 \in B
  <2>1. IsLoop([k \in 0..0 |-> start], start, step, 0)
        BY DEF IsLoop
  <2>2. QED
        BY <2>1
<1>2. ASSUME NEW n \in 1..m, n - 1 \in B PROVE n \in B
  <2>1. n \in Nat /\ n - 1 \in Nat /\ n # 0
        OBVIOUS
  <2>2. PICK f : IsLoop(f, start, step, n - 1)
        BY <1>2
  <2> DEFINE g == [k \in 0..n |-> IF k < n THEN f[k] ELSE step[n][f[n - 1]]]
  <2>3. ASSUME NEW k \in 0..n
        PROVE  g[k] = IF k = 0 THEN start ELSE step[k][g[k - 1]]
    <3>1. CASE k < n
      <4>1. k \in 0..(n - 1)
            BY <2>1, <3>1
      <4>2. f[k] = IF k = 0 THEN start ELSE step[k][f[k - 1]]
            BY <2>2, <4>1 DEF IsLoop
      <4>3. g[k] = f[k] /\ (k # 0 => g[k - 1] = f[k - 1])
            BY <2>1, <3>1
      <4> HIDE DEF g
      <4>4. QED
            BY <4>2, <4>3
    <3>2. CASE k = n
      <4>1. g[k] = step[n][f[n - 1]] /\ g[n - 1] = f[n - 1]
            BY <2>1, <3>2
      <4> HIDE DEF g
      <4>2. QED
            BY <2>1, <3>2, <4>1
    <3>3. QED
          BY <2>1, <3>1, <3>2
  <2>4. g = [k \in 0..n |-> g[k]]
        OBVIOUS
  <2> HIDE DEF g
  <2>5. IsLoop(g, start, step, n)
        BY <2>3, <2>4 DEF IsLoop
  <2>6. QED
        BY <2>1, <2>5
<1> HIDE DEF B
<1>3. m \in B
      BY <1>1, <1>2, StepByStep
<1>4. QED
      BY <1>3 DEF B

LEMMA LoopStays ==
    ASSUME NEW V, NEW start \in V, NEW step, NEW m \in Nat, NEW f, IsLoop(f, start, step, m),
           \A n \in 1..m : \A x \in V : step[n][x] \in V
    PROVE  /\ f[0] = start
           /\ \A n \in 0..m : f[n] \in V
           /\ \A n \in 1..m : f[n] = step[n][f[n - 1]]
<1>1. f[0] = start
      BY DEF IsLoop
<1>2. ASSUME NEW n \in 1..m PROVE f[n] = step[n][f[n - 1]]
  <2>1. n \in 0..m /\ n # 0
        OBVIOUS
  <2>2. QED
        BY <2>1 DEF IsLoop
<1> DEFINE B == {n \in 0..m : f[n] \in V}
<1>3. 0 \in B
      BY <1>1
<1>4. ASSUME NEW n \in 1..m, n - 1 \in B PROVE n \in B
      BY <1>2, <1>4
<1> HIDE DEF B
<1>5. \A n \in 0..m : n \in B
      BY <1>3, <1>4, StepByStep
<1>6. QED
      BY <1>1, <1>2, <1>5 DEF B

-----------------------------------------------------------------------------
(***************************************************************************)
(* Those elements of a sequence that are in a set.                         *)
(***************************************************************************)
LEMMA ThoseIsLoop ==
    ASSUME NEW T, NEW s \in Seq(T), NEW S
    PROVE  \E f : /\ Those(s, S) = f[Len(s)]
                  /\ f[0] = <<>>
                  /\ \A n \in 0..Len(s) : f[n] \in Seq(T)
                  /\ \A n \in 1..Len(s) :
                        f[n] = IF s[n] \in S THEN Append(f[n - 1], s[n]) ELSE f[n - 1]
<1> DEFINE G(n, x) == IF s[n] \in S THEN Append(x, s[n]) ELSE x
           step == [n \in 1..Len(s) |-> [x \in Seq(T) |-> G(n, x)]]
           Eq(f) == f = [n \in 0..Len(s) |-> IF n = 0 THEN <<>> ELSE G(n, f[n - 1])]
<1>1. Len(s) \in Nat /\ \A n \in 1..Len(s) : s[n] \in T
      BY LenProperties
<1>2. ASSUME NEW n \in 1..Len(s), NEW x \in Seq(T) PROVE G(n, x) \in Seq(T) /\ step[n][x] = G(n, x)
  <2>1. s[n] \in T
        BY <1>1
  <2>2. QED
        BY <2>1
<1>3. \E f : Eq(f)
  <2> HIDE DEF G, step, Eq
  <2>1. PICK f : IsLoop(f, <<>>, step, Len(s))
        BY <1>1, LoopIsDefined
  <2>2. <<>> \in Seq(T) /\ \A n \in 1..Len(s) : \A x \in Seq(T) : step[n][x] \in Seq(T)
        BY <1>2
  <2>3. \A n \in 0..Len(s) : f[n] \in Seq(T)
    <3> DEFINE V == Seq(T)
               empty == <<>>
               m == Len(s)
    <3>1. /\ m \in Nat /\ IsLoop(f, empty, step, m) /\ empty \in V
          /\ \A n \in 1..m : \A x \in V : step[n][x] \in V
          BY <1>1, <2>1, <2>2
    <3> HIDE DEF V, empty, m
    <3>2. \A n \in 0..m : f[n] \in V
          BY <3>1, LoopStays
    <3>3. QED
          BY <3>2 DEF V, m
  <2>4. ASSUME NEW n \in 0..Len(s), n # 0 PROVE step[n][f[n - 1]] = G(n, f[n - 1])
    <3>1. n \in 1..Len(s) /\ n - 1 \in 0..Len(s)
          BY <1>1, <2>4
    <3>2. QED
          BY <1>2, <2>3, <3>1
  <2>5. f = [n \in 0..Len(s) |-> IF n = 0 THEN <<>> ELSE G(n, f[n - 1])]
        BY <2>1, <2>4 DEF IsLoop
  <2>6. QED
        BY <2>5 DEF Eq
<1> DEFINE r == CHOOSE f : Eq(f)
<1>4. Eq(r)
  <2> HIDE DEF Eq
  <2>1. QED
        BY <1>3
<1>5. Those(s, S) = r[Len(s)]
      BY DEF Those
<1>6. r[0] = <<>> /\ \A n \in 1..Len(s) : r[n] = G(n, r[n - 1])
  <2> HIDE DEF r, G
  <2>1. r = [n \in 0..Len(s) |-> IF n = 0 THEN <<>> ELSE G(n, r[n - 1])]
        BY <1>4
  <2>2. 0 \in 0..Len(s) /\ \A n \in 1..Len(s) : n \in 0..Len(s) /\ n # 0
        BY <1>1
  <2>3. QED
        BY <2>1, <2>2
<1> DEFINE B == {n \in 0..Len(s) : r[n] \in Seq(T)}
<1>7. 0 \in B
  <2>1. r[0] \in Seq(T)
    <3> HIDE DEF r
    <3>1. QED
          BY <1>6
  <2> HIDE DEF r
  <2>2. QED
        BY <1>1, <2>1
<1>8. ASSUME NEW n \in 1..Len(s), n - 1 \in B PROVE n \in B
  <2> HIDE DEF r, G
  <2>1. QED
        BY <1>2, <1>6, <1>8
<1> HIDE DEF r, B
<1>9. \A n \in 0..Len(s) : n \in B
      BY <1>1, <1>7, <1>8, StepByStep
<1>10. QED
       BY <1>5, <1>6, <1>9 DEF B

\* They are elements of the sequence, in their order.
LEMMA ThoseAreSome ==
    ASSUME NEW T, NEW s \in Seq(T), NEW S
    PROVE  /\ Those(s, S) \in Seq(T)
           /\ \A i \in DOMAIN Those(s, S) :
                 Those(s, S)[i] \in S /\ \E j \in DOMAIN s : Those(s, S)[i] = s[j]
           /\ \A i, k \in DOMAIN Those(s, S) : i < k =>
                 \E j, l \in DOMAIN s : j < l /\ Those(s, S)[i] = s[j] /\ Those(s, S)[k] = s[l]
           /\ (\A j \in DOMAIN s : s[j] \in S) => Those(s, S) = s
<1>1. PICK f : /\ Those(s, S) = f[Len(s)]
               /\ f[0] = <<>>
               /\ \A n \in 0..Len(s) : f[n] \in Seq(T)
               /\ \A n \in 1..Len(s) :
                     f[n] = IF s[n] \in S THEN Append(f[n - 1], s[n]) ELSE f[n - 1]
      BY ThoseIsLoop, SMTT(30)
<1>2. Len(s) \in Nat /\ DOMAIN s = 1..Len(s)
      BY LenProperties
<1> DEFINE Some(t, n) ==
              /\ \A i \in DOMAIN t : t[i] \in S /\ \E j \in 1..n : t[i] = s[j]
              /\ \A i, k \in DOMAIN t : i < k =>
                    \E j, l \in 1..n : j < l /\ t[i] = s[j] /\ t[k] = s[l]
           B == {n \in 0..Len(s) : Some(f[n], n)}
<1>3. 0 \in B
  <2>1. DOMAIN f[0] = {}
        BY <1>1
  <2>2. QED
        BY <1>2, <2>1
<1>4. ASSUME NEW n \in 1..Len(s), n - 1 \in B PROVE n \in B
  <2> DEFINE t == f[n - 1]
  <2>1. n \in 0..Len(s) /\ n - 1 \in 0..Len(s) /\ Some(t, n - 1) /\ t \in Seq(T)
        BY <1>1, <1>2, <1>4
  <2>2. \A j \in 1..(n - 1) : j \in 1..n /\ j < n
        OBVIOUS
  <2>3. CASE s[n] \notin S
    <3>1. f[n] = t
          BY <1>1, <2>3
    <3> HIDE DEF t
    <3>2. Some(f[n], n)
          BY <2>1, <2>2, <3>1
    <3>3. QED
          BY <2>1, <3>2
  <2>4. CASE s[n] \in S
    <3>1. f[n] = Append(t, s[n])
          BY <1>1, <2>4
    <3> HIDE DEF t
    <3> DEFINE u == Append(t, s[n])
    <3>2. /\ Len(t) \in Nat /\ DOMAIN t = 1..Len(t) /\ DOMAIN u = 1..(Len(t) + 1)
          /\ u[Len(t) + 1] = s[n] /\ \A i \in 1..Len(t) : u[i] = t[i]
      <4>1. s[n] \in T
            BY <1>2
      <4>2. QED
            BY <2>1, <4>1, LenProperties, AppendProperties
    <3> HIDE DEF u
    <3>3. ASSUME NEW i \in DOMAIN u PROVE u[i] \in S /\ \E j \in 1..n : u[i] = s[j]
      <4>1. CASE i \in 1..Len(t)
            BY <2>1, <2>2, <3>2, <4>1
      <4>2. CASE i = Len(t) + 1
            BY <2>4, <3>2, <4>2
      <4>3. QED
            BY <3>2, <4>1, <4>2
    <3>4. ASSUME NEW i \in DOMAIN u, NEW k \in DOMAIN u, i < k
          PROVE  \E j, l \in 1..n : j < l /\ u[i] = s[j] /\ u[k] = s[l]
      <4>1. i \in 1..Len(t)
            BY <3>2, <3>4
      <4>2. CASE k \in 1..Len(t)
        <5>1. PICK j, l \in 1..(n - 1) : j < l /\ t[i] = s[j] /\ t[k] = s[l]
          <6>1. i \in DOMAIN t /\ k \in DOMAIN t
                BY <3>2, <4>1, <4>2
          <6>2. QED
                BY <2>1, <3>4, <6>1
        <5>2. j \in 1..n /\ l \in 1..n
              BY <2>2
        <5>3. u[i] = t[i] /\ u[k] = t[k]
              BY <3>2, <4>1, <4>2
        <5>4. QED
              BY <5>1, <5>2, <5>3
      <4>3. CASE k = Len(t) + 1
        <5>1. PICK j \in 1..(n - 1) : t[i] = s[j]
              BY <2>1, <3>2, <4>1
        <5>2. j \in 1..n /\ n \in 1..n /\ j < n
              BY <2>2
        <5>3. u[i] = s[j] /\ u[k] = s[n]
              BY <3>2, <4>1, <4>3, <5>1
        <5>4. QED
              BY <5>2, <5>3
      <4>4. QED
            BY <3>2, <4>2, <4>3
    <3>5. Some(u, n)
          BY <3>3, <3>4
    <3>6. Some(f[n], n)
          BY <3>1, <3>5 DEF u
    <3>7. QED
          BY <2>1, <3>6
  <2>5. QED
        BY <2>3, <2>4
<1>5. Some(f[Len(s)], Len(s))
  <2> HIDE DEF B
  <2>1. \A n \in 0..Len(s) : n \in B
        BY <1>2, <1>3, <1>4, StepByStep
  <2>2. Len(s) \in B
        BY <1>2, <2>1
  <2>3. QED
        BY <2>2 DEF B
<1>6. ASSUME \A j \in DOMAIN s : s[j] \in S PROVE Those(s, S) = s
  <2> DEFINE All == {n \in 0..Len(s) : Len(f[n]) = n /\ \A i \in 1..n : f[n][i] = s[i]}
  <2>1. 0 \in All
        BY <1>1, <1>2
  <2>2. ASSUME NEW n \in 1..Len(s), n - 1 \in All PROVE n \in All
    <3>1. f[n] = Append(f[n - 1], s[n]) /\ f[n - 1] \in Seq(T) /\ s[n] \in T
      <4>1. n \in DOMAIN s /\ s[n] \in S /\ n - 1 \in 0..Len(s)
            BY <1>2, <1>6
      <4>2. s[n] \in T
            BY <4>1, ElementOfSeq, <1>2
      <4>3. QED
            BY <1>1, <4>1, <4>2
    <3>2. Len(f[n - 1]) = n - 1 /\ \A i \in 1..(n - 1) : f[n - 1][i] = s[i]
          BY <2>2
    <3>3. Len(f[n]) = n /\ f[n][n] = s[n] /\ \A i \in 1..(n - 1) : f[n][i] = f[n - 1][i]
          BY <3>1, <3>2, AppendProperties
    <3>4. \A i \in 1..n : f[n][i] = s[i]
          BY <3>2, <3>3
    <3>5. QED
          BY <3>3, <3>4
  <2> HIDE DEF All
  <2>3. \A n \in 0..Len(s) : n \in All
        BY <1>2, <2>1, <2>2, StepByStep
  <2>4. Len(s) \in All
        BY <1>2, <2>3
  <2>5. Len(f[Len(s)]) = Len(s) /\ (\A i \in 1..Len(s) : f[Len(s)][i] = s[i]) /\ f[Len(s)] \in Seq(T)
        BY <1>1, <1>2, <2>4 DEF All
  <2>6. f[Len(s)] = s
        BY <2>5, SeqEqual
  <2>7. QED
        BY <1>1, <2>6
<1>7. Those(s, S) \in Seq(T)
      BY <1>1, <1>2
<1>8. /\ \A i \in DOMAIN f[Len(s)] : f[Len(s)][i] \in S /\ \E j \in DOMAIN s : f[Len(s)][i] = s[j]
      /\ \A i, k \in DOMAIN f[Len(s)] : i < k =>
            \E j, l \in DOMAIN s : j < l /\ f[Len(s)][i] = s[j] /\ f[Len(s)][k] = s[l]
      BY <1>2, <1>5
<1> HIDE DEF Some, B
<1>9. QED
      BY <1>1, <1>6, <1>7, <1>8

-----------------------------------------------------------------------------
(***************************************************************************)
(* Pages and parts.                                                        *)
(***************************************************************************)
LEMMA BookFacts ==
    ASSUME NEW b \in Books
    PROVE  Pages[b] \in Nat \ {0} /\ PartPages \in Nat \ {0} /\ NumParts(b) \in Int
<1>1. Pages[b] \in Nat \ {0} /\ PartPages \in Nat \ {0}
      BY ExtractionAssumption
<1>2. QED
      BY <1>1 DEF NumParts

LEMMA PagesInASet ==
    ASSUME NEW b \in Books, NEW P, P \subseteq 1..Pages[b]
    PROVE  /\ InOrder(b, P) \in Seq(1..Pages[b])
           /\ \A i \in DOMAIN InOrder(b, P) : InOrder(b, P)[i] \in P
           /\ \A i, k \in DOMAIN InOrder(b, P) : i < k => InOrder(b, P)[i] < InOrder(b, P)[k]
<1> DEFINE n == Pages[b]
           s == [p \in 1..n |-> p]
<1>1. n \in Nat
      BY BookFacts
<1>2. s \in Seq(1..n) /\ DOMAIN s = 1..n /\ \A p \in 1..n : s[p] = p
      BY <1>1
<1>3. InOrder(b, P) = Those(s, P)
      BY DEF InOrder
<1> HIDE DEF s, n
<1>4. /\ Those(s, P) \in Seq(1..n)
      /\ \A i \in DOMAIN Those(s, P) : Those(s, P)[i] \in P
      /\ \A i, k \in DOMAIN Those(s, P) : i < k =>
            \E j, l \in DOMAIN s : j < l /\ Those(s, P)[i] = s[j] /\ Those(s, P)[k] = s[l]
  <2>1. s \in Seq(1..n)
        BY <1>2
  <2>2. /\ Those(s, P) \in Seq(1..n)
        /\ \A i \in DOMAIN Those(s, P) :
              Those(s, P)[i] \in P /\ \E j \in DOMAIN s : Those(s, P)[i] = s[j]
        /\ \A i, k \in DOMAIN Those(s, P) : i < k =>
              \E j, l \in DOMAIN s : j < l /\ Those(s, P)[i] = s[j] /\ Those(s, P)[k] = s[l]
        BY <2>1, ThoseAreSome
  <2>3. QED
        BY <2>2
<1>5. ASSUME NEW i \in DOMAIN Those(s, P), NEW k \in DOMAIN Those(s, P), i < k
      PROVE  Those(s, P)[i] < Those(s, P)[k]
  <2>1. PICK j, l \in DOMAIN s : j < l /\ Those(s, P)[i] = s[j] /\ Those(s, P)[k] = s[l]
        BY <1>4, <1>5
  <2>2. QED
        BY <1>2, <2>1
<1>6. QED
      BY <1>3, <1>4, <1>5 DEF n

LEMMA PagesOfPart ==
    ASSUME NEW b \in Books, NEW i
    PROVE  PagesOf(b, i) \subseteq 1..Pages[b] /\ \A p \in PagesOf(b, i) : PartOf(p) = i - 1
BY DEF PagesOf, PartOf

\* What a job leaves of a part is in order.
LEMMA LeavesOfPart ==
    ASSUME NEW b \in Books, NEW i, NEW r \in Results(PagesOf(b, i))
    PROVE  /\ r.json \subseteq PagesOf(b, i)
           /\ Leaves(b, r) \in Seq(Leaf(b)) /\ InPageOrder(Leaves(b, r))
           /\ \A k \in DOMAIN Leaves(b, r) :
                 Leaves(b, r)[k] # Blank => Leaves(b, r)[k] \in PagesOf(b, i)
<1>1. r.pages \subseteq PagesOf(b, i) /\ r.json \subseteq PagesOf(b, i)
      BY DEF Results
<1>2. Pages[b] \in Nat \ {0}
      BY BookFacts
<1>3. CASE r.pages = {}
  <2>1. Leaves(b, r) = <<Blank>>
        BY <1>3 DEF Leaves
  <2>2. <<Blank>> \in Seq(Leaf(b))
        BY <1>2 DEF Leaf, Blank
  <2>3. DOMAIN <<Blank>> = 1..1 /\ <<Blank>>[1] = Blank
        OBVIOUS
  <2>4. QED
        BY <1>1, <2>1, <2>2, <2>3 DEF InPageOrder
<1>4. CASE r.pages # {}
  <2> DEFINE s == InOrder(b, r.pages)
  <2>1. Leaves(b, r) = s
        BY <1>4 DEF Leaves
  <2>2. /\ s \in Seq(1..Pages[b]) /\ \A k \in DOMAIN s : s[k] \in r.pages
        /\ \A j, k \in DOMAIN s : j < k => s[j] < s[k]
        BY <1>1, PagesInASet, PagesOfPart
  <2> HIDE DEF s
  <2>3. s \in Seq(Leaf(b))
    <3>1. 1..Pages[b] \subseteq Leaf(b)
          BY <1>2 DEF Leaf
    <3>2. QED
          BY <2>2, <3>1, SeqMonotonic
  <2>4. QED
        BY <1>1, <2>1, <2>2, <2>3 DEF InPageOrder
<1>5. QED
      BY <1>3, <1>4

\* Two pieces that are in order are so together if the second goes on from the first.
LEMMA JoinedInOrder ==
    ASSUME NEW n \in Nat, NEW s \in Seq(0..n), NEW t \in Seq(0..n),
           InPageOrder(s), InPageOrder(t),
           \A i \in DOMAIN s, k \in DOMAIN t : t[k] # Blank => s[i] < t[k]
    PROVE  InPageOrder(s \o t)
<1> DEFINE u == s \o t
<1>1. /\ DOMAIN s = 1..Len(s) /\ DOMAIN t = 1..Len(t) /\ Len(s) \in Nat /\ Len(t) \in Nat
      /\ u \in Seq(0..n)
      BY LenProperties
<1>2. /\ DOMAIN u = 1..(Len(s) + Len(t))
      /\ \A i \in 1..(Len(s) + Len(t)) : u[i] = IF i <= Len(s) THEN s[i] ELSE t[i - Len(s)]
      BY <1>1, ConcatProperties, LenProperties
<1> HIDE DEF u
<1>3. ASSUME NEW i \in DOMAIN u, NEW j \in DOMAIN u, i < j, u[j] # Blank PROVE u[i] < u[j]
  <2>1. CASE j <= Len(s)
    <3>1. i \in DOMAIN s /\ j \in DOMAIN s /\ u[i] = s[i] /\ u[j] = s[j]
          BY <1>1, <1>2, <1>3, <2>1
    <3>2. QED
          BY <1>3, <3>1 DEF InPageOrder
  <2>2. CASE i <= Len(s) /\ ~(j <= Len(s))
    <3>1. i \in DOMAIN s /\ j - Len(s) \in DOMAIN t /\ u[i] = s[i] /\ u[j] = t[j - Len(s)]
          BY SMTT(20), <1>1, <1>2, <1>3, <2>2
    <3>2. QED
          BY <1>3, <3>1
  <2>3. CASE ~(i <= Len(s))
    <3>1. /\ i - Len(s) \in DOMAIN t /\ j - Len(s) \in DOMAIN t
          /\ u[i] = t[i - Len(s)] /\ u[j] = t[j - Len(s)] /\ i - Len(s) < j - Len(s)
      <4>1. i \in 1..(Len(s) + Len(t)) /\ j \in 1..(Len(s) + Len(t)) /\ ~(j <= Len(s))
            BY <1>1, <1>2, <1>3, <2>3
      <4>2. u[i] = t[i - Len(s)] /\ u[j] = t[j - Len(s)]
            BY <1>2, <2>3, <4>1
      <4>3. /\ i - Len(s) \in 1..Len(t) /\ j - Len(s) \in 1..Len(t)
            /\ i - Len(s) < j - Len(s)
            BY SMTT(20), <1>1, <1>3, <2>3, <4>1
      <4>4. QED
            BY <1>1, <4>2, <4>3
    <3>2. QED
          BY <1>3, <3>1 DEF InPageOrder
  <2>4. QED
        BY <1>2, <2>1, <2>2, <2>3
<1>4. QED
      BY <1>3 DEF InPageOrder, u

-----------------------------------------------------------------------------
(***************************************************************************)
(* Chunks and points.                                                      *)
(***************************************************************************)
\* A chunk of a document of n pages that has text: pages that are not blank,
\* and a range.
Text(n)  == Seq(1..n)
Chunk(n) == {c \in [text: Text(n), from: Nat, to: Nat] : 1 <= c.from /\ c.from <= c.to}

\* What AddPage has gathered after some pages.
Gathered(n, k) ==
    {w \in [page: {k}, from: Nat, to: Nat, text: Text(n), out: Seq(Chunk(n))] :
        1 <= w.from /\ w.from <= w.to /\ w.to <= k + 1 /\ (w.text = <<>> \/ w.to <= k)}

\* What is emitted is a chunk, or nothing.
LEMMA ChunkIsEmitted ==
    ASSUME NEW b, NEW n \in Nat, NEW out \in Seq(Chunk(n)), NEW text \in Text(n),
           NEW from \in Nat, NEW to \in Nat, 1 <= from, from <= to
    PROVE  Emit(b, out, text, from, to) \in Seq(Chunk(n))
<1> DEFINE chunk == [text |-> text, from |-> from, to |-> to]
<1>1. chunk \in Chunk(n)
      BY DEF Chunk
<1>2. Emit(b, out, text, from, to) = IF TooShort(b, text) THEN out ELSE Append(out, chunk)
      BY DEF Emit
<1> HIDE DEF chunk
<1>3. Append(out, chunk) \in Seq(Chunk(n))
      BY <1>1
<1>4. QED
      BY <1>2, <1>3

LEMMA PageIsAdded ==
    ASSUME NEW b, NEW n \in Nat, NEW k \in Nat, NEW w \in Gathered(n, k), NEW leaf \in 0..n
    PROVE  AddPage(b, w, leaf) \in Gathered(n, k + 1)
<1> DEFINE page == w.page + 1
           text == Append(w.text, leaf)
           from == IF w.text = <<>> THEN page ELSE w.from
           rest == SubSeq(text, MaxChars - Overlap + 1, Len(text))
           blank == [w EXCEPT !.page = page]
           more  == [w EXCEPT !.page = page, !.to = page, !.text = text, !.from = from]
           cut   == Emit(b, w.out, text, from, page)
           full  == [page |-> page, to |-> page, text |-> rest, from |-> page, out |-> cut]
<1>1. /\ w = [page |-> w.page, from |-> w.from, to |-> w.to, text |-> w.text, out |-> w.out]
      /\ w.page = k /\ w.from \in Nat /\ w.to \in Nat /\ w.text \in Text(n) /\ w.out \in Seq(Chunk(n))
      /\ 1 <= w.from /\ w.from <= w.to /\ w.to <= k + 1 /\ (w.text = <<>> \/ w.to <= k)
      BY DEF Gathered
<1>2. AddPage(b, w, leaf) = IF leaf = Blank THEN blank ELSE IF Len(text) < MaxChars THEN more ELSE full
      BY DEF AddPage
<1>3. blank \in Gathered(n, k + 1)
  <2>1. blank = [page |-> k + 1, from |-> w.from, to |-> w.to, text |-> w.text, out |-> w.out]
        BY <1>1
  <2> HIDE DEF blank
  <2>2. w.to <= k + 2
        BY <1>1
  <2>3. QED
        BY <1>1, <2>1, <2>2 DEF Gathered
<1>4. ASSUME leaf # Blank PROVE more \in Gathered(n, k + 1) /\ full \in Gathered(n, k + 1)
  <2>1. leaf \in 1..n
        BY <1>4 DEF Blank
  <2>2. text \in Text(n) /\ Len(text) \in Nat
        BY <1>1, <2>1 DEF Text
  <2>3. from \in Nat /\ 1 <= from /\ from <= k + 1 /\ page = k + 1
        BY <1>1
  <2>4. rest \in Text(n)
    <3>1. MaxChars - Overlap + 1 \in Nat \ {0}
          BY CorpusAssumption
    <3> HIDE DEF text
    <3>2. QED
          BY <2>2, <3>1, SubSeqProperties DEF Text
  <2>5. more = [page |-> k + 1, from |-> from, to |-> k + 1, text |-> text, out |-> w.out]
    <3>1. more = [w EXCEPT !.page = k + 1, !.to = k + 1, !.text = text, !.from = from]
          BY <2>3
    <3> HIDE DEF more, text, from, page
    <3>2. QED
          BY <1>1, <3>1
  <2>6. from <= page /\ page \in Nat
        BY <2>3
  <2>7. cut \in Seq(Chunk(n))
    <3> HIDE DEF text, from, page
    <3>1. QED
          BY <1>1, <2>2, <2>3, <2>6, ChunkIsEmitted
  <2> HIDE DEF text, from, page, rest, cut, more
  <2>8. more \in Gathered(n, k + 1)
        BY <1>1, <2>2, <2>3, <2>5 DEF Gathered
  <2>9. full \in Gathered(n, k + 1)
        BY <2>3, <2>4, <2>7 DEF Gathered
  <2>10. QED
         BY <2>8, <2>9
<1> HIDE DEF blank, more, full, text
<1>5. QED
      BY <1>2, <1>3, <1>4

\* Buffer is the loop over a document's pages.
LEMMA PagesAreGathered ==
    ASSUME NEW b, NEW n \in Nat, NEW leaves \in Seq(0..n)
    PROVE  Buffer(b, leaves) \in Gathered(n, Len(leaves))
<1> DEFINE m == Len(leaves)
           Eq(f) == f = [k \in 0..m |-> IF k = 0 THEN Start ELSE AddPage(b, f[k - 1], leaves[k])]
           All == UNION {Gathered(n, k) : k \in Nat}
           step == [k \in 1..m |-> [w \in All |-> AddPage(b, w, leaves[k])]]
<1>1. m \in Nat /\ \A k \in 1..m : leaves[k] \in 0..n
      BY LenProperties
<1>2. Start \in Gathered(n, 0)
  <2>1. <<>> \in Text(n) /\ <<>> \in Seq(Chunk(n))
        BY DEF Text
  <2>2. QED
        BY <2>1 DEF Start, Gathered
<1>3. ASSUME NEW k \in 1..m, NEW w \in All PROVE step[k][w] = AddPage(b, w, leaves[k])
      BY <1>3
<1>4. ASSUME NEW k \in 1..m, NEW w \in All PROVE step[k][w] \in All
  <2>1. PICK j \in Nat : w \in Gathered(n, j)
        OBVIOUS
  <2>2. AddPage(b, w, leaves[k]) \in Gathered(n, j + 1)
        BY <1>1, <2>1, PageIsAdded
  <2>3. j + 1 \in Nat
        OBVIOUS
  <2>4. AddPage(b, w, leaves[k]) \in All
        BY <2>2, <2>3
  <2>5. QED
        BY <1>3, <2>4
<1>5. Start \in All
      BY <1>2
<1>6. \E f : Eq(f)
  <2> HIDE DEF m, Eq, All, step
  <2>1. PICK f : IsLoop(f, Start, step, m)
        BY <1>1, LoopIsDefined
  <2>2. \A k \in 0..m : f[k] \in All
        BY <1>1, <1>4, <1>5, <2>1, LoopStays
  <2>3. ASSUME NEW k \in 0..m, k # 0 PROVE step[k][f[k - 1]] = AddPage(b, f[k - 1], leaves[k])
    <3>1. k \in 1..m /\ k - 1 \in 0..m
          BY <1>1, <2>3
    <3>2. QED
          BY <1>3, <2>2, <3>1
  <2>4. f = [k \in 0..m |-> IF k = 0 THEN Start ELSE AddPage(b, f[k - 1], leaves[k])]
        BY <2>1, <2>3 DEF IsLoop
  <2>5. QED
        BY <2>4 DEF Eq
<1> DEFINE r == CHOOSE f : Eq(f)
<1>7. Eq(r)
  <2> HIDE DEF Eq
  <2>1. QED
        BY <1>6
<1>8. Buffer(b, leaves) = r[m]
      BY DEF Buffer
<1>9. r[0] = Start /\ \A k \in 1..m : r[k] = AddPage(b, r[k - 1], leaves[k])
  <2> HIDE DEF r
  <2>1. r = [k \in 0..m |-> IF k = 0 THEN Start ELSE AddPage(b, r[k - 1], leaves[k])]
        BY <1>7
  <2> HIDE DEF m
  <2>2. 0 \in 0..m /\ \A k \in 1..m : k \in 0..m /\ k # 0
        BY <1>1
  <2>3. QED
        BY <2>1, <2>2
<1> DEFINE B == {k \in 0..m : r[k] \in Gathered(n, k)}
<1> HIDE DEF r, m
<1>10. 0 \in B
       BY <1>1, <1>2, <1>9
<1>11. ASSUME NEW k \in 1..m, k - 1 \in B PROVE k \in B
  <2>1. r[k - 1] \in Gathered(n, k - 1) /\ k - 1 \in Nat /\ leaves[k] \in 0..n
        BY <1>1, <1>11
  <2>2. AddPage(b, r[k - 1], leaves[k]) \in Gathered(n, (k - 1) + 1)
        BY <2>1, PageIsAdded
  <2>3. (k - 1) + 1 = k /\ k \in 0..m
        BY <1>1
  <2>4. QED
        BY <1>9, <2>2, <2>3
<1> HIDE DEF B
<1>12. m \in B
  <2>1. \A k \in 0..m : k \in B
        BY <1>1, <1>10, <1>11, StepByStep
  <2>2. QED
        BY <1>1, <2>1
<1>13. QED
       BY <1>8, <1>12 DEF B, m

LEMMA ChunksHaveText ==
    ASSUME NEW b \in Books, doc[b] \in Seq(Leaf(b))
    PROVE  ChunksOf(b) \in Seq(Chunk(Pages[b]))
<1> DEFINE n == Pages[b]
           w == Buffer(b, doc[b])
<1>1. n \in Nat
      BY BookFacts
<1>2. w \in Gathered(n, Len(doc[b]))
      BY <1>1, PagesAreGathered DEF Leaf
<1>3. ChunksOf(b) = Emit(b, w.out, w.text, w.from, w.to)
      BY DEF ChunksOf
<1> HIDE DEF w, n
<1>4. /\ w.out \in Seq(Chunk(n)) /\ w.text \in Text(n) /\ w.from \in Nat /\ w.to \in Nat
      /\ 1 <= w.from /\ w.from <= w.to
      BY <1>2 DEF Gathered
<1>5. ChunksOf(b) \in Seq(Chunk(n))
      BY <1>1, <1>3, <1>4, ChunkIsEmitted
<1>6. QED
      BY <1>5 DEF n

\* Every vector is of the text at its place, as no chunk's text is blank.
LEMMA TextIsNotBlank == ASSUME NEW n, NEW t \in Text(n) PROVE t # <<Blank>>
<1> SUFFICES ASSUME t = <<Blank>> PROVE FALSE
    OBVIOUS
<1>1. Len(t) = 1 /\ t[1] = Blank
      OBVIOUS
<1>2. t[1] \in 1..n
      BY <1>1, ElementOfSeq DEF Text
<1>3. QED
      BY <1>1, <1>2 DEF Blank

LEMMA VectorsAreOfTexts ==
    ASSUME NEW n, NEW chunks \in Seq(Chunk(n))
    PROVE  /\ DOMAIN Vectors(chunks) = 1..Len(chunks) /\ Len(chunks) \in Nat
           /\ \A i \in 1..Len(chunks) :
                 chunks[i] \in Chunk(n) /\ Vectors(chunks)[i] = chunks[i].text
<1> DEFINE S == {chunk \in ToSet(chunks) : chunk.text # <<Blank>>}
<1>1. /\ DOMAIN chunks = 1..Len(chunks) /\ Len(chunks) \in Nat
      /\ \A i \in 1..Len(chunks) : chunks[i] \in Chunk(n)
      BY LenProperties
<1>2. ASSUME NEW i \in DOMAIN chunks PROVE chunks[i] \in S
  <2>1. chunks[i].text \in Text(n)
        BY <1>1 DEF Chunk
  <2>2. chunks[i].text # <<Blank>>
        BY <2>1, TextIsNotBlank
  <2>3. QED
        BY <2>2 DEF ToSet
<1>3. WithText(chunks) = Those(chunks, S)
      BY DEF WithText
<1> HIDE DEF S
<1>4. WithText(chunks) = chunks
      BY <1>2, <1>3, ThoseAreSome
<1>5. QED
      BY <1>1, <1>4 DEF Vectors

LEMMA PagesHaveText ==
    ASSUME NEW b \in Books, doc[b] \in Seq(Leaf(b))
    PROVE  PagesWithText(b) \in Seq(Chunk(Pages[b]))
<1> DEFINE n == Pages[b]
           d == doc[b]
           Raw == [text: Seq(0..n), from: Nat, to: Nat]
           chunk(p) == [text |-> <<d[p]>>, from |-> p, to |-> p]
           chunks == [p \in 1..Len(d) |-> chunk(p)]
           S == {c \in ToSet(chunks) : c.text # <<Blank>>}
           s == Those(chunks, S)
<1>1. n \in Nat /\ Len(d) \in Nat /\ \A p \in 1..Len(d) : d[p] \in 0..n
      BY BookFacts, LenProperties DEF Leaf
<1>2. PagesWithText(b) = s
      BY DEF PagesWithText, WithText
<1>3. ASSUME NEW p \in 1..Len(d) PROVE chunk(p) \in Raw
  <2>1. <<d[p]>> \in Seq(0..n)
        BY <1>1
  <2>2. QED
        BY <1>1, <2>1
<1>4. chunks \in Seq(Raw) /\ DOMAIN chunks = 1..Len(d) /\ \A p \in 1..Len(d) : chunks[p] = chunk(p)
  <2>1. chunks \in [1..Len(d) -> Raw]
    <3> HIDE DEF Raw, chunk
    <3>1. QED
          BY <1>3
  <2>2. QED
        BY <1>1, <2>1
<1>5. /\ s \in Seq(Raw)
      /\ \A i \in DOMAIN s : s[i] \in S /\ \E j \in DOMAIN chunks : s[i] = chunks[j]
  <2> HIDE DEF Raw, chunks, chunk, S
  <2>1. QED
        BY <1>4, ThoseAreSome
<1>6. ASSUME NEW i \in DOMAIN s PROVE s[i] \in Chunk(n)
  <2> HIDE DEF s
  <2>1. s[i] \in S /\ s[i].text # <<Blank>>
        BY <1>5
  <2>2. PICK p \in 1..Len(d) : s[i] = chunk(p)
    <3> HIDE DEF S, chunk, chunks
    <3>1. QED
          BY <1>4, <1>5
  <2>3. d[p] # Blank
        BY <2>1, <2>2
  <2>4. d[p] \in 1..n
        BY <1>1, <2>3 DEF Blank
  <2>5. <<d[p]>> \in Text(n)
        BY <2>4 DEF Text
  <2>6. p \in Nat /\ 1 <= p
        BY <1>1
  <2>7. chunk(p) \in Chunk(n)
        BY <2>5, <2>6 DEF Chunk
  <2> HIDE DEF chunk
  <2>8. QED
        BY <2>2, <2>7
<1> HIDE DEF s, Raw
<1>7. s \in [1..Len(s) -> Chunk(n)] /\ Len(s) \in Nat
      BY <1>5, <1>6, LenProperties
<1>8. QED
      BY <1>2, <1>7

\* What is made of a document are points of its book, each with its own vector.
LEMMA PointsAreMade ==
    ASSUME NEW b \in Books, doc[b] \in Seq(Leaf(b)), NEW maker \in Makers
    PROVE  /\ Made(b, maker) \in Seq(PointSet)
           /\ \A i \in DOMAIN Made(b, maker) :
                 Made(b, maker)[i].key.book = b /\ Made(b, maker)[i].maker = maker
<1> DEFINE n == Pages[b]
           chunks == IF maker = "import" THEN ChunksOf(b) ELSE PagesWithText(b)
           vectors == Vectors(chunks)
           s == Made(b, maker)
           point(i) == Point(b, chunks[i], vectors[i], maker)
<1>1. n \in Nat /\ chunks \in Seq(Chunk(n))
      BY BookFacts, ChunksHaveText, PagesHaveText
<1>2. s = [i \in DOMAIN vectors |-> point(i)]
      BY DEF Made
<1> HIDE DEF s, chunks, n
<1>3. DOMAIN vectors = 1..Len(chunks) /\ Len(chunks) \in Nat
      /\ \A i \in 1..Len(chunks) : chunks[i] \in Chunk(n) /\ vectors[i] = chunks[i].text
      BY <1>1, VectorsAreOfTexts
<1> HIDE DEF vectors
<1>4. ASSUME NEW i \in 1..Len(chunks)
      PROVE  point(i) \in PointSet /\ point(i).key.book = b /\ point(i).maker = maker
  <2>1. PICK c \in Chunk(n) : c = chunks[i] /\ vectors[i] = c.text
        BY <1>3
  <2>2. /\ c.text \in Seq(1..n) /\ c.from \in Nat /\ c.to \in Nat /\ 1 <= c.from /\ c.from <= c.to
        BY DEF Chunk, Text
  <2>3. c.text \in Seq(Nat)
        BY <1>1, <2>2, SeqMonotonic
  <2>4. [book |-> b, text |-> c.text] \in KeySet
        BY <2>2, <2>3 DEF KeySet, IsKey, n
  <2>5. point(i) = [key |-> [book |-> b, text |-> c.text], from |-> c.from, to |-> c.to,
                    vector |-> c.text, maker |-> maker]
        BY <2>1 DEF Point
  <2> HIDE DEF point
  <2>6. IsKey([book |-> b, text |-> c.text])
        BY <2>4 DEF KeySet
  <2>7. QED
        BY <2>2, <2>3, <2>4, <2>5, <2>6 DEF PointSet, IsPoint, Makers
<1> HIDE DEF point
<1>5. s \in [1..Len(chunks) -> PointSet]
      BY <1>2, <1>3, <1>4
<1>6. s \in Seq(PointSet) /\ DOMAIN s = 1..Len(chunks)
      BY <1>3, <1>5
<1>7. \A i \in 1..Len(chunks) : s[i] = point(i)
      BY <1>2, <1>3
<1>8. QED
      BY <1>4, <1>6, <1>7 DEF s

-----------------------------------------------------------------------------
(***************************************************************************)
(* Lists of books, and collections.                                        *)
(***************************************************************************)
LEMMA ListFacts ==
    ASSUME NEW l \in Lists
    PROVE  /\ Len(l) \in Nat \ {0} /\ DOMAIN l = 1..Len(l)
           /\ Head(l) \in Books /\ 1 \in DOMAIN l /\ Head(l) = l[1]
           /\ Len(l) # 1 => /\ Tail(l) \in Lists
                            /\ \A n \in DOMAIN Tail(l) : \E m \in DOMAIN l : Tail(l)[n] = l[m]
<1>1. l \in Seq(Books) /\ l # <<>>
      BY DEF Lists
<1>2. Len(l) \in Nat \ {0} /\ DOMAIN l = 1..Len(l)
      BY <1>1, EmptySeq, LenProperties
<1>3. Head(l) \in Books /\ 1 \in DOMAIN l /\ Head(l) = l[1]
      BY <1>1, <1>2, HeadTailProperties
<1>4. ASSUME Len(l) # 1
      PROVE  Tail(l) \in Lists /\ \A n \in DOMAIN Tail(l) : \E m \in DOMAIN l : Tail(l)[n] = l[m]
  <2>1. /\ Tail(l) \in Seq(Books) /\ Len(Tail(l)) = Len(l) - 1
        /\ \A i \in 1..Len(Tail(l)) : Tail(l)[i] = l[i + 1]
        BY <1>1, HeadTailProperties
  <2>2. DOMAIN Tail(l) = 1..(Len(l) - 1)
        BY <2>1, LenProperties
  <2>3. Len(l) - 1 # 0
        BY <1>2, <1>4
  <2>4. Tail(l) # <<>>
        BY <2>1, <2>3, EmptySeq
  <2>5. ASSUME NEW n \in DOMAIN Tail(l) PROVE \E m \in DOMAIN l : Tail(l)[n] = l[m]
    <3>1. n + 1 \in DOMAIN l /\ Tail(l)[n] = l[n + 1]
          BY <1>2, <2>1, <2>2
    <3>2. QED
          BY <3>1
  <2>6. QED
        BY <2>1, <2>4, <2>5 DEF Lists
<1>5. QED
      BY <1>2, <1>3, <1>4

LEMMA SomeBooks ==
    ASSUME NEW l \in Lists, NEW S
    PROVE  /\ Those(l, S) # <<>> => Those(l, S) \in Lists
           /\ \A n \in DOMAIN Those(l, S) : Those(l, S)[n] \in S
           /\ \A n \in DOMAIN Those(l, S) : Those(l, S)[n] \in Books
<1>1. l \in Seq(Books)
      BY DEF Lists
<1>2. Those(l, S) \in Seq(Books) /\ \A n \in DOMAIN Those(l, S) : Those(l, S)[n] \in S
      BY <1>1, ThoseAreSome
<1>3. \A n \in DOMAIN Those(l, S) : Those(l, S)[n] \in Books
      BY <1>2, LenProperties, ElementOfSeq
<1>4. QED
      BY <1>2, <1>3 DEF Lists

\* What a script is told to go through is a list of books.
LEMMA SelectionsAreLists == ASSUME NEW l \in Selections PROVE l \in Lists
<1>1. ASSUME NEW b \in Books PROVE <<b>> \in Lists
      BY DEF Lists
<1>2. SetToSeq(Books) \in Lists
  <2> DEFINE n == Cardinality(Books)
  <2>1. IsFiniteSet(Books) /\ Books # {}
        BY ExtractionAssumption
  <2>2. n \in Nat /\ ExistsBijection(1..n, Books)
        BY <2>1, FS_CardinalityType
  <2>3. n # 0
        BY <2>1, FS_EmptySet
  <2>4. \E f \in [1..n -> Books] : IsInjective(f)
        BY <2>2 DEF ExistsBijection, Bijection, Injection
  <2>5. SetToSeq(Books) \in [1..n -> Books]
        BY <2>4 DEF SetToSeq
  <2> HIDE DEF n
  <2>6. SetToSeq(Books) \in Seq(Books) /\ Len(SetToSeq(Books)) = n
        BY <2>2, <2>5
  <2>7. SetToSeq(Books) # <<>>
        BY <2>3, <2>6, EmptySeq
  <2>8. QED
        BY <2>6, <2>7 DEF Lists
<1>3. QED
      BY <1>1, <1>2 DEF Selections

\* The last point of every name stays, one of each.
LEMMA LastOnesFacts ==
    ASSUME NEW s \in Seq(PointSet)
    PROVE  /\ IsCollection(LastOnes(s)) /\ LastOnes(s) \subseteq ToSet(s)
           /\ KeysIn(LastOnes(s)) = KeysIn(ToSet(s))
<1>1. Len(s) \in Nat /\ DOMAIN s = 1..Len(s) /\ \A i \in DOMAIN s : s[i] \in PointSet
      BY LenProperties, ElementOfSeq
<1>2. LastOnes(s) \subseteq ToSet(s)
      BY DEF LastOnes, ToSet
<1>3. LastOnes(s) \subseteq PointSet
      BY <1>1, <1>2 DEF ToSet
<1>4. IsFiniteSet(ToSet(s))
  <2>1. IsFiniteSet(1..Len(s))
        BY <1>1, FS_Interval
  <2>2. s \in Surjection(1..Len(s), ToSet(s))
        BY <1>1 DEF ToSet, Surjection
  <2>3. QED
        BY <2>1, <2>2, FS_Surjection
<1>5. IsFiniteSet(LastOnes(s))
      BY <1>2, <1>4, FS_Subset
<1>6. ASSUME NEW p \in LastOnes(s), NEW q \in LastOnes(s), p.key = q.key PROVE p = q
  <2>1. PICK i \in DOMAIN s : p = s[i] /\ \A m \in DOMAIN s : m > i => s[m].key # s[i].key
        BY DEF LastOnes
  <2>2. PICK j \in DOMAIN s : q = s[j] /\ \A m \in DOMAIN s : m > j => s[m].key # s[j].key
        BY DEF LastOnes
  <2>3. ~(j > i) /\ ~(i > j)
        BY <1>6, <2>1, <2>2
  <2>4. i = j
        BY <1>1, <2>3
  <2>5. QED
        BY <2>1, <2>2, <2>4
<1>7. ASSUME NEW i \in DOMAIN s PROVE \E p \in LastOnes(s) : p.key = s[i].key
  <2> DEFINE S == {n \in Nat : n < Len(s) /\ s[Len(s) - n].key = s[i].key}
  <2>1. Len(s) - i \in S
        BY <1>1
  <2>2. PICK n \in S : \A k \in S : n <= k
    <3>1. S \subseteq Nat /\ S # {}
          BY <2>1
    <3> HIDE DEF S
    <3>2. QED
          BY <3>1, LeastNumber
  <2> DEFINE j == Len(s) - n
  <2>3. j \in DOMAIN s /\ s[j].key = s[i].key
        BY <1>1, <2>2
  <2>4. ASSUME NEW m \in DOMAIN s, m > j PROVE s[m].key # s[j].key
    <3>1. Len(s) - m \in Nat /\ Len(s) - m < Len(s) /\ Len(s) - m < n /\ Len(s) - (Len(s) - m) = m
          BY <1>1, <2>2, <2>4
    <3>2. Len(s) - m \notin S
          BY <2>2, <3>1
    <3>3. s[m].key # s[i].key
          BY <3>1, <3>2
    <3>4. QED
          BY <2>3, <3>3
  <2> HIDE DEF j
  <2>5. s[j] \in LastOnes(s)
        BY <2>3, <2>4 DEF LastOnes
  <2>6. QED
        BY <2>3, <2>5
<1>8. KeysIn(LastOnes(s)) = KeysIn(ToSet(s))
  <2>1. ASSUME NEW p \in ToSet(s) PROVE \E q \in LastOnes(s) : q.key = p.key
        BY <1>7 DEF ToSet
  <2>2. KeysIn(ToSet(s)) \subseteq KeysIn(LastOnes(s))
        BY <2>1 DEF KeysIn
  <2>3. KeysIn(LastOnes(s)) \subseteq KeysIn(ToSet(s))
        BY <1>2 DEF KeysIn
  <2>4. QED
        BY <2>2, <2>3
<1>9. QED
      BY <1>2, <1>3, <1>5, <1>6, <1>8 DEF IsCollection

\* An upsert keeps the names that are there, and adds those of its batch.
LEMMA UpsertedFacts ==
    ASSUME IsCollection(points), NEW s \in Seq(PointSet)
    PROVE  /\ IsCollection(Upserted(s))
           /\ KeysIn(Upserted(s)) = KeysIn(points) \cup KeysIn(ToSet(s))
<1> DEFINE old == {p \in points : p.key \notin KeysIn(ToSet(s))}
           new == LastOnes(s)
<1>1. IsCollection(new) /\ KeysIn(new) = KeysIn(ToSet(s))
      BY LastOnesFacts
<1>2. IsCollection(old)
  <2>1. old \subseteq points
        OBVIOUS
  <2> HIDE DEF old
  <2>2. IsFiniteSet(old)
        BY <2>1, FS_Subset DEF IsCollection
  <2>3. QED
        BY <2>1, <2>2 DEF IsCollection
<1>3. \A p \in old, q \in new : p.key # q.key
  <2>1. \A q \in new : q.key \in KeysIn(new)
        BY DEF KeysIn
  <2>2. \A p \in old : p.key \notin KeysIn(ToSet(s))
        OBVIOUS
  <2> HIDE DEF old, new
  <2>3. QED
        BY <1>1, <2>1, <2>2
<1>4. Upserted(s) = old \cup new
      BY DEF Upserted
<1>5. IsFiniteSet(old \cup new)
  <2> HIDE DEF old, new
  <2>1. QED
        BY <1>1, <1>2, FS_Union DEF IsCollection
<1>6. KeysIn(old \cup new) = KeysIn(points) \cup KeysIn(ToSet(s))
  <2>1. KeysIn(old \cup new) = KeysIn(old) \cup KeysIn(new)
        BY DEF KeysIn
  <2>2. KeysIn(old) = KeysIn(points) \ KeysIn(ToSet(s))
        BY DEF KeysIn
  <2> HIDE DEF old, new
  <2>3. QED
        BY <1>1, <2>1, <2>2
<1> HIDE DEF old, new
<1>7. IsCollection(old \cup new)
      BY <1>1, <1>2, <1>3, <1>5 DEF IsCollection
<1>8. QED
      BY <1>4, <1>6, <1>7

\* A batch is taken from what is to be upserted, and the rest is left.
LEMMA SliceFacts ==
    ASSUME NEW T, script.todo \in Seq(T)
    PROVE  /\ Slice \in Seq(T) /\ AfterSlice \in Seq(T)
           /\ ToSet(script.todo) = ToSet(Slice) \cup ToSet(AfterSlice)
<1> DEFINE t == script.todo
           n == IF Len(t) < Batch THEN Len(t) ELSE Batch
<1>1. Len(t) \in Nat /\ DOMAIN t = 1..Len(t) /\ Batch \in Nat \ {0}
      /\ n \in 0..Len(t) /\ n \in Nat /\ n <= Len(t)
      BY LenProperties, CorpusAssumption
<1>2. Slice = SubSeq(t, 1, n)
      BY DEF Slice
<1>3. \A i \in 1..Len(t) : t[i] \in T
      BY ElementOfSeq
<1> HIDE DEF t, n
<1>4. Slice \in Seq(T) /\ Len(Slice) = n /\ \A i \in 1..n : Slice[i] = t[i]
  <2>1. 1 \in Int /\ n \in Int /\ \A i \in 1..n : t[i] \in T
        BY <1>1, <1>3
  <2>2. /\ SubSeq(t, 1, n) \in Seq(T)
        /\ Len(SubSeq(t, 1, n)) = IF 1 <= n THEN n - 1 + 1 ELSE 0
        /\ \A i \in 1..(n - 1 + 1) : SubSeq(t, 1, n)[i] = t[1 + i - 1]
        BY <2>1, SubSeqProperties
  <2>3. n - 1 + 1 = n /\ \A i \in 1..n : 1 + i - 1 = i
        BY <1>1
  <2>4. (IF 1 <= n THEN n - 1 + 1 ELSE 0) = n
        BY <1>1
  <2>5. QED
        BY <1>2, <2>2, <2>3, <2>4
<1>5. AfterSlice = SubSeq(t, n + 1, Len(t))
      BY <1>4 DEF AfterSlice, t
<1>6. /\ AfterSlice \in Seq(T) /\ Len(AfterSlice) = Len(t) - n
      /\ \A i \in 1..(Len(t) - n) : AfterSlice[i] = t[n + i]
  <2>1. n + 1 \in Int /\ Len(t) \in Int /\ \A i \in (n + 1)..Len(t) : t[i] \in T
        BY <1>1, <1>3
  <2>2. /\ SubSeq(t, n + 1, Len(t)) \in Seq(T)
        /\ Len(SubSeq(t, n + 1, Len(t))) = IF n + 1 <= Len(t) THEN Len(t) - (n + 1) + 1 ELSE 0
        /\ \A i \in 1..(Len(t) - (n + 1) + 1) : SubSeq(t, n + 1, Len(t))[i] = t[n + 1 + i - 1]
        BY <2>1, SubSeqProperties
  <2>3. Len(t) - (n + 1) + 1 = Len(t) - n /\ \A i \in 1..(Len(t) - n) : n + 1 + i - 1 = n + i
        BY <1>1
  <2>4. (IF n + 1 <= Len(t) THEN Len(t) - (n + 1) + 1 ELSE 0) = Len(t) - n
    <3>1. ASSUME NEW k \in Nat, NEW m \in Nat, k <= m
          PROVE  (IF k + 1 <= m THEN m - (k + 1) + 1 ELSE 0) = m - k
          BY <3>1
    <3>2. QED
          BY <1>1, <3>1
  <2>5. QED
        BY <1>5, <2>2, <2>3, <2>4
<1>7. DOMAIN Slice = 1..n /\ DOMAIN AfterSlice = 1..(Len(t) - n)
      BY <1>4, <1>6, LenProperties
<1>8. ToSet(Slice) \subseteq ToSet(t) /\ ToSet(AfterSlice) \subseteq ToSet(t)
  <2>1. \A i \in 1..n : i \in DOMAIN t
        BY <1>1
  <2>2. \A i \in 1..(Len(t) - n) : n + i \in DOMAIN t
        BY <1>1
  <2>3. QED
        BY <1>4, <1>6, <1>7, <2>1, <2>2 DEF ToSet
<1>9. ASSUME NEW i \in DOMAIN t PROVE t[i] \in ToSet(Slice) \cup ToSet(AfterSlice)
  <2>1. CASE i <= n
    <3>1. i \in DOMAIN Slice /\ t[i] = Slice[i]
          BY <1>1, <1>4, <1>7, <2>1
    <3>2. QED
          BY <3>1 DEF ToSet
  <2>2. CASE ~(i <= n)
    <3>1. i - n \in 1..(Len(t) - n) /\ n + (i - n) = i
          BY <1>1, <2>2
    <3>2. i - n \in DOMAIN AfterSlice /\ t[i] = AfterSlice[i - n]
          BY <1>6, <1>7, <3>1
    <3>3. QED
          BY <3>2 DEF ToSet
  <2>3. QED
        BY <2>1, <2>2
<1>10. ToSet(t) \subseteq ToSet(Slice) \cup ToSet(AfterSlice)
       BY <1>9 DEF ToSet
<1>11. QED
       BY <1>4, <1>6, <1>8, <1>10 DEF t

\* There is a subset of every size up to the set's.
LEMMA SubsetOfSize ==
    ASSUME NEW S, IsFiniteSet(S), NEW n \in 0..Cardinality(S)
    PROVE  \E R \in SUBSET S : Cardinality(R) = n
<1>1. Cardinality(S) \in Nat /\ ExistsBijection(1..Cardinality(S), S)
      BY FS_CardinalityType
<1>2. PICK f \in [1..Cardinality(S) -> S] :
           \A a, b \in 1..Cardinality(S) : f[a] = f[b] => a = b
      BY <1>1 DEF ExistsBijection, Bijection, Injection, IsInjective
<1> DEFINE R == {f[i] : i \in 1..n}
           g == [i \in 1..n |-> f[i]]
<1>3. n \in Nat /\ \A i \in 1..n : i \in 1..Cardinality(S)
      BY <1>1
<1>4. R \in SUBSET S
      BY <1>2, <1>3
<1>5. g \in Bijection(1..n, R)
      BY <1>2, <1>3 DEF Bijection, Injection, Surjection, IsInjective
<1>6. ExistsBijection(1..n, R)
      BY <1>5 DEF ExistsBijection
<1> HIDE DEF R, g
<1>7. Cardinality(R) = n
      BY <1>3, <1>6, FS_CountingElements
<1>8. QED
      BY <1>4, <1>7

\* A round takes some of the chunks that are left, if any are.
LEMMA RoundIsOfTodo ==
    ASSUME IsFiniteSet(script.todo), script.todo # {}
    PROVE  Round \subseteq script.todo
<1> DEFINE left(name) == {p \in script.todo : Name(p) = name}
           size(name) == IF Cardinality(left(name)) < Batch THEN Cardinality(left(name)) ELSE Batch
           Fits(R) == \E name \in Groups(R) : R \subseteq left(name) /\ Cardinality(R) = size(name)
<1>1. PICK q \in script.todo : TRUE
      OBVIOUS
<1> DEFINE name == Name(q)
<1>2. q \in left(name) /\ left(name) \in SUBSET script.todo
      OBVIOUS
<1>3. IsFiniteSet(left(name)) /\ left(name) # {}
      BY <1>2, FS_Subset
<1>4. size(name) \in 0..Cardinality(left(name)) /\ size(name) # 0
  <2> HIDE DEF left, name
  <2>1. Cardinality(left(name)) \in Nat /\ Cardinality(left(name)) # 0
        BY <1>3, FS_CardinalityType, FS_EmptySet
  <2>2. QED
        BY <2>1, CorpusAssumption
<1>5. PICK R \in SUBSET left(name) : Cardinality(R) = size(name)
  <2> HIDE DEF left, name, size
  <2>1. QED
        BY <1>3, <1>4, SubsetOfSize
<1>6. R # {}
      BY <1>4, <1>5, FS_EmptySet
<1>7. name \in Groups(R)
      BY <1>5, <1>6 DEF Groups
<1>8. R \in SUBSET script.todo /\ Fits(R)
      BY <1>5, <1>7
<1>9. Round = CHOOSE X \in SUBSET script.todo : Fits(X)
      BY DEF Round
<1> HIDE DEF Fits
<1>10. QED
       BY <1>8, <1>9

-----------------------------------------------------------------------------
(***************************************************************************)
(* Scripts, and what a step leaves alone.                                  *)
(***************************************************************************)
LEMMA ScriptKinds ==
    ASSUME NEW s, IsScript(s)
    PROVE  /\ s.name = "extract" => IsExtract(s)
           /\ s.name = "mend" => IsMend(s)
           /\ s.name = "import" => IsImport(s)
           /\ s.name = "ingest" /\ s.step # "graph" => IsIngest(s)
           /\ s.name = "ingest" /\ s.step = "graph" => IsIngestGraph(s)
           /\ s.name = "units" => IsUnits(s)
           /\ s.name \in {"graph", "build"} => IsGraph(s)
           /\ s.name = "backup" => IsBackup(s)
           /\ s.name = "restore" => IsRestore(s)
<1>1. CASE s = Idle
  <2>1. s.name = "none"
        BY <1>1 DEF Idle
  <2>2. QED
        BY <2>1
<1>2. CASE IsExtract(s)
      BY <1>2 DEF IsExtract
<1>3. CASE IsMend(s)
      BY <1>3 DEF IsMend
<1>4. CASE IsImport(s)
      BY <1>4 DEF IsImport
<1>5. CASE s.name = "ingest" /\ s.step # "graph" /\ IsIngest(s)
      BY <1>5
<1>6. CASE s.name = "ingest" /\ s.step = "graph" /\ IsIngestGraph(s)
      BY <1>6
<1>7. CASE IsUnits(s)
      BY <1>7 DEF IsUnits
<1>8. CASE IsGraph(s)
      BY <1>8 DEF IsGraph
<1>9. CASE IsBackup(s)
      BY <1>9 DEF IsBackup
<1>10. CASE IsRestore(s)
       BY <1>10 DEF IsRestore
<1>11. QED
       BY <1>1, <1>2, <1>3, <1>4, <1>5, <1>6, <1>7, <1>8, <1>9, <1>10 DEF IsScript

\* From one book to the next.
LEMMA NextFolderFacts ==
    ASSUME IsImport(script) \/ IsIngest(script) \/ IsIngestGraph(script)
    PROVE  \/ NextFolder = Idle
           \/ /\ IsScript(NextFolder)
              /\ NextFolder.name = script.name /\ NextFolder.step = "book"
              /\ \A n \in DOMAIN NextFolder.books :
                    \E m \in DOMAIN script.books : NextFolder.books[n] = script.books[m]
<1> DEFINE start == [script EXCEPT !.step = "book", !.todo = <<>>]
           next == [start EXCEPT !.books = Tail(@)]
<1>1. script.books \in Lists
      BY DEF IsImport, IsIngest, IsIngestGraph
<1>2. NextFolder = IF Len(script.books) = 1 THEN Idle ELSE next
      BY DEF NextFolder, NextBook
<1>3. ASSUME Len(script.books) # 1
      PROVE  /\ IsScript(next) /\ next.name = script.name /\ next.step = "book"
             /\ next.books = Tail(script.books)
  <2>1. Tail(script.books) \in Lists
        BY <1>1, <1>3, ListFacts
  <2>2. <<>> \in Seq(PointSet)
        OBVIOUS
  <2>3. CASE IsImport(script)
    <3>1. /\ start.books = script.books
          /\ start \in [name: {"import"}, step: {"book", "upsert"}, books: Lists, force: BOOLEAN,
                        todo: Seq(PointSet)]
          BY <2>2, <2>3 DEF IsImport
    <3> HIDE DEF start
    <3>2. IsImport(next) /\ next.name = script.name /\ next.books = Tail(script.books)
          BY <2>1, <2>3, <3>1 DEF IsImport
    <3>3. next.step = start.step
          BY <3>1
    <3>4. QED
          BY <3>2, <3>3, <2>3 DEF IsScript, start, IsImport
  <2>4. CASE IsIngest(script) \/ IsIngestGraph(script)
    <3>1. /\ start.books = script.books /\ start.step = "book"
          /\ start \in [name: {"ingest"}, step: {"book", "upsert", "units"}, books: Lists,
                        todo: Seq(PointSet)]
          BY <2>2, <2>4 DEF IsIngest, IsIngestGraph
    <3> HIDE DEF start
    <3>2. /\ IsIngest(next) /\ next.name = "ingest" /\ next.books = Tail(script.books)
          /\ next.step = "book"
          BY <2>1, <3>1 DEF IsIngest
    <3>3. script.name = "ingest"
          BY <2>4 DEF IsIngest, IsIngestGraph
    <3> HIDE DEF next
    <3>4. QED
          BY <3>2, <3>3 DEF IsScript
  <2>5. QED
        BY <2>3, <2>4
<1>4. QED
      BY <1>1, <1>2, <1>3, ListFacts

\* Made of the same document, points are the same.
LEMMA MadeOfSame ==
    ASSUME NEW b, NEW maker, doc'[b] = doc[b]
    PROVE  Made(b, maker)' = Made(b, maker)
<1>1. ChunksOf(b)' = ChunksOf(b)
      BY DEF ChunksOf
<1>2. PagesWithText(b)' = PagesWithText(b)
      BY DEF PagesWithText
<1>3. QED
      BY <1>1, <1>2 DEF Made

LEMMA SameCovers ==
    ASSUME NEW b, NEW maker, doc'[b] = doc[b], points' = points, Covers(b, maker)
    PROVE  Covers(b, maker)'
<1>1. Made(b, maker)' = Made(b, maker)
      BY MadeOfSame
<1>2. PointsOf(b)' = PointsOf(b)
      BY DEF PointsOf
<1>3. QED
      BY <1>1, <1>2 DEF Covers

LEMMA WholeKept ==
    ASSUME WholeInv, points' = points, unfinished \subseteq unfinished',
           \A b \in Books : b \in unfinished' \/ PointsOf(b) = {} \/ doc'[b] = doc[b]
    PROVE  WholeInv'
<1>1. ASSUME NEW b \in Books \ unfinished', PointsOf(b)' # {}
      PROVE  \E maker \in Makers : Covers(b, maker)'
  <2>1. PointsOf(b)' = PointsOf(b)
        BY DEF PointsOf
  <2>2. doc'[b] = doc[b] /\ b \in Books \ unfinished
        BY <1>1, <2>1
  <2>3. PICK maker \in Makers : Covers(b, maker)
        BY <1>1, <2>1, <2>2 DEF WholeInv
  <2>4. QED
        BY <2>2, <2>3, SameCovers
<1>2. QED
      BY <1>1 DEF WholeInv

\* Steps of other scripts, and those that start or end one of them.
LEMMA NotGathering == ASSUME script'.name # "extract" PROVE GatherInv'
BY DEF GatherInv

LEMMA NotMending == ASSUME script'.name # "mend" PROVE MendInv'
BY DEF MendInv

LEMMA NotUpserting == ASSUME script'.name \notin {"import", "ingest"} PROVE UpsertInv'
BY DEF UpsertInv

LEMMA NotForUnits == ASSUME script'.name # "units" PROVE TodoInv'
BY DEF TodoInv

LEMMA EarnedKept ==
    ASSUME EarnedInv, UNCHANGED <<units, graph, checkpoint, wentBack, barren>>,
           script'.name # "units",
           ~(script'.name \in {"graph", "build", "ingest"} /\ script'.step = "graph")
    PROVE  EarnedInv'
BY DEF EarnedInv, RecordsAreEarned

LEMMA RepeatKept ==
    ASSUME RepeatInv, UNCHANGED <<units, checkpoint, dump, forgetful>>,
           script.name # "units", script'.name # "units"
    PROVE  RepeatInv'
BY DEF RepeatInv, ChunksWith, Single

LEMMA CountsKept ==
    ASSUME HistoryInv, UNCHANGED <<unfinished, forgetful, wentBack, barren, losses>>,
           \/ Carry \/ BreaksOff
           \/ commands < MaxCommands /\ commands' = commands + 1 /\ UNCHANGED breaks
    PROVE  HistoryInv'
<1>1. commands' \in 0..MaxCommands /\ breaks' \in 0..MaxBreaks
      BY ExtractionAssumption DEF HistoryInv, Carry, BreaksOff
<1>2. QED
      BY <1>1 DEF HistoryInv

LEMMA FoldersKept == ASSUME FolderInv, UNCHANGED folderVars PROVE FolderInv'
BY DEF FolderInv, folderVars

LEMMA StoresKept == ASSUME StoreInv, UNCHANGED storeVars PROVE StoreInv'
BY DEF StoreInv, storeVars

LEMMA FilesKept == ASSUME FileInv, UNCHANGED fileVars PROVE FileInv'
BY DEF FileInv, fileVars

-----------------------------------------------------------------------------
(***************************************************************************)
(* Qdrant.                                                                 *)
(***************************************************************************)
\* Steps that only the script itself and the counts of commands and breaks see.
LEMMA QuietStep ==
    ASSUME CorpusInv, Keep(<<storeVars, fileVars, historyVars>>),
           \/ Carry \/ BreaksOff
           \/ commands < MaxCommands /\ commands' = commands + 1 /\ UNCHANGED breaks,
           IsScript(script'), script.name # "units",
           script'.name \notin {"extract", "mend", "units"}, UpsertInv', EarnedInv'
    PROVE  CorpusInv'
<1>1. UNCHANGED <<folderVars, storeVars, fileVars, historyVars>>
      BY DEF Keep
<1>2. TypeInv'
  <2>1. FolderInv' /\ StoreInv' /\ FileInv'
        BY <1>1, FoldersKept, StoresKept, FilesKept DEF CorpusInv, TypeInv
  <2>2. HistoryInv'
        BY <1>1, CountsKept DEF CorpusInv, TypeInv, historyVars
  <2>3. QED
        BY <2>1, <2>2 DEF TypeInv
<1>3. GatherInv' /\ MendInv' /\ TodoInv'
      BY NotGathering, NotMending, NotForUnits
<1>4. WholeInv'
      BY <1>1, WholeKept DEF CorpusInv, folderVars, storeVars, historyVars
<1>5. RepeatInv'
      BY <1>1, RepeatKept DEF CorpusInv, storeVars, fileVars, historyVars
<1>6. QED
      BY <1>2, <1>3, <1>4, <1>5 DEF CorpusInv

LEMMA CommandCounts ==
    ASSUME NEW start, Command(start)
    PROVE  /\ script = Idle /\ script' = start /\ script.name = "none"
           /\ commands < MaxCommands /\ commands' = commands + 1 /\ UNCHANGED breaks
BY DEF Command, Ready, Idle

LEMMA EarnedInQuiet ==
    ASSUME CorpusInv, Keep(<<storeVars, fileVars, historyVars>>), script'.name # "units",
           ~(script'.name \in {"graph", "build", "ingest"} /\ script'.step = "graph")
    PROVE  EarnedInv'
BY EarnedKept DEF CorpusInv, Keep, storeVars, fileVars, historyVars

\* The books of an import have documents, and go on having them.
LEMMA BooksOfImport ==
    ASSUME UpsertInv, script.name \in {"import", "ingest"}, Keep(<<storeVars, fileVars, historyVars>>),
           script.books \in Lists,
           script' = NextFolder, script'.name \in {"import", "ingest"} => script'.step = "book",
           \/ NextFolder = Idle
           \/ \A n \in DOMAIN NextFolder.books :
                 \E m \in DOMAIN script.books : NextFolder.books[n] = script.books[m]
    PROVE  UpsertInv'
<1>1. doc' = doc
      BY DEF Keep, folderVars
<1>2. CASE NextFolder = Idle
      BY <1>2 DEF Idle, UpsertInv
<1>3. CASE \A n \in DOMAIN NextFolder.books :
                \E m \in DOMAIN script.books : NextFolder.books[n] = script.books[m]
  <2>1. \A n \in DOMAIN script.books : doc[script.books[n]] # NoFile
        BY DEF UpsertInv
  <2>2. \A n \in DOMAIN script'.books : doc'[script'.books[n]] # NoFile
        BY <1>1, <1>3, <2>1
  <2>3. QED
        BY <2>2 DEF UpsertInv
<1>4. QED
      BY <1>2, <1>3

LEMMA FolderFacts ==
    ASSUME NEW books \in Selections
    PROVE  /\ InFolders(books) # <<>> => InFolders(books) \in Lists
           /\ \A n \in DOMAIN InFolders(books) : doc[InFolders(books)[n]] # NoFile
BY SelectionsAreLists, SomeBooks DEF InFolders

LEMMA ImportKeeps ==
    ASSUME CorpusInv, NEW books \in Selections, NEW force \in BOOLEAN, Import(books, force)
    PROVE  CorpusInv'
<1> DEFINE start == [name |-> "import", step |-> "book", books |-> InFolders(books),
                     force |-> force, todo |-> <<>>]
<1>1. InFolders(books) # <<>> /\ Command(start) /\ Keep(<<storeVars, fileVars, historyVars>>)
      BY DEF Import
<1>2. script.name = "none" /\ script' = start
      BY <1>1, CommandCounts
<1>3. IsImport(script') /\ IsScript(script')
  <2>1. <<>> \in Seq(PointSet)
        OBVIOUS
  <2>2. QED
        BY <1>1, <1>2, <2>1, FolderFacts DEF IsImport, IsScript
<1>4. UpsertInv'
  <2>1. doc' = doc
        BY <1>1 DEF Keep, folderVars
  <2>2. \A n \in DOMAIN script'.books : doc'[script'.books[n]] # NoFile
        BY <1>2, <2>1, FolderFacts
  <2>3. QED
        BY <1>2, <2>2 DEF UpsertInv
<1>5. EarnedInv'
      BY <1>1, <1>2, EarnedInQuiet
<1>6. QED
      BY <1>1, <1>2, <1>3, <1>4, <1>5, CommandCounts, QuietStep

LEMMA IngestKeeps ==
    ASSUME CorpusInv, NEW books \in Selections, Ingest(books)
    PROVE  CorpusInv'
<1>1. PICK done \in Found :
         LET left == Those(InFolders(books), Books \ done)
         IN  /\ left # <<>>
             /\ Command([name |-> "ingest", step |-> "book", books |-> left, todo |-> <<>>])
             /\ Keep(<<storeVars, fileVars, historyVars>>)
      BY DEF Ingest
<1> DEFINE all == InFolders(books)
           left == Those(all, Books \ done)
           start == [name |-> "ingest", step |-> "book", books |-> left, todo |-> <<>>]
<1>2. left # <<>> /\ Command(start) /\ Keep(<<storeVars, fileVars, historyVars>>)
      BY <1>1
<1>3. script.name = "none" /\ script' = start
      BY <1>2, CommandCounts
<1>4. left \in Lists /\ \A n \in DOMAIN left : \E m \in DOMAIN all : left[n] = all[m]
  <2> DEFINE Docs == {b \in Books : doc[b] # NoFile}
  <2>1. books \in Seq(Books) /\ all = Those(books, Docs)
        BY SelectionsAreLists DEF Lists, InFolders
  <2> HIDE DEF all, Docs
  <2>2. all \in Seq(Books)
        BY <2>1, ThoseAreSome
  <2> DEFINE New == Books \ done
  <2>3. left = Those(all, New)
        OBVIOUS
  <2> HIDE DEF left, New
  <2>4. left \in Seq(Books) /\ \A n \in DOMAIN left : \E m \in DOMAIN all : left[n] = all[m]
        BY <2>2, <2>3, ThoseAreSome
  <2>5. left # <<>>
        BY <1>2
  <2>6. QED
        BY <2>4, <2>5 DEF Lists
<1> HIDE DEF left, all
<1>5. IsIngest(script') /\ IsScript(script')
  <2>1. <<>> \in Seq(PointSet)
        OBVIOUS
  <2>2. QED
        BY <1>3, <1>4, <2>1 DEF IsIngest, IsScript
<1>6. UpsertInv'
  <2>1. doc' = doc
        BY <1>2 DEF Keep, folderVars
  <2>2. \A n \in DOMAIN all : doc[all[n]] # NoFile
        BY FolderFacts DEF all
  <2>3. \A n \in DOMAIN script'.books : doc'[script'.books[n]] # NoFile
        BY <1>3, <1>4, <2>1, <2>2
  <2>4. QED
        BY <1>3, <2>3 DEF UpsertInv
<1>7. EarnedInv'
      BY <1>2, <1>3, EarnedInQuiet
<1>8. QED
      BY <1>2, <1>3, <1>5, <1>6, <1>7, CommandCounts, QuietStep

\* A book is passed over.
LEMMA NextFolderKeeps ==
    ASSUME CorpusInv, script.name \in {"import", "ingest"}, script' = NextFolder,
           Carry \/ BreaksOff, Keep(<<storeVars, fileVars, historyVars>>)
    PROVE  CorpusInv'
<1>1. IsImport(script) \/ IsIngest(script) \/ IsIngestGraph(script)
      BY ScriptKinds DEF CorpusInv, TypeInv
<1>2. \/ NextFolder = Idle
      \/ /\ IsScript(NextFolder)
         /\ NextFolder.name = script.name /\ NextFolder.step = "book"
         /\ \A n \in DOMAIN NextFolder.books :
               \E m \in DOMAIN script.books : NextFolder.books[n] = script.books[m]
      BY <1>1, NextFolderFacts
<1>3. /\ IsScript(script') /\ script'.name \in {"none", "import", "ingest"}
      /\ script'.name \in {"import", "ingest"} => script'.step = "book"
      BY <1>2 DEF IsScript, Idle
<1>4. script.books \in Lists
      BY <1>1 DEF IsImport, IsIngest, IsIngestGraph
<1>5. UpsertInv'
      BY <1>2, <1>3, <1>4, BooksOfImport DEF CorpusInv
<1>6. EarnedInv'
      BY <1>3, EarnedInQuiet
<1>7. QED
      BY <1>3, <1>5, <1>6, QuietStep

LEMMA SkipBookKeeps == ASSUME CorpusInv, SkipBook PROVE CorpusInv'
BY NextFolderKeeps DEF SkipBook

\* The points of a book are made.
LEMMA UpsertStarts ==
    ASSUME CorpusInv, script.name \in {"import", "ingest"}, script.step = "book", NEW maker,
           maker = IF script.name = "import" THEN "import" ELSE "pipeline",
           script' = [script EXCEPT !.step = "upsert", !.todo = Made(Current, maker)],
           Carry, Keep(<<storeVars, fileVars, historyVars>>)
    PROVE  CorpusInv'
<1> DEFINE made == Made(Current, maker)
<1>1. IsImport(script) \/ IsIngest(script)
      BY ScriptKinds DEF CorpusInv, TypeInv
<1>2. script.books \in Lists
      BY <1>1 DEF IsImport, IsIngest
<1>3. Current \in Books /\ doc[Current] # NoFile /\ Current = script.books[1] /\ 1 \in DOMAIN script.books
      BY <1>2, ListFacts DEF Current, CorpusInv, UpsertInv
<1>4. doc[Current] \in Seq(Leaf(Current))
      BY <1>3 DEF CorpusInv, TypeInv, FolderInv
<1>5. made \in Seq(PointSet) /\ \A i \in DOMAIN made : made[i].key.book = Current
      BY <1>3, <1>4, PointsAreMade DEF Makers
<1> HIDE DEF made
<1>6. script' = [script EXCEPT !.step = "upsert", !.todo = made]
      BY DEF made
<1>7. /\ IsScript(script') /\ script'.name = script.name /\ script'.step = "upsert"
      /\ script'.books = script.books /\ script'.todo = made
  <2>1. CASE IsImport(script)
    <3>1. /\ IsImport(script') /\ script'.name = script.name /\ script'.step = "upsert"
          /\ script'.books = script.books /\ script'.todo = made
          BY <1>5, <1>6, <2>1 DEF IsImport
    <3>2. QED
          BY <3>1 DEF IsScript
  <2>2. CASE IsIngest(script)
    <3>1. /\ IsIngest(script') /\ script'.name = script.name /\ script'.step = "upsert"
          /\ script'.books = script.books /\ script'.todo = made /\ script'.name = "ingest"
          BY <1>5, <1>6, <2>2 DEF IsIngest
    <3>2. QED
          BY <3>1 DEF IsScript
  <2>3. QED
        BY <1>1, <2>1, <2>2
<1>8. UpsertInv'
  <2>1. doc' = doc /\ points' = points
        BY DEF Keep, folderVars, storeVars
  <2>2. Current' = Current
        BY <1>7 DEF Current
  <2>3. Made(Current, maker)' = made
        BY <2>1, <2>2, MadeOfSame DEF made
  <2>4. \A n \in DOMAIN script'.books : doc'[script'.books[n]] # NoFile
        BY <1>7, <2>1 DEF CorpusInv, UpsertInv
  <2>5. (maker = IF script.name = "import" THEN "import" ELSE "pipeline")'
        BY <1>7
  <2>6. KeysIn(made) \subseteq KeysIn(points') \cup KeysIn(made)
        OBVIOUS
  <2>7. QED
        BY <1>5, <1>7, <2>2, <2>3, <2>4, <2>5, <2>6 DEF UpsertInv
<1>9. EarnedInv'
      BY <1>7, EarnedInQuiet
<1>10. QED
       BY <1>7, <1>8, <1>9, QuietStep

LEMMA ImportBookKeeps == ASSUME CorpusInv, ImportBook PROVE CorpusInv'
<1>1. /\ script.name = "import" /\ script.step = "book" /\ Carry
      /\ Keep(<<storeVars, fileVars, historyVars>>)
      /\ script' \in {Idle, NextFolder,
                      [script EXCEPT !.step = "upsert", !.todo = Made(Current, "import")]}
      BY DEF ImportBook, Running
<1>2. CASE script' = Idle
  <2>1. IsScript(script') /\ script'.name = "none"
        BY <1>2 DEF IsScript, Idle
  <2>2. QED
        BY <1>1, <2>1, EarnedInQuiet, NotUpserting, QuietStep
<1>3. CASE script' = NextFolder
      BY <1>1, <1>3, NextFolderKeeps
<1>4. CASE script' = [script EXCEPT !.step = "upsert", !.todo = Made(Current, "import")]
      BY <1>1, <1>4, UpsertStarts
<1>5. QED
      BY <1>1, <1>2, <1>3, <1>4

LEMMA IngestBookKeeps == ASSUME CorpusInv, IngestBook PROVE CorpusInv'
<1>1. /\ script.name = "ingest" /\ script.step = "book" /\ Carry
      /\ Keep(<<storeVars, fileVars, historyVars>>)
      /\ script' \in {NextFolder,
                      [script EXCEPT !.step = "upsert", !.todo = Made(Current, "pipeline")]}
      BY DEF IngestBook, Running
<1>2. CASE script' = NextFolder
      BY <1>1, <1>2, NextFolderKeeps
<1>3. CASE script' = [script EXCEPT !.step = "upsert", !.todo = Made(Current, "pipeline")]
      BY <1>1, <1>3, UpsertStarts
<1>4. QED
      BY <1>1, <1>2, <1>3

\* A batch goes into the collection, and the rest of the book's points are left.
LEMMA UpsertBatchKeeps == ASSUME CorpusInv, UpsertBatch PROVE CorpusInv'
<1> DEFINE maker == IF script.name = "import" THEN "import" ELSE "pipeline"
           made == Made(Current, maker)
<1>1. /\ script.name \in {"import", "ingest"} /\ script.step = "upsert" /\ Carry
      /\ points' = Upserted(Slice)
      /\ Keep(<<rows, users, units, graph, fileVars, forgetful, wentBack, barren, losses>>)
      BY DEF UpsertBatch
<1>2. IsImport(script) \/ IsIngest(script)
      BY <1>1, ScriptKinds DEF CorpusInv, TypeInv
<1>3. script.books \in Lists /\ script.todo \in Seq(PointSet)
      BY <1>2 DEF IsImport, IsIngest
<1>4. Current \in Books /\ doc[Current] \in Seq(Leaf(Current)) /\ maker \in Makers
  <2>1. Current \in Books /\ doc[Current] # NoFile
        BY <1>1, <1>3, ListFacts DEF Current, CorpusInv, UpsertInv
  <2>2. QED
        BY <2>1 DEF CorpusInv, TypeInv, FolderInv, Makers
<1>5. /\ \A n \in DOMAIN script.books : doc[script.books[n]] # NoFile
      /\ KeysIn(ToSet(made)) \subseteq KeysIn(points) \cup KeysIn(ToSet(script.todo))
      /\ \A p \in ToSet(script.todo) : p.key.book = Current
      BY <1>1 DEF CorpusInv, UpsertInv, ToSet
<1>6. \A p \in ToSet(made) : p.key.book = Current
      BY <1>4, PointsAreMade DEF ToSet
<1>7. /\ Slice \in Seq(PointSet) /\ AfterSlice \in Seq(PointSet)
      /\ ToSet(script.todo) = ToSet(Slice) \cup ToSet(AfterSlice)
      BY <1>3, SliceFacts
<1>8. IsCollection(points') /\ KeysIn(points') = KeysIn(points) \cup KeysIn(ToSet(Slice))
      BY <1>1, <1>7, UpsertedFacts DEF CorpusInv, TypeInv, StoreInv
<1>9. \A k \in KeysIn(ToSet(Slice)) : k.book = Current
      BY <1>5, <1>7 DEF KeysIn
<1>10. folderVars' = folderVars /\ doc' = doc
       BY <1>1 DEF Keep, folderVars
<1>11. /\ unfinished' \in {unfinished \cup {Current}, unfinished \ {Current}}
       /\ AfterSlice # <<>> => /\ unfinished' = unfinished \cup {Current}
                               /\ script' = [script EXCEPT !.todo = AfterSlice]
       /\ AfterSlice = <<>> => script' = IF script.name = "import" THEN NextFolder
                                         ELSE [script EXCEPT !.step = "units", !.todo = <<>>]
       BY DEF UpsertBatch
\* The script.
<1> DEFINE kept == [script EXCEPT !.todo = AfterSlice]
           done == [script EXCEPT !.step = "units", !.todo = <<>>]
<1>12. /\ IsScript(kept) /\ kept.name = script.name /\ kept.step = "upsert"
       /\ kept.books = script.books /\ kept.todo = AfterSlice
  <2>1. CASE IsImport(script)
    <3>1. /\ IsImport(kept) /\ kept.name = script.name /\ kept.step = "upsert"
          /\ kept.books = script.books /\ kept.todo = AfterSlice
          BY <1>1, <1>7, <2>1 DEF IsImport
    <3>2. QED
          BY <3>1 DEF IsScript
  <2>2. CASE IsIngest(script)
    <3>1. /\ IsIngest(kept) /\ kept.name = script.name /\ kept.step = "upsert"
          /\ kept.books = script.books /\ kept.todo = AfterSlice /\ kept.name = "ingest"
          BY <1>1, <1>7, <2>2 DEF IsIngest
    <3>2. QED
          BY <3>1 DEF IsScript
  <2>3. QED
        BY <1>2, <2>1, <2>2
<1>13. script.name = "ingest" => /\ IsScript(done) /\ done.name = "ingest" /\ done.step = "units"
                                 /\ done.books = script.books
  <2>1. ASSUME script.name = "ingest" PROVE IsIngest(script) /\ <<>> \in Seq(PointSet)
        BY <1>2, <2>1 DEF IsImport
  <2>2. ASSUME script.name = "ingest"
        PROVE  IsIngest(done) /\ done.name = "ingest" /\ done.step = "units"
               /\ done.books = script.books
        BY <2>1, <2>2 DEF IsIngest
  <2>3. QED
        BY <2>2 DEF IsScript
<1>14. \/ NextFolder = Idle
       \/ /\ IsScript(NextFolder) /\ NextFolder.name = script.name /\ NextFolder.step = "book"
          /\ \A n \in DOMAIN NextFolder.books :
                \E m \in DOMAIN script.books : NextFolder.books[n] = script.books[m]
       BY <1>2, NextFolderFacts
<1> HIDE DEF kept, done, maker, made
<1>15. /\ IsScript(script') /\ script'.name \notin {"extract", "mend", "units"}
       /\ script'.name \in {"graph", "build", "ingest"} => script'.step # "graph"
  <2>1. CASE AfterSlice # <<>>
        BY <1>1, <1>11, <1>12, <2>1 DEF kept
  <2>2. CASE AfterSlice = <<>> /\ script.name = "import"
        BY <1>11, <1>14, <2>2 DEF IsScript, Idle
  <2>3. CASE AfterSlice = <<>> /\ script.name # "import"
        BY <1>1, <1>11, <1>13, <2>3 DEF done
  <2>4. QED
        BY <2>1, <2>2, <2>3
\* What is disturbed.
<1>16. TypeInv'
  <2>1. FolderInv'
        BY <1>10, FoldersKept DEF CorpusInv, TypeInv
  <2>2. StoreInv'
        BY <1>1, <1>8 DEF Keep, CorpusInv, TypeInv, StoreInv
  <2>3. FileInv'
        BY <1>1, FilesKept DEF Keep, CorpusInv, TypeInv
  <2>4. HistoryInv'
        BY <1>1, <1>4, <1>11 DEF Keep, CorpusInv, TypeInv, HistoryInv, Carry
  <2>5. QED
        BY <1>15, <2>1, <2>2, <2>3, <2>4 DEF TypeInv
<1>17. UpsertInv'
  <2>1. CASE AfterSlice # <<>>
    <3>1. script' = kept
          BY <1>11, <2>1 DEF kept
    <3>2. Current' = Current
          BY <1>12, <3>1 DEF Current
    <3>3. Made(Current, maker)' = made
      <4>1. maker' = maker
            BY <1>12, <3>1 DEF maker
      <4>2. QED
            BY <1>10, <3>2, <4>1, MadeOfSame DEF made
    <3>4. KeysIn(ToSet(made)) \subseteq KeysIn(points') \cup KeysIn(ToSet(script'.todo))
      <4>1. KeysIn(ToSet(script.todo)) = KeysIn(ToSet(Slice)) \cup KeysIn(ToSet(AfterSlice))
            BY <1>7 DEF KeysIn
      <4>2. QED
            BY <1>5, <1>8, <1>12, <3>1, <4>1
    <3>5. \A i \in DOMAIN script'.todo : script'.todo[i].key.book = Current
      <4>1. \A p \in ToSet(AfterSlice) : p.key.book = Current
            BY <1>5, <1>7
      <4>2. QED
            BY <1>12, <3>1, <4>1 DEF ToSet
    <3>6. \A n \in DOMAIN script'.books : doc'[script'.books[n]] # NoFile
          BY <1>5, <1>10, <1>12, <3>1
    <3>7. (maker = IF script.name = "import" THEN "import" ELSE "pipeline")'
          BY DEF maker
    <3>8. QED
          BY <3>2, <3>3, <3>4, <3>5, <3>6, <3>7 DEF UpsertInv
  <2>2. CASE AfterSlice = <<>> /\ script.name = "import"
    <3>1. script' = NextFolder
          BY <1>11, <2>2
    <3>2. CASE NextFolder = Idle
          BY <3>1, <3>2 DEF Idle, UpsertInv
    <3>3. CASE NextFolder # Idle
      <4>1. script'.step = "book"
            BY <1>14, <3>1, <3>3
      <4>2. \A n \in DOMAIN script'.books : doc'[script'.books[n]] # NoFile
            BY <1>5, <1>10, <1>14, <3>1, <3>3
      <4>3. QED
            BY <4>1, <4>2 DEF UpsertInv
    <3>4. QED
          BY <3>2, <3>3
  <2>3. CASE AfterSlice = <<>> /\ script.name # "import"
    <3>1. script' = done
          BY <1>11, <2>3 DEF done
    <3>2. script'.step = "units" /\ script'.books = script.books
          BY <1>1, <1>13, <2>3, <3>1
    <3>3. QED
          BY <1>5, <1>10, <3>2 DEF UpsertInv
  <2>4. QED
        BY <2>1, <2>2, <2>3
<1>18. WholeInv'
  <2>1. ASSUME NEW b \in Books \ unfinished', PointsOf(b)' # {}
        PROVE  \E m \in Makers : Covers(b, m)'
    <3>1. \A m : Made(b, m)' = Made(b, m)
          BY <1>10, MadeOfSame
    <3>2. CASE b = Current
      <4>1. AfterSlice = <<>>
            BY <1>11, <2>1, <3>2
      <4>2. ToSet(AfterSlice) = {}
            BY <4>1 DEF ToSet
      <4>3. KeysIn(ToSet(made)) \subseteq KeysIn(points')
        <5>1. ToSet(script.todo) = ToSet(Slice)
              BY <1>7, <4>2
        <5>2. QED
              BY <1>5, <1>8, <5>1
      <4>4. ASSUME NEW k \in KeysIn(ToSet(made)) PROVE k \in KeysIn(PointsOf(b)')
        <5>1. k.book = b
              BY <1>6, <3>2, <4>4 DEF KeysIn
        <5>2. PICK p \in points' : k = p.key
              BY <4>3, <4>4 DEF KeysIn
        <5>3. p \in PointsOf(b)'
              BY <5>1, <5>2 DEF PointsOf
        <5>4. QED
              BY <5>2, <5>3 DEF KeysIn
      <4>5. PICK m \in Makers : m = maker
            BY <1>4
      <4>6. Made(b, m)' = made
            BY <3>1, <3>2, <4>5 DEF made
      <4>7. Covers(b, m)'
            BY <4>4, <4>6 DEF Covers
      <4>8. QED
            BY <4>7
    <3>3. CASE b # Current
      <4>1. b \in Books \ unfinished
            BY <1>11, <2>1, <3>3
      <4>2. ASSUME NEW k, k.book = b PROVE k \in KeysIn(points') <=> k \in KeysIn(points)
            BY <1>8, <1>9, <3>3, <4>2
      <4>3. PointsOf(b) # {}
        <5>1. PICK p \in points' : p.key.book = b
              BY <2>1 DEF PointsOf
        <5>2. p.key \in KeysIn(points)
              BY <4>2, <5>1 DEF KeysIn
        <5>3. PICK q \in points : q.key = p.key
              BY <5>2 DEF KeysIn
        <5>4. q \in PointsOf(b)
              BY <5>1, <5>3 DEF PointsOf
        <5>5. QED
              BY <5>4
      <4>4. PICK m \in Makers : Covers(b, m)
            BY <4>1, <4>3 DEF CorpusInv, WholeInv
      <4>5. ASSUME NEW k \in KeysIn(ToSet(Made(b, m))) PROVE k \in KeysIn(PointsOf(b)')
        <5>1. PICK q \in PointsOf(b) : k = q.key
              BY <4>4, <4>5 DEF Covers, KeysIn
        <5>2. k.book = b /\ k \in KeysIn(points)
              BY <5>1 DEF PointsOf, KeysIn
        <5>3. PICK p \in points' : k = p.key
              BY <4>2, <5>2 DEF KeysIn
        <5>4. p \in PointsOf(b)'
              BY <5>2, <5>3 DEF PointsOf
        <5>5. QED
              BY <5>3, <5>4 DEF KeysIn
      <4>6. Covers(b, m)'
            BY <3>1, <4>5 DEF Covers
      <4>7. QED
            BY <4>6
    <3>4. QED
          BY <3>2, <3>3
  <2>2. QED
        BY <2>1 DEF WholeInv
<1>19. EarnedInv'
       BY <1>1, <1>15, EarnedKept DEF Keep, CorpusInv, fileVars
<1>20. RepeatInv'
       BY <1>1, <1>15, RepeatKept DEF Keep, CorpusInv, fileVars
<1>21. GatherInv' /\ MendInv' /\ TodoInv'
       BY <1>15, NotGathering, NotMending, NotForUnits
<1>22. QED
       BY <1>16, <1>17, <1>18, <1>19, <1>20, <1>21 DEF CorpusInv

\* The units of the pipeline are of their book and its points.
LEMMA IngestUnitsKeeps == ASSUME CorpusInv, IngestUnits PROVE CorpusInv'
<1>1. /\ script.name = "ingest" /\ script.step = "units" /\ Carry
      /\ Keep(<<points, rows, users, graph, fileVars, unfinished, wentBack, barren, losses>>)
      BY DEF IngestUnits, Running
<1>2. PICK answered \in SUBSET ToSet(Made(Current, "pipeline")) :
         LET new == {Unit(p, Current) : p \in answered}
         IN  /\ units' = units \cup new
             /\ forgetful' = (forgetful \/ new # {})
             /\ script' = IF new = {} THEN NextFolder
                          ELSE [script EXCEPT !.step = "graph", !.todo = new]
      BY DEF IngestUnits
<1> DEFINE made == ToSet(Made(Current, "pipeline"))
           all == {Unit(p, Current) : p \in answered}
<1>3. PICK new : new = all
      OBVIOUS
<1>4. /\ units' = units \cup new /\ forgetful' = (forgetful \/ new # {})
      /\ script' = IF new = {} THEN NextFolder ELSE [script EXCEPT !.step = "graph", !.todo = new]
      BY <1>2, <1>3
<1>5. IsIngest(script) /\ script.books \in Lists
      BY <1>1, ScriptKinds DEF CorpusInv, TypeInv, IsIngest
<1>6. Current \in Books /\ doc[Current] \in Seq(Leaf(Current))
  <2>1. Current \in Books /\ doc[Current] # NoFile
        BY <1>1, <1>5, ListFacts DEF Current, CorpusInv, UpsertInv
  <2>2. QED
        BY <2>1 DEF CorpusInv, TypeInv, FolderInv
<1>7. \A p \in made : p \in PointSet /\ p.key.book = Current /\ p.maker = "pipeline"
      BY <1>6, PointsAreMade, LenProperties, ElementOfSeq DEF ToSet, Makers
<1>8. new \subseteq UnitSet
  <2>1. commands \in 0..MaxCommands
        BY DEF CorpusInv, TypeInv, HistoryInv
  <2>2. ASSUME NEW p \in made PROVE Unit(p, Current) \in UnitSet
    <3>1. p.key \in KeySet /\ p.key.book = Current /\ p.maker = "pipeline"
          BY <1>7 DEF PointSet
    <3>2. QED
          BY <1>6, <2>1, <3>1 DEF Unit, UnitSet, Makers
  <2>3. QED
        BY <1>3, <2>2
<1>9. /\ doc' = doc /\ folderVars' = folderVars /\ fileVars' = fileVars
      BY <1>1 DEF Keep, folderVars
<1>10. \/ NextFolder = Idle
       \/ /\ IsScript(NextFolder) /\ NextFolder.name = script.name /\ NextFolder.step = "book"
          /\ \A n \in DOMAIN NextFolder.books :
                \E m \in DOMAIN script.books : NextFolder.books[n] = script.books[m]
       BY <1>5, NextFolderFacts
<1> DEFINE next == [script EXCEPT !.step = "graph", !.todo = new]
<1>11. /\ IsIngestGraph(next) /\ IsScript(next) /\ next.name = "ingest" /\ next.step = "graph"
       /\ next.todo = new /\ next.books = script.books
  <2>1. /\ IsIngestGraph(next) /\ next.name = "ingest" /\ next.step = "graph"
        /\ next.todo = new /\ next.books = script.books
        BY <1>5, <1>8 DEF IsIngest, IsIngestGraph
  <2>2. QED
        BY <2>1 DEF IsScript
<1> HIDE DEF next
<1>12. /\ IsScript(script') /\ script'.name \in {"none", "ingest"}
       /\ new = {} /\ script'.name = "ingest" => script'.step = "book"
       /\ new # {} => script'.step = "graph" /\ script'.todo = new
  <2>1. CASE new = {}
        BY <1>1, <1>4, <1>10, <2>1 DEF IsScript, Idle
  <2>2. CASE new # {}
        BY <1>4, <1>11, <2>2 DEF next
  <2>3. QED
        BY <2>1, <2>2
<1>13. TypeInv'
  <2>1. FolderInv' /\ FileInv'
        BY <1>9, FoldersKept, FilesKept DEF CorpusInv, TypeInv
  <2>2. StoreInv'
        BY <1>1, <1>4, <1>8 DEF Keep, CorpusInv, TypeInv, StoreInv
  <2>3. HistoryInv'
        BY <1>1, <1>4 DEF Keep, CorpusInv, TypeInv, HistoryInv, Carry
  <2>4. QED
        BY <1>12, <2>1, <2>2, <2>3 DEF TypeInv
<1>14. UpsertInv'
  <2>1. \A n \in DOMAIN script.books : doc[script.books[n]] # NoFile
        BY <1>1 DEF CorpusInv, UpsertInv
  <2>2. script'.name = "ingest" => \A n \in DOMAIN script'.books : doc'[script'.books[n]] # NoFile
    <3>1. CASE new = {}
          BY <1>4, <1>9, <1>10, <2>1, <3>1 DEF Idle
    <3>2. CASE new # {}
          BY <1>4, <1>9, <1>11, <2>1, <3>2 DEF next
    <3>3. QED
          BY <3>1, <3>2
  <2>3. script'.name = "ingest" => script'.step # "upsert"
        BY <1>12
  <2>4. QED
        BY <1>12, <2>2, <2>3 DEF UpsertInv
<1>15. WholeInv'
       BY <1>1, <1>9, WholeKept DEF Keep, CorpusInv
<1>16. EarnedInv'
  <2>1. UNCHANGED <<graph, checkpoint, wentBack, barren>> /\ units \subseteq units' /\ new \subseteq units'
        BY <1>1, <1>4 DEF Keep, fileVars
  <2>2. RecordsAreEarned'
        BY <2>1 DEF CorpusInv, EarnedInv, RecordsAreEarned
  <2>3. script'.name = "ingest" /\ script'.step = "graph"
             => script'.todo # {} /\ script'.todo \subseteq units'
        BY <1>12, <2>1
  <2>4. QED
        BY <1>12, <2>2, <2>3 DEF EarnedInv
<1>17. RepeatInv'
  <2>1. CASE new = {}
    <3>1. UNCHANGED <<units, checkpoint, dump, forgetful>>
          BY <1>1, <1>4, <2>1 DEF Keep, fileVars, CorpusInv, TypeInv, HistoryInv
    <3>2. QED
          BY <1>1, <1>12, <3>1, RepeatKept DEF CorpusInv
  <2>2. CASE new # {}
        BY <1>4, <2>2 DEF RepeatInv
  <2>3. QED
        BY <2>1, <2>2
<1>18. GatherInv' /\ MendInv' /\ TodoInv'
       BY <1>12, NotGathering, NotMending, NotForUnits
<1>19. QED
       BY <1>13, <1>14, <1>15, <1>16, <1>17, <1>18 DEF CorpusInv

-----------------------------------------------------------------------------
(***************************************************************************)
(* Postgres.                                                               *)
(***************************************************************************)
LEMMA RegisterKeeps ==
    ASSUME CorpusInv, NEW books \in Selections, Register(books)
    PROVE  CorpusInv'
<1>1. /\ Command(Idle) /\ Keep(<<points, users, units, graph, fileVars, historyVars>>)
      /\ rows' \in {rows, rows \cup ToSet(InFolders(books))}
      BY DEF Register
<1>2. script = Idle /\ script' = Idle /\ script.name = "none" /\ script'.name = "none"
      BY <1>1, CommandCounts
<1>3. ToSet(InFolders(books)) \subseteq Books
  <2>1. books \in Lists
        BY SelectionsAreLists
  <2>2. \A n \in DOMAIN InFolders(books) : InFolders(books)[n] \in Books
        BY <2>1, SomeBooks DEF InFolders
  <2>3. QED
        BY <2>2 DEF ToSet
<1>4. UNCHANGED <<folderVars, fileVars>>
      BY <1>1 DEF Keep
<1>5. TypeInv'
  <2>1. FolderInv' /\ FileInv'
        BY <1>4, FoldersKept, FilesKept DEF CorpusInv, TypeInv
  <2>2. StoreInv'
        BY <1>1, <1>3 DEF Keep, CorpusInv, TypeInv, StoreInv
  <2>3. HistoryInv'
        BY <1>1, CommandCounts, CountsKept DEF Keep, CorpusInv, TypeInv, historyVars
  <2>4. QED
        BY <1>2, <2>1, <2>2, <2>3 DEF TypeInv, IsScript
<1>6. GatherInv' /\ MendInv' /\ TodoInv' /\ UpsertInv'
      BY <1>2, NotGathering, NotMending, NotForUnits, NotUpserting
<1>7. WholeInv'
      BY <1>1, <1>4, WholeKept DEF Keep, CorpusInv, folderVars, historyVars
<1>8. EarnedInv'
      BY <1>1, <1>2, EarnedKept DEF Keep, CorpusInv, fileVars, historyVars
<1>9. RepeatInv'
      BY <1>1, <1>2, RepeatKept DEF Keep, CorpusInv, fileVars, historyVars
<1>10. QED
       BY <1>5, <1>6, <1>7, <1>8, <1>9 DEF CorpusInv

\* A name leads to the book of the chunks that bear it.
LEMMA AttributionFacts ==
    ASSUME NEW chosen, chosen \subseteq PointSet, NEW bookOf \in Attributions(chosen)
    PROVE  /\ Groups(chosen) \subseteq Names
           /\ bookOf \in [Groups(chosen) -> Books]
           /\ \A p \in chosen :
                 /\ Name(p) \in Groups(chosen)
                 /\ bookOf[Name(p)] # p.key.book => p.maker = "pipeline"
<1>1. \A p \in chosen : p.key.book \in Books /\ p.maker \in Makers
      BY DEF PointSet, KeySet
<1>2. Groups(chosen) \subseteq Names
      BY <1>1 DEF Groups, Name, Names
<1>3. /\ bookOf \in [Groups(chosen) -> Books]
      /\ \A name \in Groups(chosen) : bookOf[name] \in BooksOf(chosen, name)
      BY DEF Attributions
<1>4. \A p \in chosen : Name(p) \in Groups(chosen)
      BY DEF Groups
<1>5. ASSUME NEW p \in chosen, p.maker = "import" PROVE bookOf[Name(p)] = p.key.book
  <2>1. Name(p) = p.key.book /\ Name(p) # NoName
        BY <1>1, <1>5, CorpusAssumption DEF Name
  <2>2. PICK q \in chosen : Name(q) = Name(p) /\ bookOf[Name(p)] = q.key.book
        BY <1>3, <1>4 DEF BooksOf
  <2>3. q.maker = "import" /\ Name(q) = q.key.book
        BY <2>1, <2>2 DEF Name
  <2>4. QED
        BY <2>1, <2>2, <2>3
<1>6. QED
      BY <1>1, <1>2, <1>3, <1>4, <1>5 DEF Makers

\* What is left to do are the chosen chunks that are not through.
LEMMA ExtractUnitsKeeps ==
    ASSUME CorpusInv, NEW book \in Books \cup {NoName},
           NEW resume \in BOOLEAN, NEW reset \in BOOLEAN, ExtractUnits(book, resume, reset)
    PROVE  CorpusInv'
<1>1. PICK chosen, processed : /\ chosen = Chosen(book)
                               /\ processed = IF resume /\ ~reset THEN checkpoint ELSE {}
      OBVIOUS
<1>2. PICK bookOf \in Attributions(chosen) :
          LET todo == {p \in chosen : p.key \notin processed}
          IN  /\ Command(IF todo = {} THEN Idle
                         ELSE [name |-> "units", step |-> "insert", todo |-> todo,
                               bookOf |-> bookOf, processed |-> processed])
              /\ checkpoint' = IF reset THEN {} ELSE checkpoint
              /\ rows' = Ensured(bookOf)
              /\ forgetful' = (forgetful \/ checkpoint # processed)
              /\ Keep(<<points, users, units, graph, dump, snapshot, unfinished, wentBack, barren, losses>>)
      BY <1>1 DEF ExtractUnits
<1>3. PICK todo : todo = {p \in chosen : p.key \notin processed}
      OBVIOUS
<1> DEFINE start == [name |-> "units", step |-> "insert", todo |-> todo,
                     bookOf |-> bookOf, processed |-> processed]
<1>4. /\ Command(IF todo = {} THEN Idle ELSE start)
      /\ checkpoint' = IF reset THEN {} ELSE checkpoint
      /\ rows' = Ensured(bookOf)
      /\ forgetful' = (forgetful \/ checkpoint # processed)
      /\ Keep(<<points, users, units, graph, dump, snapshot, unfinished, wentBack, barren, losses>>)
      BY <1>2, <1>3
<1>5. script = Idle /\ script.name = "none" /\ script' = IF todo = {} THEN Idle ELSE start
      BY <1>4, CommandCounts
<1>6. chosen \subseteq points /\ todo \subseteq points /\ todo \subseteq chosen
      BY <1>1, <1>3 DEF Chosen
<1>7. IsCollection(points) /\ checkpoint \subseteq KeySet /\ forgetful \in BOOLEAN
      BY DEF CorpusInv, TypeInv, StoreInv, FileInv, HistoryInv
<1>8. IsCollection(todo)
  <2>1. IsFiniteSet(todo)
        BY <1>6, <1>7, FS_Subset DEF IsCollection
  <2>2. QED
        BY <1>6, <1>7, <2>1 DEF IsCollection
<1>9. /\ Groups(chosen) \subseteq Names /\ bookOf \in [Groups(chosen) -> Books]
      /\ \A p \in chosen : /\ Name(p) \in Groups(chosen)
                           /\ bookOf[Name(p)] # p.key.book => p.maker = "pipeline"
      BY <1>6, <1>7, AttributionFacts DEF IsCollection
<1>10. processed \subseteq KeySet /\ processed \subseteq checkpoint /\ checkpoint' \subseteq checkpoint
       BY <1>1, <1>4, <1>7
<1>11. IsUnits(start) /\ start.name = "units"
  <2>1. bookOf \in UNION {[G -> Books] : G \in SUBSET Names}
        BY <1>9
  <2>2. todo \subseteq PointSet
        BY <1>8 DEF IsCollection
  <2>3. QED
        BY <1>10, <2>1, <2>2 DEF IsUnits
<1>12. IsScript(script') /\ script'.name \in {"none", "units"} /\ (script'.name = "units" => script' = start)
       BY <1>5, <1>11 DEF IsScript, Idle
<1> HIDE DEF start
<1>13. folderVars' = folderVars
       BY <1>4 DEF Keep
<1>14. TypeInv'
  <2>1. FolderInv'
        BY <1>13, FoldersKept DEF CorpusInv, TypeInv
  <2>2. StoreInv'
    <3>1. Ensured(bookOf) \subseteq Books
          BY <1>9 DEF Ensured, CorpusInv, TypeInv, StoreInv
    <3>2. QED
          BY <1>4, <3>1 DEF Keep, CorpusInv, TypeInv, StoreInv
  <2>3. FileInv'
        BY <1>4, <1>10 DEF Keep, CorpusInv, TypeInv, FileInv
  <2>4. HistoryInv'
    <3>1. commands' \in 0..MaxCommands /\ breaks' = breaks
          BY <1>4, CommandCounts, ExtractionAssumption DEF CorpusInv, TypeInv, HistoryInv
    <3>2. QED
          BY <1>4, <3>1 DEF Keep, CorpusInv, TypeInv, HistoryInv
  <2>5. QED
        BY <1>12, <2>1, <2>2, <2>3, <2>4 DEF TypeInv
<1>15. TodoInv'
  <2>1. KeysIn(todo) \cap processed = {}
        BY <1>3 DEF KeysIn
  <2>2. \A p \in todo : Name(p) \in DOMAIN bookOf /\ (bookOf[Name(p)] # p.key.book => p.maker = "pipeline")
        BY <1>6, <1>9
  <2>3. script'.name = "units" => todo # {}
        BY <1>5 DEF Idle
  <2>4. QED
        BY <1>8, <1>12, <2>1, <2>2, <2>3 DEF TodoInv, start
<1>16. EarnedInv'
  <2>1. UNCHANGED <<units, graph, wentBack, barren>>
        BY <1>4 DEF Keep
  <2>2. RecordsAreEarned'
        BY <1>10, <2>1 DEF CorpusInv, EarnedInv, RecordsAreEarned
  <2>3. wentBack \/ processed \subseteq ChunksWith(units) \cup barren
        BY <1>10 DEF CorpusInv, EarnedInv, RecordsAreEarned, ChunksWith
  <2>4. script'.name = "units" => script'.processed = processed
        BY <1>12 DEF start
  <2>5. QED
        BY <1>12, <2>1, <2>2, <2>3, <2>4 DEF EarnedInv, ChunksWith
<1>17. RepeatInv'
  <2>1. ASSUME ~forgetful' PROVE RepeatInv'
    <3>1. ~forgetful /\ checkpoint = processed
          BY <1>4, <2>1
    <3>2. checkpoint' = checkpoint
          BY <1>1, <1>4, <3>1
    <3>3. UNCHANGED <<units, dump>>
          BY <1>4 DEF Keep
    <3>4. script'.name = "units" => script'.processed = processed
          BY <1>12 DEF start
    <3>5. QED
          BY <1>5, <3>1, <3>2, <3>3, <3>4 DEF CorpusInv, RepeatInv, ChunksWith, Single
  <2>2. QED
        BY <2>1 DEF RepeatInv
<1>18. WholeInv'
       BY <1>4, <1>13, WholeKept DEF Keep, CorpusInv, folderVars
<1>19. GatherInv' /\ MendInv' /\ UpsertInv'
       BY <1>12, NotGathering, NotMending, NotUpserting
<1>20. QED
       BY <1>14, <1>15, <1>16, <1>17, <1>18, <1>19 DEF CorpusInv

\* Units are inserted before their chunks are recorded, and the chunks of a
\* round are none of those that are through.
LEMMA InsertUnitsKeeps == ASSUME CorpusInv, InsertUnits PROVE CorpusInv'
<1>1. /\ script.name = "units" /\ script.step = "insert" /\ Carry
      /\ Keep(<<points, rows, users, graph, fileVars, unfinished, forgetful, wentBack, losses>>)
      BY DEF InsertUnits, Running
<1>0. PICK answered \in SUBSET Round : \E fruitful \in SUBSET answered :
          /\ Insert(Round, answered, fruitful)
          /\ barren' = barren \cup KeysIn(answered \ fruitful)
      BY DEF InsertUnits, Answers, Valid
<1>2. PICK fruitful \in SUBSET answered :
          /\ Insert(Round, answered, fruitful)
          /\ barren' = barren \cup KeysIn(answered \ fruitful)
      BY <1>0
<1>3. PICK R, todo, processed, bookOf, new :
          /\ R = Round /\ todo = script.todo /\ processed = script.processed /\ bookOf = script.bookOf
          /\ new = {Unit(p, script.bookOf[Name(p)]) : p \in fruitful}
      OBVIOUS
<1>4. IsUnits(script) /\ IsCollection(todo) /\ KeysIn(todo) \cap processed = {} /\ todo # {}
      BY <1>1, <1>3, ScriptKinds DEF CorpusInv, TypeInv, TodoInv
<1>5. /\ todo \subseteq PointSet /\ processed \subseteq KeySet
      /\ bookOf \in UNION {[G -> Books] : G \in SUBSET Names}
      BY <1>3, <1>4 DEF IsUnits
<1>6. \A p \in todo : Name(p) \in DOMAIN bookOf /\ (bookOf[Name(p)] # p.key.book => p.maker = "pipeline")
      BY <1>1, <1>3 DEF CorpusInv, TodoInv
<1>7. R \subseteq todo /\ answered \subseteq todo /\ fruitful \subseteq todo
      BY <1>2, <1>3, <1>4, RoundIsOfTodo DEF IsCollection
<1>8. /\ units' = units \cup new
      /\ script' = [script EXCEPT !.step = "save", !.todo = @ \ R, !.processed = @ \cup KeysIn(answered)]
      BY <1>2, <1>3 DEF Insert, Stored
<1>9. /\ IsUnits(script') /\ script'.name = "units" /\ script'.step = "save"
      /\ script'.todo = todo \ R /\ script'.processed = processed \cup KeysIn(answered)
      /\ script'.bookOf = bookOf
  <2>1. KeysIn(answered) \subseteq KeySet
        BY <1>5, <1>7 DEF KeysIn, PointSet
  <2>2. QED
        BY <1>3, <1>4, <1>5, <1>8, <2>1 DEF IsUnits
<1>10. new \subseteq UnitSet
  <2>1. commands \in 0..MaxCommands
        BY DEF CorpusInv, TypeInv, HistoryInv
  <2>2. ASSUME NEW p \in todo PROVE Unit(p, bookOf[Name(p)]) \in UnitSet
    <3>1. p.key \in KeySet /\ p.maker \in Makers
          BY <1>5 DEF PointSet
    <3>2. bookOf[Name(p)] \in Books
          BY <1>5, <1>6
    <3>3. bookOf[Name(p)] # p.key.book => p.maker = "pipeline"
          BY <1>6
    <3>4. QED
          BY <2>1, <3>1, <3>2, <3>3 DEF Unit, UnitSet
  <2>3. QED
        BY <1>3, <1>7, <2>2
<1>11. ChunksWith(new) = KeysIn(fruitful)
  <2>1. \A p \in fruitful : Unit(p, bookOf[Name(p)]).chunk = p.key
        BY DEF Unit
  <2>2. ChunksWith(new) = {Unit(p, bookOf[Name(p)]).chunk : p \in fruitful}
        BY <1>3 DEF ChunksWith
  <2>3. QED
        BY <2>1, <2>2 DEF KeysIn
<1>12. TypeInv'
  <2>1. FolderInv' /\ FileInv'
        BY <1>1, FoldersKept, FilesKept DEF Keep, CorpusInv, TypeInv
  <2>2. StoreInv'
        BY <1>1, <1>8, <1>10 DEF Keep, CorpusInv, TypeInv, StoreInv
  <2>3. HistoryInv'
    <3>1. KeysIn(answered \ fruitful) \subseteq KeySet
          BY <1>5, <1>7 DEF KeysIn, PointSet
    <3>2. QED
          BY <1>1, <1>2, <3>1 DEF Keep, Carry, CorpusInv, TypeInv, HistoryInv
  <2>4. QED
        BY <1>9, <2>1, <2>2, <2>3 DEF TypeInv, IsScript
<1>13. TodoInv'
  <2>1. IsCollection(todo \ R)
        BY <1>4, FS_Difference DEF IsCollection
  <2>2. ASSUME NEW k \in KeysIn(todo \ R), k \in processed \cup KeysIn(answered) PROVE FALSE
    <3>1. PICK p \in todo \ R : k = p.key
          BY <2>2 DEF KeysIn
    <3>2. k \notin processed
          BY <1>4, <3>1 DEF KeysIn
    <3>3. PICK q \in answered : k = q.key
          BY <2>2, <3>2 DEF KeysIn
    <3>4. p = q
          BY <1>4, <1>7, <3>1, <3>3 DEF IsCollection
    <3>5. QED
          BY <1>2, <1>3, <3>1, <3>3, <3>4
  <2>3. QED
        BY <1>6, <1>9, <2>1, <2>2 DEF TodoInv
<1>14. EarnedInv'
  <2>1. UNCHANGED <<graph, checkpoint, wentBack>> /\ units \subseteq units' /\ barren \subseteq barren'
        BY <1>1, <1>2, <1>8 DEF Keep, fileVars
  <2>2. RecordsAreEarned'
        BY <2>1 DEF CorpusInv, EarnedInv, RecordsAreEarned
  <2>3. wentBack \/ processed \subseteq ChunksWith(units) \cup barren
        BY <1>1, <1>3 DEF CorpusInv, EarnedInv
  <2>4. ChunksWith(units') = ChunksWith(units) \cup KeysIn(fruitful)
        BY <1>8, <1>11 DEF ChunksWith
  <2>5. KeysIn(answered) = KeysIn(fruitful) \cup KeysIn(answered \ fruitful)
        BY <1>2 DEF KeysIn
  <2>6. wentBack' \/ script'.processed \subseteq ChunksWith(units') \cup barren'
        BY <1>2, <1>9, <2>1, <2>3, <2>4, <2>5
  <2>7. QED
        BY <1>9, <2>2, <2>6 DEF EarnedInv, ChunksWith
<1>15. RepeatInv'
  <2>1. ASSUME ~forgetful' PROVE RepeatInv'
    <3>1. UNCHANGED <<forgetful, checkpoint, dump>> /\ ~forgetful
          BY <1>1, <2>1 DEF Keep, fileVars
    <3>2. /\ Single(units) /\ ChunksWith(units) \subseteq processed /\ checkpoint \subseteq processed
          /\ dump \notin {NoFile, Cut} => Single(dump.units) /\ ChunksWith(dump.units) \subseteq checkpoint
          BY <1>1, <1>3, <3>1 DEF CorpusInv, RepeatInv
    <3>3. ASSUME NEW u \in units, NEW v \in new PROVE u.chunk # v.chunk
      <4>1. u.chunk \in processed
            BY <3>2 DEF ChunksWith
      <4>2. v.chunk \in KeysIn(todo)
            BY <1>3, <1>7 DEF Unit, KeysIn
      <4>3. QED
            BY <1>4, <4>1, <4>2
    <3>4. ASSUME NEW u \in new, NEW v \in new, u.chunk = v.chunk PROVE u = v
      <4>1. PICK p \in fruitful : u = Unit(p, bookOf[Name(p)])
            BY <1>3
      <4>2. PICK q \in fruitful : v = Unit(q, bookOf[Name(q)])
            BY <1>3
      <4>3. p = q
            BY <1>4, <1>7, <3>4, <4>1, <4>2 DEF Unit, IsCollection
      <4>4. QED
            BY <4>1, <4>2, <4>3
    <3>5. Single(units')
          BY <1>8, <3>2, <3>3, <3>4 DEF Single
    <3>6. ChunksWith(units') \subseteq script'.processed
      <4>1. KeysIn(fruitful) \subseteq KeysIn(answered)
            BY <1>2 DEF KeysIn
      <4>2. ChunksWith(units') = ChunksWith(units) \cup KeysIn(fruitful)
            BY <1>8, <1>11 DEF ChunksWith
      <4>3. QED
            BY <1>9, <3>2, <4>1, <4>2
    <3>7. QED
          BY <1>9, <3>1, <3>2, <3>5, <3>6 DEF RepeatInv, ChunksWith, Single
  <2>2. QED
        BY <2>1 DEF RepeatInv
<1>16. WholeInv'
       BY <1>1, WholeKept DEF Keep, CorpusInv, folderVars
<1>17. GatherInv' /\ MendInv' /\ UpsertInv'
       BY <1>9, NotGathering, NotMending, NotUpserting
<1>18. QED
       BY <1>12, <1>13, <1>14, <1>15, <1>16, <1>17 DEF CorpusInv

LEMMA SaveCheckpointKeeps == ASSUME CorpusInv, SaveCheckpoint PROVE CorpusInv'
<1>1. /\ script.name = "units" /\ script.step = "save" /\ Carry
      /\ checkpoint' = script.processed
      /\ script' = IF script.todo = {} THEN Idle ELSE [script EXCEPT !.step = "insert"]
      /\ Keep(<<storeVars, dump, snapshot, historyVars>>)
      BY DEF SaveCheckpoint, Running
<1>2. IsUnits(script)
      BY <1>1, ScriptKinds DEF CorpusInv, TypeInv
<1>3. /\ IsScript(script') /\ script'.name \in {"none", "units"}
      /\ script'.name = "units" => /\ script'.step = "insert" /\ script.todo # {}
                                   /\ script'.todo = script.todo /\ script'.bookOf = script.bookOf
                                   /\ script'.processed = script.processed
  <2>1. CASE script.todo = {}
        BY <1>1, <2>1 DEF IsScript, Idle
  <2>2. CASE script.todo # {}
    <3>1. /\ IsUnits(script') /\ script'.name = "units" /\ script'.step = "insert"
          /\ script'.todo = script.todo /\ script'.bookOf = script.bookOf
          /\ script'.processed = script.processed
          BY <1>1, <1>2, <2>2 DEF IsUnits
    <3>2. QED
          BY <2>2, <3>1 DEF IsScript
  <2>3. QED
        BY <2>1, <2>2
<1>4. TypeInv'
  <2>1. FolderInv' /\ StoreInv'
        BY <1>1, FoldersKept, StoresKept DEF Keep, CorpusInv, TypeInv
  <2>2. FileInv'
        BY <1>1, <1>2 DEF Keep, CorpusInv, TypeInv, FileInv, IsUnits
  <2>3. HistoryInv'
        BY <1>1, CountsKept DEF Keep, CorpusInv, TypeInv, historyVars
  <2>4. QED
        BY <1>3, <2>1, <2>2, <2>3 DEF TypeInv
<1>5. TodoInv'
      BY <1>1, <1>3 DEF CorpusInv, TodoInv
<1>6. EarnedInv'
  <2>1. UNCHANGED <<units, graph, wentBack, barren>>
        BY <1>1 DEF Keep, storeVars, historyVars
  <2>2. wentBack \/ script.processed \subseteq ChunksWith(units) \cup barren
        BY <1>1 DEF CorpusInv, EarnedInv
  <2>3. RecordsAreEarned'
        BY <1>1, <2>1, <2>2 DEF CorpusInv, EarnedInv, RecordsAreEarned, ChunksWith
  <2>4. QED
        BY <1>3, <2>1, <2>2, <2>3 DEF EarnedInv, ChunksWith
<1>7. RepeatInv'
  <2>1. UNCHANGED <<units, dump, forgetful>>
        BY <1>1 DEF Keep, storeVars, historyVars
  <2>2. QED
        BY <1>1, <1>3, <2>1 DEF CorpusInv, RepeatInv, ChunksWith, Single
<1>8. WholeInv'
      BY <1>1, WholeKept DEF Keep, CorpusInv, folderVars, storeVars, historyVars
<1>9. GatherInv' /\ MendInv' /\ UpsertInv'
      BY <1>3, NotGathering, NotMending, NotUpserting
<1>10. QED
       BY <1>4, <1>5, <1>6, <1>7, <1>8, <1>9 DEF CorpusInv

LEMMA CutCheckpointKeeps == ASSUME CorpusInv, CutCheckpoint PROVE CorpusInv'
<1>1. /\ BreaksOff /\ checkpoint' = {} /\ forgetful' = TRUE /\ script' = Idle
      /\ Keep(<<storeVars, dump, snapshot, unfinished, wentBack, barren, losses>>)
      BY DEF CutCheckpoint
<1>2. IsScript(script') /\ script'.name = "none"
      BY <1>1 DEF IsScript, Idle
<1>3. TypeInv'
  <2>1. FolderInv' /\ StoreInv'
        BY <1>1, FoldersKept, StoresKept DEF Keep, CorpusInv, TypeInv
  <2>2. FileInv'
        BY <1>1 DEF Keep, CorpusInv, TypeInv, FileInv
  <2>3. HistoryInv'
    <3>1. commands' \in 0..MaxCommands /\ breaks' \in 0..MaxBreaks
          BY <1>1, ExtractionAssumption DEF BreaksOff, CorpusInv, TypeInv, HistoryInv
    <3>2. QED
          BY <1>1, <3>1 DEF Keep, CorpusInv, TypeInv, HistoryInv
  <2>4. QED
        BY <1>2, <2>1, <2>2, <2>3 DEF TypeInv
<1>4. EarnedInv'
  <2>1. UNCHANGED <<units, graph, wentBack, barren>>
        BY <1>1 DEF Keep, storeVars
  <2>2. RecordsAreEarned'
        BY <1>1, <2>1 DEF CorpusInv, EarnedInv, RecordsAreEarned
  <2>3. QED
        BY <1>2, <2>2 DEF EarnedInv
<1>5. RepeatInv'
      BY <1>1 DEF RepeatInv
<1>6. WholeInv'
      BY <1>1, WholeKept DEF Keep, CorpusInv, folderVars, storeVars
<1>7. GatherInv' /\ MendInv' /\ UpsertInv' /\ TodoInv'
      BY <1>2, NotGathering, NotMending, NotUpserting, NotForUnits
<1>8. QED
      BY <1>3, <1>4, <1>5, <1>6, <1>7 DEF CorpusInv

-----------------------------------------------------------------------------
(***************************************************************************)
(* Neo4j.                                                                  *)
(***************************************************************************)
LEMMA GraphStarts ==
    ASSUME CorpusInv, NEW name \in {"graph", "build"}, units # {},
           Command([name |-> name, step |-> "graph", todo |-> units]),
           Keep(<<storeVars, fileVars, historyVars>>)
    PROVE  CorpusInv'
<1>1. script.name = "none" /\ script' = [name |-> name, step |-> "graph", todo |-> units]
      BY CommandCounts
<1>2. IsScript(script') /\ script'.name = name /\ script'.todo = units
      BY <1>1 DEF IsScript, IsGraph, CorpusInv, TypeInv, StoreInv
<1>3. EarnedInv'
  <2>1. UNCHANGED <<units, graph, checkpoint, wentBack, barren>>
        BY DEF Keep, storeVars, fileVars, historyVars
  <2>2. QED
        BY <1>2, <2>1 DEF CorpusInv, EarnedInv, RecordsAreEarned
<1>4. QED
      BY <1>1, <1>2, <1>3, CommandCounts, NotUpserting, QuietStep

LEMMA RebuildKeeps == ASSUME CorpusInv, Rebuild PROVE CorpusInv'
BY GraphStarts DEF Rebuild

LEMMA BuildGraphKeeps == ASSUME CorpusInv, BuildGraph PROVE CorpusInv'
BY GraphStarts DEF BuildGraph

\* Steps that only the graph and its scripts see.
LEMMA GraphStep ==
    ASSUME CorpusInv, Keep(<<points, rows, users, units, fileVars, historyVars>>), Carry,
           script.name \in {"graph", "build", "ingest"},
           graph' \subseteq UnitSet, wentBack \/ graph' \subseteq units,
           IsScript(script'), script'.name \in {"none", "graph", "ingest"},
           UpsertInv',
           script'.name \in {"graph", "ingest"} /\ script'.step = "graph" =>
               script'.todo # {} /\ (wentBack \/ script'.todo \subseteq units)
    PROVE  CorpusInv'
<1>1. TypeInv'
  <2>1. FolderInv' /\ FileInv'
        BY FoldersKept, FilesKept DEF Keep, CorpusInv, TypeInv
  <2>2. StoreInv'
        BY DEF Keep, CorpusInv, TypeInv, StoreInv
  <2>3. HistoryInv'
        BY CountsKept DEF Keep, CorpusInv, TypeInv, historyVars
  <2>4. QED
        BY <2>1, <2>2, <2>3 DEF TypeInv
<1>2. UNCHANGED <<units, checkpoint, dump, wentBack, barren, forgetful, unfinished, points, doc>>
      BY DEF Keep, folderVars, fileVars, historyVars
<1>3. EarnedInv'
      BY <1>2 DEF CorpusInv, EarnedInv, RecordsAreEarned
<1>4. RepeatInv'
      BY <1>2, RepeatKept DEF CorpusInv
<1>5. WholeInv'
      BY <1>2, WholeKept DEF CorpusInv
<1>6. GatherInv' /\ MendInv' /\ TodoInv'
      BY NotGathering, NotMending, NotForUnits
<1>7. QED
      BY <1>1, <1>3, <1>4, <1>5, <1>6 DEF CorpusInv

LEMMA AddToGraphKeeps == ASSUME CorpusInv, AddToGraph PROVE CorpusInv'
<1>1. /\ script.name \in {"graph", "ingest"} /\ script.step = "graph" /\ Carry
      /\ Keep(<<points, rows, users, units, fileVars, historyVars>>)
      BY DEF AddToGraph
<1>2. PICK u : u = CHOOSE next \in script.todo : TRUE
      OBVIOUS
<1> DEFINE left == script.todo \ {u}
           kept == [script EXCEPT !.todo = left]
<1>3. /\ graph' \in {graph, graph \cup {u}}
      /\ script' = IF left # {} THEN kept
                   ELSE IF script.name = "ingest" THEN NextFolder ELSE Idle
      BY <1>2 DEF AddToGraph
<1>4. script.todo # {} /\ (wentBack \/ script.todo \subseteq units) /\ (wentBack \/ graph \subseteq units)
      BY <1>1 DEF CorpusInv, EarnedInv, RecordsAreEarned
<1>5. u \in script.todo
      BY <1>2, <1>4
<1>6. IsGraph(script) \/ IsIngestGraph(script)
      BY <1>1, ScriptKinds DEF CorpusInv, TypeInv
<1>7. script.todo \subseteq UnitSet /\ graph \subseteq UnitSet
      BY <1>6 DEF IsGraph, IsIngestGraph, CorpusInv, TypeInv, StoreInv
<1>8. graph' \subseteq UnitSet /\ (wentBack \/ graph' \subseteq units)
      BY <1>3, <1>4, <1>5, <1>7
<1>9. script.name = "ingest" => IsIngestGraph(script)
      BY <1>6 DEF IsGraph
<1>10. script.name = "ingest" =>
          \/ NextFolder = Idle
          \/ /\ IsScript(NextFolder) /\ NextFolder.name = script.name /\ NextFolder.step = "book"
             /\ \A n \in DOMAIN NextFolder.books :
                   \E m \in DOMAIN script.books : NextFolder.books[n] = script.books[m]
       BY <1>9, NextFolderFacts
<1>11. /\ IsScript(kept) /\ kept.name = script.name /\ kept.step = "graph" /\ kept.todo = left
       /\ script.name = "ingest" => kept.books = script.books
  <2>1. left \subseteq UnitSet
        BY <1>7
  <2> HIDE DEF left
  <2>2. CASE IsGraph(script)
    <3>1. IsGraph(kept) /\ kept.name = script.name /\ kept.step = "graph" /\ kept.todo = left
          BY <1>1, <2>1, <2>2 DEF IsGraph
    <3>2. script.name # "ingest"
          BY <2>2 DEF IsGraph
    <3>3. QED
          BY <3>1, <3>2 DEF IsScript
  <2>3. CASE IsIngestGraph(script)
    <3>1. /\ IsIngestGraph(kept) /\ kept.name = script.name /\ kept.step = "graph" /\ kept.todo = left
          /\ kept.books = script.books /\ kept.name = "ingest"
          BY <1>1, <2>1, <2>3 DEF IsIngestGraph
    <3>2. QED
          BY <3>1 DEF IsScript
  <2>4. QED
        BY <1>6, <2>2, <2>3
<1>12. left \subseteq script.todo
       OBVIOUS
<1> HIDE DEF left, kept
<1>13. doc' = doc
       BY <1>1 DEF Keep, folderVars
<1>14. CASE left # {}
  <2>1. script' = kept
        BY <1>3, <1>14
  <2>2. UpsertInv'
    <3>1. script'.name = "ingest" => \A n \in DOMAIN script'.books : doc'[script'.books[n]] # NoFile
          BY <1>1, <1>11, <1>13, <2>1 DEF CorpusInv, UpsertInv
    <3>2. QED
          BY <1>1, <1>11, <2>1, <3>1 DEF UpsertInv
  <2>3. script'.todo # {} /\ (wentBack \/ script'.todo \subseteq units)
        BY <1>4, <1>11, <1>12, <1>14, <2>1
  <2>4. QED
        BY <1>1, <1>8, <1>11, <2>1, <2>2, <2>3, GraphStep
<1>15. CASE left = {} /\ script.name = "ingest"
  <2>1. script' = NextFolder
        BY <1>3, <1>15
  <2>2. /\ IsScript(script') /\ script'.name \in {"none", "ingest"}
        /\ script'.name = "ingest" => script'.step = "book"
        BY <1>10, <1>15, <2>1 DEF IsScript, Idle
  <2>3. UpsertInv'
    <3>1. \A n \in DOMAIN script.books : doc[script.books[n]] # NoFile
          BY <1>15 DEF CorpusInv, UpsertInv
    <3>2. script'.name = "ingest" => \A n \in DOMAIN script'.books : doc'[script'.books[n]] # NoFile
          BY <1>10, <1>13, <1>15, <2>1, <3>1 DEF Idle
    <3>3. QED
          BY <2>2, <3>2 DEF UpsertInv
  <2>4. QED
        BY <1>1, <1>8, <2>2, <2>3, GraphStep
<1>16. CASE left = {} /\ script.name # "ingest"
  <2>1. script' = Idle
        BY <1>3, <1>16
  <2>2. IsScript(script') /\ script'.name = "none"
        BY <2>1 DEF IsScript, Idle
  <2>3. QED
        BY <1>1, <1>8, <2>2, NotUpserting, GraphStep
<1>17. QED
       BY <1>14, <1>15, <1>16

LEMMA AddBatchesKeeps == ASSUME CorpusInv, AddBatches PROVE CorpusInv'
<1>1. /\ script.name = "build" /\ script.step = "graph" /\ Carry /\ script' = Idle
      /\ Keep(<<points, rows, users, units, fileVars, historyVars>>)
      BY DEF AddBatches, Running
<1>2. PICK named \in SUBSET script.todo : graph' = graph \cup named
      BY DEF AddBatches
<1>3. IsGraph(script)
      BY <1>1, ScriptKinds DEF CorpusInv, TypeInv
<1>4. wentBack \/ (script.todo \subseteq units /\ graph \subseteq units)
      BY <1>1 DEF CorpusInv, EarnedInv, RecordsAreEarned
<1>5. graph' \subseteq UnitSet /\ (wentBack \/ graph' \subseteq units)
      BY <1>2, <1>3, <1>4 DEF IsGraph, CorpusInv, TypeInv, StoreInv
<1>6. IsScript(script') /\ script'.name = "none"
      BY <1>1 DEF IsScript, Idle
<1>7. QED
      BY <1>1, <1>5, <1>6, NotUpserting, GraphStep

-----------------------------------------------------------------------------
(***************************************************************************)
(* Backups.                                                                *)
(***************************************************************************)
\* Steps that no invariant of a script is about.
LEMMA PlainQuietStep ==
    ASSUME CorpusInv, Keep(<<storeVars, fileVars, historyVars>>),
           \/ Carry \/ BreaksOff
           \/ commands < MaxCommands /\ commands' = commands + 1 /\ UNCHANGED breaks,
           script.name # "units", IsScript(script'), script'.name \in {"none", "backup", "restore"}
    PROVE  CorpusInv'
<1>1. EarnedInv'
      BY EarnedInQuiet
<1>2. QED
      BY <1>1, NotUpserting, QuietStep

LEMMA BackupKeeps == ASSUME CorpusInv, Backup PROVE CorpusInv'
<1>1. /\ Command([name |-> "backup", step |-> "postgres"])
      /\ Keep(<<storeVars, fileVars, historyVars>>)
      BY DEF Backup
<1>2. script.name = "none" /\ script' = [name |-> "backup", step |-> "postgres"]
      BY <1>1, CommandCounts
<1>3. IsScript(script') /\ script'.name = "backup"
      BY <1>2 DEF IsScript, IsBackup
<1>4. QED
      BY <1>1, <1>2, <1>3, CommandCounts, PlainQuietStep

LEMMA RestoreKeeps == ASSUME CorpusInv, Restore PROVE CorpusInv'
<1>1. /\ Command([name |-> "restore", step |-> "postgres"])
      /\ Keep(<<storeVars, fileVars, historyVars>>)
      BY DEF Restore
<1>2. script.name = "none" /\ script' = [name |-> "restore", step |-> "postgres"]
      BY <1>1, CommandCounts
<1>3. IsScript(script') /\ script'.name = "restore"
      BY <1>2 DEF IsScript, IsRestore
<1>4. QED
      BY <1>1, <1>2, <1>3, CommandCounts, PlainQuietStep

LEMMA NextStoreFacts ==
    ASSUME IsBackup(script) \/ (IsRestore(script) /\ script.step # "neo4j")
    PROVE  IsScript(NextStore) /\ NextStore.name \in {"none", "backup", "restore"}
<1> DEFINE next == IF script.step = "postgres" THEN "qdrant" ELSE "neo4j"
<1>1. NextStore = IF next = "neo4j" /\ script.name = "backup" THEN Idle ELSE [script EXCEPT !.step = next]
      BY DEF NextStore
<1>2. CASE IsBackup(script)
  <2>1. script.name = "backup" /\ (next = "qdrant" \/ NextStore = Idle)
        BY <1>1, <1>2 DEF IsBackup
  <2>2. ASSUME next = "qdrant" PROVE IsBackup(NextStore) /\ NextStore.name = "backup"
        BY <1>1, <1>2, <2>2 DEF IsBackup
  <2>3. QED
        BY <2>1, <2>2 DEF IsScript, Idle
<1>3. CASE IsRestore(script)
  <2>1. IsRestore(NextStore) /\ NextStore.name = "restore"
        BY <1>1, <1>3 DEF IsRestore
  <2>2. QED
        BY <2>1 DEF IsScript
<1>4. QED
      BY <1>2, <1>3

LEMMA SkipStoreKeeps == ASSUME CorpusInv, SkipStore PROVE CorpusInv'
<1>1. /\ script.name \in {"backup", "restore"} /\ script.step # "neo4j" /\ BreaksOff
      /\ script' = NextStore /\ Keep(<<storeVars, fileVars, historyVars>>)
      BY DEF SkipStore
<1>2. IsBackup(script) \/ IsRestore(script)
      BY <1>1, ScriptKinds DEF CorpusInv, TypeInv
<1>3. IsScript(script') /\ script'.name \in {"none", "backup", "restore"}
      BY <1>1, <1>2, NextStoreFacts
<1>4. QED
      BY <1>1, <1>3, PlainQuietStep

\* A dump and a snapshot are of what the stores hold; a dump that is cut off says nothing.
LEMMA BackupStep ==
    ASSUME CorpusInv, Keep(<<storeVars, checkpoint, historyVars>>), Carry \/ BreaksOff,
           \/ dump' \in {Postgres, Cut} /\ UNCHANGED snapshot
           \/ snapshot' \in {points, Cut} /\ UNCHANGED dump,
           script.name = "backup", IsScript(script'), script'.name \in {"none", "backup"}
    PROVE  CorpusInv'
<1>1. /\ UNCHANGED <<points, units, graph, checkpoint, doc>>
      /\ UNCHANGED <<unfinished, forgetful, wentBack, barren>>
      BY DEF Keep, folderVars, storeVars, historyVars
<1>2. TypeInv'
  <2>1. FolderInv' /\ StoreInv'
        BY FoldersKept, StoresKept DEF Keep, CorpusInv, TypeInv
  <2>2. IsDump(Postgres) /\ IsCollection(points)
        BY DEF IsDump, Postgres, CorpusInv, TypeInv, StoreInv
  <2>3. FileInv'
        BY <1>1, <2>2 DEF CorpusInv, TypeInv, FileInv
  <2>4. HistoryInv'
        BY CountsKept DEF Keep, CorpusInv, TypeInv, historyVars
  <2>5. QED
        BY <2>1, <2>3, <2>4 DEF TypeInv
<1>3. EarnedInv'
      BY <1>1, EarnedKept DEF CorpusInv
<1>4. RepeatInv'
  <2>1. ASSUME ~forgetful' PROVE RepeatInv'
    <3>1. ~forgetful
          BY <1>1, <2>1
    <3>2. Single(units) /\ ChunksWith(units) \subseteq checkpoint
          BY <3>1 DEF CorpusInv, RepeatInv
    <3>3. dump \notin {NoFile, Cut} => Single(dump.units) /\ ChunksWith(dump.units) \subseteq checkpoint
          BY <3>1 DEF CorpusInv, RepeatInv
    <3>4. dump' \notin {NoFile, Cut} => Single(dump'.units) /\ ChunksWith(dump'.units) \subseteq checkpoint
      <4>1. Postgres.units = units
            BY DEF Postgres
      <4>2. QED
            BY <3>2, <3>3, <4>1
    <3>5. QED
          BY <1>1, <3>2, <3>4 DEF RepeatInv, ChunksWith, Single
  <2>2. QED
        BY <2>1 DEF RepeatInv
<1>5. WholeInv'
      BY <1>1, WholeKept DEF CorpusInv
<1>6. GatherInv' /\ MendInv' /\ UpsertInv' /\ TodoInv'
      BY NotGathering, NotMending, NotUpserting, NotForUnits
<1>7. QED
      BY <1>2, <1>3, <1>4, <1>5, <1>6 DEF CorpusInv

LEMMA SaveStoreKeeps == ASSUME CorpusInv, SaveStore PROVE CorpusInv'
<1>1. /\ script.name = "backup" /\ Carry /\ script' = NextStore
      /\ Keep(<<storeVars, checkpoint, historyVars>>)
      /\ \/ dump' \in {Postgres, Cut} /\ UNCHANGED snapshot
         \/ snapshot' \in {points, Cut} /\ UNCHANGED dump
      BY DEF SaveStore
<1>2. IsBackup(script)
      BY <1>1, ScriptKinds DEF CorpusInv, TypeInv
<1>3. IsScript(script') /\ script'.name \in {"none", "backup"}
  <2>1. IsScript(NextStore)
        BY <1>2, NextStoreFacts
  <2>2. NextStore.name \in {"none", "backup"}
        BY <1>2 DEF NextStore, Idle, IsBackup
  <2>3. QED
        BY <1>1, <2>1, <2>2
<1>4. QED
      BY <1>1, <1>3, BackupStep

LEMMA CutBackupKeeps == ASSUME CorpusInv, CutBackup PROVE CorpusInv'
<1>1. /\ script.name = "backup" /\ BreaksOff /\ script' = Idle
      /\ Keep(<<storeVars, checkpoint, historyVars>>)
      /\ \/ dump' \in {Postgres, Cut} /\ UNCHANGED snapshot
         \/ snapshot' \in {points, Cut} /\ UNCHANGED dump
      BY DEF CutBackup
<1>2. IsScript(script') /\ script'.name = "none"
      BY <1>1 DEF IsScript, Idle
<1>3. QED
      BY <1>1, <1>2, BackupStep

\* What Postgres holds afterwards is of the right kind, and if no run has
\* forgotten any units, they are of one run for each chunk, and recorded.
LEMMA LoadFacts ==
    ASSUME CorpusInv, NEW content, IsDump(content), Load(content),
           UNCHANGED <<graph, checkpoint, barren>>,
           ~forgetful => Single(content.units) /\ ChunksWith(content.units) \subseteq checkpoint
    PROVE  /\ rows' \subseteq Books /\ users' \in BOOLEAN /\ units' \subseteq UnitSet /\ wentBack' \in BOOLEAN
           /\ RecordsAreEarned'
           /\ ~forgetful => Single(units') /\ ChunksWith(units') \subseteq checkpoint
<1>1. /\ rows' = content.rows /\ users' = content.users /\ units' = content.units
      /\ wentBack' = (wentBack \/ ~(units \subseteq content.units))
      BY DEF Load
<1>2. rows' \subseteq Books /\ users' \in BOOLEAN /\ units' \subseteq UnitSet /\ wentBack' \in BOOLEAN
      BY <1>1 DEF IsDump, CorpusInv, TypeInv, HistoryInv
<1>3. RecordsAreEarned'
  <2>1. ASSUME ~wentBack' PROVE ~wentBack /\ units \subseteq units'
        BY <1>1, <2>1
  <2>2. QED
        BY <2>1 DEF CorpusInv, EarnedInv, RecordsAreEarned
<1>4. QED
      BY <1>1, <1>2, <1>3

\* Steps of a script that restores Postgres, whatever it loads.
LEMMA PostgresStep ==
    ASSUME CorpusInv, Running("restore", "postgres"), script' \in {Idle, NextStore},
           Keep(<<points, graph, fileVars, unfinished, forgetful, barren, losses>>),
           Carry \/ BreaksOff,
           rows' \subseteq Books, users' \in BOOLEAN, units' \subseteq UnitSet, wentBack' \in BOOLEAN,
           RecordsAreEarned',
           ~forgetful => Single(units') /\ ChunksWith(units') \subseteq checkpoint
    PROVE  CorpusInv'
<1>1. /\ UNCHANGED <<points, graph, checkpoint, dump, doc>>
      /\ UNCHANGED <<unfinished, forgetful, barren, losses>>
      BY DEF Keep, folderVars, fileVars
<1>2. IsScript(script') /\ script'.name \in {"none", "backup", "restore"}
  <2>1. IsRestore(script) /\ script.step # "neo4j"
        BY ScriptKinds DEF Running, CorpusInv, TypeInv
  <2>2. CASE script' = NextStore
        BY <2>1, <2>2, NextStoreFacts
  <2>3. CASE script' = Idle
        BY <2>3 DEF IsScript, Idle
  <2>4. QED
        BY <2>2, <2>3
<1>3. TypeInv'
  <2>1. FolderInv' /\ FileInv'
        BY FoldersKept, FilesKept DEF Keep, CorpusInv, TypeInv
  <2>2. StoreInv'
        BY <1>1 DEF CorpusInv, TypeInv, StoreInv
  <2>3. HistoryInv'
    <3>1. commands' \in 0..MaxCommands /\ breaks' \in 0..MaxBreaks
          BY ExtractionAssumption DEF Carry, BreaksOff, CorpusInv, TypeInv, HistoryInv
    <3>2. QED
          BY <1>1, <3>1 DEF CorpusInv, TypeInv, HistoryInv
  <2>4. QED
        BY <1>2, <2>1, <2>2, <2>3 DEF TypeInv
<1>4. EarnedInv'
      BY <1>2 DEF EarnedInv
<1>5. RepeatInv'
  <2>1. ~forgetful =>
            (dump \notin {NoFile, Cut}
                => Single(dump.units) /\ ChunksWith(dump.units) \subseteq checkpoint)
        BY DEF CorpusInv, RepeatInv
  <2>2. QED
        BY <1>1, <1>2, <2>1 DEF RepeatInv, ChunksWith, Single
<1>6. WholeInv'
      BY <1>1, WholeKept DEF CorpusInv
<1>7. GatherInv' /\ MendInv' /\ UpsertInv' /\ TodoInv'
      BY <1>2, NotGathering, NotMending, NotUpserting, NotForUnits
<1>8. QED
      BY <1>3, <1>4, <1>5, <1>6, <1>7 DEF CorpusInv

\* What Postgres holds, a dump and an empty database are contents that keep the
\* invariant, and so is what lies between two of them.
IsContent(content) ==
    /\ IsDump(content)
    /\ ~forgetful => Single(content.units) /\ ChunksWith(content.units) \subseteq checkpoint

LEMMA Contents ==
    ASSUME CorpusInv, script.name # "units"
    PROVE  /\ IsContent(Postgres) /\ IsContent(Emptied)
           /\ dump \notin {NoFile, Cut} => IsContent(dump)
           /\ \A old, new : IsContent(old) /\ IsContent(new)
                 => \A content \in Between(old, new) : IsContent(content)
<1>1. IsContent(Postgres)
  <2>1. IsDump(Postgres) /\ Postgres.units = units
        BY DEF IsDump, Postgres, CorpusInv, TypeInv, StoreInv
  <2>2. QED
        BY <2>1 DEF IsContent, CorpusInv, RepeatInv
<1>2. IsContent(Emptied)
  <2>1. IsDump(Emptied) /\ Emptied.units = {}
        BY DEF IsDump, Emptied
  <2>2. QED
        BY <2>1 DEF IsContent, Single, ChunksWith
<1>3. ASSUME dump \notin {NoFile, Cut} PROVE IsContent(dump)
      BY <1>3 DEF IsContent, CorpusInv, TypeInv, FileInv, RepeatInv
<1>4. ASSUME NEW old, NEW new, IsContent(old), IsContent(new), NEW content \in Between(old, new)
      PROVE  IsContent(content)
  <2>1. /\ content \in [rows: {old.rows, new.rows}, users: {old.users, new.users},
                        units: {old.units, new.units}]
        /\ IsDump(old) /\ IsDump(new)
        BY <1>4 DEF Between, IsContent
  <2>2. IsDump(content)
        BY <2>1 DEF IsDump
  <2>3. content.units \in {old.units, new.units}
        BY <2>1
  <2>4. QED
        BY <1>4, <2>2, <2>3 DEF IsContent
<1>5. QED
      BY <1>1, <1>2, <1>3, <1>4

LEMMA RestorePostgresKeeps == ASSUME CorpusInv, RestorePostgres PROVE CorpusInv'
<1>1. /\ Running("restore", "postgres") /\ script.name = "restore" /\ script' = NextStore
      /\ Keep(<<points, graph, fileVars, unfinished, forgetful, barren, losses>>)
      /\ Carry \/ BreaksOff
      BY DEF RestorePostgres, Running, Spared, Tried
<1>2. UNCHANGED <<graph, checkpoint, barren>>
      BY <1>1 DEF Keep, fileVars
<1>3. CASE UNCHANGED <<rows, users, units, wentBack>>
  <2>1. RecordsAreEarned'
        BY <1>2, <1>3 DEF CorpusInv, EarnedInv, RecordsAreEarned
  <2>2. ~forgetful => Single(units') /\ ChunksWith(units') \subseteq checkpoint
        BY <1>1, <1>3 DEF CorpusInv, RepeatInv
  <2>3. /\ rows' \subseteq Books /\ users' \in BOOLEAN /\ units' \subseteq UnitSet
        /\ wentBack' \in BOOLEAN
        BY <1>3 DEF CorpusInv, TypeInv, StoreInv, HistoryInv
  <2>4. QED
        BY <1>1, <2>1, <2>2, <2>3, PostgresStep
<1>4. ASSUME NEW content, IsContent(content), Load(content) PROVE CorpusInv'
      BY <1>1, <1>2, <1>4, LoadFacts, PostgresStep DEF IsContent
<1>5. QED
      BY <1>1, <1>3, <1>4, Contents DEF RestorePostgres

LEMMA CutRestoreKeeps == ASSUME CorpusInv, CutRestore PROVE CorpusInv'
<1>1. /\ Running("restore", "postgres") /\ script.name = "restore"
      /\ script' \in {Idle, NextStore} /\ BreaksOff
      /\ Keep(<<points, graph, fileVars, unfinished, forgetful, barren, losses>>)
      /\ dump # NoFile
      BY DEF CutRestore, Running
<1>2. UNCHANGED <<graph, checkpoint, barren>>
      BY <1>1 DEF Keep, fileVars
<1>3. PICK content : IsContent(content) /\ Load(content)
      BY <1>1, Contents DEF CutRestore
<1>4. QED
      BY <1>1, <1>2, <1>3, LoadFacts, PostgresStep DEF IsContent

\* The books of a snapshot may have other documents by now.
LEMMA RestoreQdrantKeeps == ASSUME CorpusInv, RestoreQdrant PROVE CorpusInv'
<1>1. /\ script.name = "restore" /\ script.step = "qdrant" /\ script' = NextStore
      /\ Keep(<<rows, users, units, graph, fileVars, forgetful, wentBack, barren, losses>>)
      /\ Carry \/ BreaksOff
      BY DEF RestoreQdrant, Running, Spared, Tried
<1>2. /\ UNCHANGED <<rows, users, units, graph, checkpoint, dump, doc>>
      /\ UNCHANGED <<forgetful, wentBack, barren, losses>>
      BY <1>1 DEF Keep, folderVars, fileVars
<1>3. IsScript(script') /\ script'.name \in {"none", "backup", "restore"}
  <2>1. IsRestore(script)
        BY <1>1, ScriptKinds DEF CorpusInv, TypeInv
  <2>2. QED
        BY <1>1, <2>1, NextStoreFacts
<1>4. \/ UNCHANGED <<points, unfinished>>
      \/ /\ points' = snapshot /\ IsCollection(snapshot)
         /\ unfinished' = unfinished \cup {p.key.book : p \in snapshot}
      BY DEF RestoreQdrant, CorpusInv, TypeInv, FileInv
<1>5. IsCollection(points') /\ unfinished' \subseteq Books
  <2>1. IsCollection(points) /\ unfinished \subseteq Books
        BY DEF CorpusInv, TypeInv, StoreInv, HistoryInv
  <2>2. IsCollection(snapshot) => {p.key.book : p \in snapshot} \subseteq Books
        BY DEF IsCollection, PointSet, KeySet
  <2>3. QED
        BY <1>4, <2>1, <2>2
<1>6. WholeInv'
  <2>1. CASE UNCHANGED <<points, unfinished>>
        BY <1>2, <2>1, WholeKept DEF CorpusInv
  <2>2. CASE points' = snapshot /\ unfinished' = unfinished \cup {p.key.book : p \in snapshot}
    <3>1. \A b \in Books \ unfinished' : PointsOf(b)' = {}
          BY <2>2 DEF PointsOf
    <3>2. QED
          BY <3>1 DEF WholeInv
  <2>3. QED
        BY <1>4, <2>1, <2>2
<1>7. TypeInv'
  <2>1. FolderInv' /\ FileInv'
        BY <1>1, FoldersKept, FilesKept DEF Keep, CorpusInv, TypeInv
  <2>2. StoreInv'
        BY <1>2, <1>5 DEF CorpusInv, TypeInv, StoreInv
  <2>3. HistoryInv'
    <3>1. commands' \in 0..MaxCommands /\ breaks' \in 0..MaxBreaks
          BY <1>1, ExtractionAssumption DEF Carry, BreaksOff, CorpusInv, TypeInv, HistoryInv
    <3>2. QED
          BY <1>2, <1>5, <3>1 DEF CorpusInv, TypeInv, HistoryInv
  <2>4. QED
        BY <1>3, <2>1, <2>2, <2>3 DEF TypeInv
<1>8. EarnedInv' /\ RepeatInv'
      BY <1>1, <1>2, <1>3, EarnedKept, RepeatKept DEF CorpusInv
<1>9. GatherInv' /\ MendInv' /\ UpsertInv' /\ TodoInv'
      BY <1>3, NotGathering, NotMending, NotUpserting, NotForUnits
<1>10. QED
       BY <1>6, <1>7, <1>8, <1>9 DEF CorpusInv

LEMMA RestoreGraphKeeps == ASSUME CorpusInv, RestoreGraph PROVE CorpusInv'
<1>1. /\ script.name = "restore" /\ Carry /\ script' = Idle
      /\ Keep(<<storeVars, fileVars, historyVars>>)
      BY DEF RestoreGraph, Running
<1>2. IsScript(script') /\ script'.name = "none"
      BY <1>1 DEF IsScript, Idle
<1>3. QED
      BY <1>1, <1>2, PlainQuietStep

-----------------------------------------------------------------------------
(***************************************************************************)
(* From outside, and scripts that break off.                               *)
(***************************************************************************)
LEMMA LoseKeeps == ASSUME CorpusInv, NEW lost, Lose(lost) PROVE CorpusInv'
<1>1. /\ script = Idle /\ losses < MaxLosses /\ losses' = losses + 1
      /\ UNCHANGED <<extractionVars, fileVars, unfinished, forgetful, barren>>
      /\ points' \in {{}, points} /\ graph' \in {{}, graph}
      /\ Load(Emptied) \/ UNCHANGED <<rows, users, units, wentBack>>
      BY DEF Lose
<1>2. /\ UNCHANGED <<folderVars, script, commands, breaks, checkpoint, dump, snapshot, doc>>
      /\ script'.name = "none"
      BY <1>1 DEF extractionVars, folderVars, fileVars, Idle
<1>3. /\ rows' \subseteq Books /\ users' \in BOOLEAN /\ units' \subseteq UnitSet /\ wentBack' \in BOOLEAN
      /\ wentBack' \/ (~wentBack /\ units \subseteq units')
      /\ ~forgetful => Single(units') /\ ChunksWith(units') \subseteq checkpoint
  <2>1. ~forgetful => Single(units) /\ ChunksWith(units) \subseteq checkpoint
        BY <1>1 DEF CorpusInv, RepeatInv, Idle
  <2>2. CASE UNCHANGED <<rows, users, units, wentBack>>
        BY <2>1, <2>2 DEF CorpusInv, TypeInv, StoreInv, HistoryInv
  <2>3. CASE Load(Emptied)
    <3>1. /\ rows' = {} /\ users' = FALSE /\ units' = {}
          /\ wentBack' = (wentBack \/ ~(units \subseteq {}))
          BY <2>3 DEF Load, Emptied
    <3>2. QED
          BY <3>1 DEF Single, ChunksWith, CorpusInv, TypeInv, HistoryInv
  <2>4. QED
        BY <1>1, <2>2, <2>3
<1>4. TypeInv'
  <2>1. FolderInv' /\ FileInv'
        BY <1>1, <1>2, FoldersKept, FilesKept DEF CorpusInv, TypeInv
  <2>2. IsCollection({})
        BY FS_EmptySet DEF IsCollection
  <2>3. StoreInv'
        BY <1>1, <1>3, <2>2 DEF CorpusInv, TypeInv, StoreInv
  <2>4. losses' \in 0..MaxLosses
        BY <1>1, CorpusAssumption DEF CorpusInv, TypeInv, HistoryInv
  <2>5. HistoryInv'
        BY <1>1, <1>2, <1>3, <2>4 DEF CorpusInv, TypeInv, HistoryInv
  <2>6. QED
        BY <1>2, <2>1, <2>3, <2>5 DEF CorpusInv, TypeInv
<1>5. EarnedInv'
  <2>1. RecordsAreEarned'
        BY <1>1, <1>2, <1>3 DEF CorpusInv, EarnedInv, RecordsAreEarned
  <2>2. QED
        BY <1>2, <2>1 DEF EarnedInv
<1>6. RepeatInv'
      BY <1>1, <1>2, <1>3 DEF CorpusInv, RepeatInv, ChunksWith, Single
<1>7. WholeInv'
  <2>1. CASE points' = points
        BY <1>1, <1>2, <2>1, WholeKept DEF CorpusInv
  <2>2. CASE points' = {}
        BY <2>2 DEF WholeInv, PointsOf
  <2>3. QED
        BY <1>1, <2>1, <2>2
<1>8. GatherInv' /\ MendInv' /\ UpsertInv' /\ TodoInv'
      BY <1>2, NotGathering, NotMending, NotUpserting, NotForUnits
<1>9. QED
      BY <1>4, <1>5, <1>6, <1>7, <1>8 DEF CorpusInv

LEMMA SignUpKeeps == ASSUME CorpusInv, SignUp PROVE CorpusInv'
<1>1. /\ script = Idle /\ users' = TRUE
      /\ UNCHANGED <<extractionVars, points, rows, units, graph, fileVars, historyVars>>
      BY DEF SignUp
<1>2. UNCHANGED <<folderVars, script, doc>> /\ script'.name = "none" /\ script.name = "none" /\ Carry
      BY <1>1 DEF extractionVars, folderVars, Idle, Carry
<1>3. TypeInv'
  <2>1. FolderInv' /\ FileInv' /\ HistoryInv'
        BY <1>1, <1>2, FoldersKept, FilesKept, CountsKept DEF CorpusInv, TypeInv, historyVars
  <2>2. StoreInv'
        BY <1>1 DEF CorpusInv, TypeInv, StoreInv
  <2>3. QED
        BY <1>2, <2>1, <2>2 DEF CorpusInv, TypeInv
<1>4. EarnedInv' /\ RepeatInv'
      BY <1>1, <1>2, EarnedKept, RepeatKept DEF CorpusInv, fileVars, historyVars
<1>5. WholeInv'
      BY <1>1, <1>2, WholeKept DEF CorpusInv, historyVars
<1>6. GatherInv' /\ MendInv' /\ UpsertInv' /\ TodoInv'
      BY <1>2, NotGathering, NotMending, NotUpserting, NotForUnits
<1>7. QED
      BY <1>3, <1>4, <1>5, <1>6 DEF CorpusInv

\* A run for units that breaks off has forgotten those it had not yet recorded.
LEMMA BreakKeeps == ASSUME CorpusInv, Break PROVE CorpusInv'
<1>1. /\ BreaksOff /\ script' = Idle /\ UNCHANGED folderVars
      /\ forgetful' = (forgetful \/ (Running("units", "save") /\ script.processed # checkpoint))
      /\ UNCHANGED <<storeVars, fileVars, unfinished, wentBack, barren, losses>>
      BY DEF Break, BreakOff
<1>2. /\ UNCHANGED <<points, units, graph, checkpoint, dump, wentBack, barren, unfinished, doc>>
      /\ IsScript(script') /\ script'.name = "none"
      BY <1>1 DEF folderVars, storeVars, fileVars, IsScript, Idle
<1>3. TypeInv'
  <2>1. FolderInv' /\ StoreInv' /\ FileInv'
        BY <1>1, FoldersKept, StoresKept, FilesKept DEF CorpusInv, TypeInv
  <2>2. commands' \in 0..MaxCommands /\ breaks' \in 0..MaxBreaks
        BY <1>1, ExtractionAssumption DEF BreaksOff, CorpusInv, TypeInv, HistoryInv
  <2>3. HistoryInv'
        BY <1>1, <2>2 DEF CorpusInv, TypeInv, HistoryInv
  <2>4. QED
        BY <1>2, <2>1, <2>3 DEF TypeInv
<1>4. EarnedInv'
      BY <1>2, EarnedKept DEF CorpusInv
<1>5. RepeatInv'
  <2>1. ASSUME ~forgetful' PROVE ~forgetful /\ ChunksWith(units) \subseteq checkpoint
    <3>1. ~forgetful /\ ~(Running("units", "save") /\ script.processed # checkpoint)
          BY <1>1, <2>1
    <3>2. CASE script.name = "units"
      <4>1. script.step \in {"insert", "save"}
            BY <3>2, ScriptKinds DEF CorpusInv, TypeInv, IsUnits
      <4>2. script.processed = checkpoint
            BY <3>1, <3>2, <4>1 DEF Running, CorpusInv, RepeatInv
      <4>3. QED
            BY <3>1, <3>2, <4>2 DEF CorpusInv, RepeatInv
    <3>3. CASE script.name # "units"
          BY <3>1, <3>3 DEF CorpusInv, RepeatInv
    <3>4. QED
          BY <3>2, <3>3
  <2>2. QED
        BY <1>2, <2>1 DEF CorpusInv, RepeatInv, ChunksWith, Single
<1>6. WholeInv'
      BY <1>2, WholeKept DEF CorpusInv
<1>7. GatherInv' /\ MendInv' /\ UpsertInv' /\ TodoInv'
      BY <1>2, NotGathering, NotMending, NotUpserting, NotForUnits
<1>8. QED
      BY <1>3, <1>4, <1>5, <1>6, <1>7 DEF CorpusInv

-----------------------------------------------------------------------------
(***************************************************************************)
(* Extraction.                                                             *)
(***************************************************************************)
\* A book has a part, and the pages before a part's are below the part's.
LEMMA PartFacts ==
    ASSUME NEW b \in Books
    PROVE  /\ 1 \in 1..NumParts(b)
           /\ \A p, q \in 1..Pages[b] : PartOf(p) < PartOf(q) => p < q
           /\ \A p \in 1..Pages[b] : PartOf(p) \in 0..(NumParts(b) - 1)
<1>1. Pages[b] \in Nat \ {0} /\ PartPages \in Nat \ {0} /\ NumParts(b) \in Int
      BY BookFacts
<1>2. \A n \in Nat, m \in Nat \ {0} : (n + m) \div m = (n \div m) + 1 /\ n \div m \in Nat
      OBVIOUS
<1>3. \A a, n \in Nat, m \in Nat \ {0} : a <= n => a \div m <= n \div m
      OBVIOUS
<1>4. NumParts(b) = ((Pages[b] - 1) \div PartPages) + 1
  <2>1. Pages[b] - 1 \in Nat /\ Pages[b] + PartPages - 1 = (Pages[b] - 1) + PartPages
        BY <1>1
  <2>2. QED
        BY <1>1, <1>2, <2>1 DEF NumParts
<1>5. ASSUME NEW p \in 1..Pages[b] PROVE PartOf(p) \in 0..(NumParts(b) - 1)
  <2>1. p - 1 \in Nat /\ p - 1 <= Pages[b] - 1 /\ Pages[b] - 1 \in Nat
        BY <1>1
  <2>2. (p - 1) \div PartPages <= (Pages[b] - 1) \div PartPages
        BY <1>1, <1>3, <2>1
  <2>3. (p - 1) \div PartPages \in Nat /\ (Pages[b] - 1) \div PartPages \in Nat
        BY <1>1, <1>2, <2>1
  <2>4. QED
        BY <1>4, <2>2, <2>3 DEF PartOf
<1>6. ASSUME NEW p \in 1..Pages[b], NEW q \in 1..Pages[b], PartOf(p) < PartOf(q) PROVE p < q
  <2> SUFFICES ASSUME q <= p PROVE FALSE
      BY <1>1
  <2>1. p - 1 \in Nat /\ q - 1 \in Nat /\ q - 1 <= p - 1
        BY <1>1
  <2>2. PartOf(q) <= PartOf(p)
        BY <1>1, <1>3, <2>1 DEF PartOf
  <2>3. PartOf(p) \in Int /\ PartOf(q) \in Int
        BY <1>5
  <2>4. QED
        BY <1>6, <2>2, <2>3
<1>7. 1 \in 1..NumParts(b)
  <2>1. Pages[b] \in 1..Pages[b]
        BY <1>1
  <2>2. 0 <= NumParts(b) - 1
        BY <1>1, <1>5, <2>1
  <2>3. QED
        BY <1>1, <2>2
<1>8. QED
      BY <1>5, <1>6, <1>7

\* Steps of the scripts for folders: no store is touched, and a book with
\* points whose document changes is no longer whole.
LEMMA FolderStep ==
    ASSUME CorpusInv,
           unfinished' = unfinished \cup {b \in Books : doc'[b] # doc[b] /\ PointsOf(b) # {}},
           UNCHANGED <<storeVars, fileVars, forgetful, wentBack, barren, losses>>,
           \/ Carry \/ BreaksOff
           \/ commands < MaxCommands /\ commands' = commands + 1 /\ UNCHANGED breaks,
           FolderInv', IsScript(script'),
           script.name \in {"none", "extract", "mend"}, script'.name \in {"none", "extract", "mend"},
           GatherInv', MendInv'
    PROVE  CorpusInv'
<1>1. UNCHANGED <<points, units, graph, checkpoint, dump, forgetful, wentBack, barren>>
      BY DEF storeVars, fileVars
<1>2. TypeInv'
  <2>1. StoreInv' /\ FileInv'
        BY StoresKept, FilesKept DEF CorpusInv, TypeInv
  <2>2. commands' \in 0..MaxCommands /\ breaks' \in 0..MaxBreaks
        BY ExtractionAssumption DEF Carry, BreaksOff, CorpusInv, TypeInv, HistoryInv
  <2>3. HistoryInv'
        BY <2>2 DEF CorpusInv, TypeInv, HistoryInv
  <2>4. QED
        BY <2>1, <2>3 DEF TypeInv
<1>3. WholeInv'
  <2>1. unfinished \subseteq unfinished'
        OBVIOUS
  <2>2. \A b \in Books : b \in unfinished' \/ PointsOf(b) = {} \/ doc'[b] = doc[b]
        OBVIOUS
  <2>3. QED
        BY <1>1, <2>1, <2>2, WholeKept DEF CorpusInv
<1>4. EarnedInv' /\ RepeatInv'
      BY <1>1, EarnedKept, RepeatKept DEF CorpusInv
<1>5. UpsertInv' /\ TodoInv'
      BY NotUpserting, NotForUnits
<1>6. QED
      BY <1>2, <1>3, <1>4, <1>5 DEF CorpusInv

\* A script that starts with a book has gathered nothing.
LEMMA FreshFacts ==
    ASSUME NEW l \in Lists, NEW force \in BOOLEAN
    PROVE  IsExtract(Fresh(l, force)) /\ (script' = Fresh(l, force) => GatherInv')
<1>1. <<>> \in Seq(Nat) /\ 1 \in Nat
      OBVIOUS
<1>2. IsExtract(Fresh(l, force))
      BY <1>1 DEF Fresh, IsExtract
<1>3. ASSUME script' = Fresh(l, force) PROVE GatherInv'
  <2>1. /\ script'.books = l /\ script'.leaves = <<>> /\ script'.part = 1 /\ script'.step = "look"
        BY <1>3 DEF Fresh
  <2>2. Current' = Head(l) /\ Head(l) \in Books
        BY <2>1, ListFacts DEF Current
  <2>3. 1 \in 1..NumParts(Head(l))
        BY <2>2, PartFacts
  <2>4. <<>> \in Seq(Leaf(Head(l))) /\ InPageOrder(<<>>)
        BY DEF InPageOrder
  <2>5. QED
        BY <2>1, <2>2, <2>3, <2>4 DEF GatherInv
<1>4. QED
      BY <1>2, <1>3

LEMMA NextPdfFacts ==
    ASSUME IsExtract(script)
    PROVE  /\ NextPdf = Idle \/ \E l \in Lists : NextPdf = Fresh(l, script.force)
           /\ IsScript(NextPdf) /\ NextPdf.name \in {"none", "extract"}
           /\ script' = NextPdf => GatherInv'
<1>1. script.books \in Lists /\ script.force \in BOOLEAN
      BY DEF IsExtract
<1>2. NextPdf = Idle \/ (NextPdf = Fresh(Tail(script.books), script.force) /\ Len(script.books) # 1)
      BY DEF NextPdf, NextBook, Fresh
<1>3. NextPdf = Idle \/ \E l \in Lists : NextPdf = Fresh(l, script.force)
      BY <1>1, <1>2, ListFacts
<1>4. CASE NextPdf = Idle
      BY <1>3, <1>4 DEF IsScript, Idle, GatherInv
<1>5. ASSUME NEW l \in Lists, NextPdf = Fresh(l, script.force)
      PROVE  /\ IsScript(NextPdf) /\ NextPdf.name = "extract"
             /\ script' = NextPdf => GatherInv'
  <2>1. IsExtract(NextPdf) /\ (script' = NextPdf => GatherInv')
        BY <1>1, <1>5, FreshFacts
  <2>2. QED
        BY <2>1 DEF IsScript, IsExtract
<1>6. QED
      BY <1>3, <1>4, <1>5

LEMMA ExtractKeeps ==
    ASSUME CorpusInv, NEW books \in Selections, NEW force \in BOOLEAN, Folders(Extract(books, force))
    PROVE  CorpusInv'
<1>1. /\ Command(Fresh(books, force)) /\ UNCHANGED folderVars
      /\ unfinished' = unfinished \cup {b \in Books : doc'[b] # doc[b] /\ PointsOf(b) # {}}
      /\ UNCHANGED <<storeVars, fileVars, forgetful, wentBack, barren, losses>>
      BY DEF Folders, Extract
<1>2. script.name = "none" /\ script' = Fresh(books, force)
      BY <1>1, CommandCounts
<1>3. IsScript(script') /\ script'.name = "extract" /\ GatherInv'
  <2>1. IsExtract(script') /\ GatherInv'
        BY <1>2, SelectionsAreLists, FreshFacts
  <2>2. QED
        BY <2>1 DEF IsScript, IsExtract
<1>4. FolderInv'
      BY <1>1, FoldersKept DEF CorpusInv, TypeInv
<1>5. QED
      BY <1>1, <1>2, <1>3, <1>4, CommandCounts, NotMending, FolderStep

\* What the steps of a script of the folders have in common.
IsFolderStep ==
    /\ FolderInv' /\ IsScript(script')
    /\ script.name \in {"none", "extract", "mend"} /\ script'.name \in {"none", "extract", "mend"}
    /\ \/ Carry \/ BreaksOff
       \/ commands < MaxCommands /\ commands' = commands + 1 /\ UNCHANGED breaks
    /\ GatherInv' /\ MendInv'

\* The book at hand.
LEMMA CurrentFacts ==
    ASSUME CorpusInv, script.name \in {"extract", "mend"}
    PROVE  /\ Current \in Books /\ Pages[Current] \in Nat
           /\ script.leaves \in Seq(Leaf(Current))
           /\ script.name = "extract" => IsExtract(script) /\ InPageOrder(script.leaves)
                                         /\ script.part \in 1..NumParts(Current)
           /\ script.name = "mend" => IsMend(script) /\ Current = Mended
<1>1. CASE script.name = "extract"
  <2>1. IsExtract(script)
        BY <1>1, ScriptKinds DEF CorpusInv, TypeInv
  <2>2. Current \in Books
        BY <2>1, ListFacts DEF IsExtract, Current
  <2>3. QED
        BY <1>1, <2>1, <2>2, BookFacts DEF CorpusInv, GatherInv
<1>2. CASE script.name = "mend"
  <2>1. IsMend(script)
        BY <1>2, ScriptKinds DEF CorpusInv, TypeInv
  <2>2. Current = Mended /\ Mended \in Books
        BY <2>1, ExtractionAssumption DEF IsMend, Current
  <2>3. QED
        BY <1>2, <2>1, <2>2, BookFacts DEF CorpusInv, MendInv
<1>3. QED
      BY <1>1, <1>2

LEMMA LookStep == ASSUME CorpusInv, Look PROVE IsFolderStep
<1>1. script.name = "extract" /\ script.step = "look" /\ Carry
      BY DEF Look, Running
<1>2. /\ IsExtract(script) /\ Current \in Books /\ script.part = 1 /\ script.leaves = <<>>
      /\ script.leaves \in Seq(Leaf(Current)) /\ 1 \in 1..NumParts(Current)
      /\ InPageOrder(script.leaves)
      BY <1>1, CurrentFacts DEF CorpusInv, GatherInv
<1>3. CASE script' = NextPdf /\ UNCHANGED folderVars
  <2>1. FolderInv'
        BY <1>3, FoldersKept DEF CorpusInv, TypeInv
  <2>2. IsScript(script') /\ script'.name \in {"none", "extract"} /\ GatherInv'
        BY <1>2, <1>3, NextPdfFacts
  <2>3. QED
        BY <1>1, <2>1, <2>2, NotMending DEF IsFolderStep
<1>4. CASE /\ Goto("job")
           /\ parts' = IF Large(Current) THEN [parts EXCEPT ![Current] = 1..NumParts(Current)] ELSE parts
           /\ UNCHANGED <<doc, meta, info>>
  <2>1. FolderInv'
        BY <1>2, <1>4 DEF CorpusInv, TypeInv, FolderInv
  <2>2. /\ IsExtract(script') /\ script'.name = "extract" /\ script'.step = "job" /\ script'.books = script.books
        /\ script'.part = 1 /\ script'.leaves = <<>>
        BY <1>2, <1>4 DEF Goto, IsExtract
  <2>3. Current' = Current
        BY <2>2 DEF Current
  <2>4. GatherInv'
        BY <1>2, <2>2, <2>3 DEF GatherInv
  <2>5. QED
        BY <1>1, <2>1, <2>2, <2>4, NotMending DEF IsFolderStep, IsScript
<1>5. QED
      BY <1>3, <1>4 DEF Look

\* The pages of a part come after those of the parts before.
LEMMA ExtractPartStep == ASSUME CorpusInv, ExtractPart PROVE IsFolderStep
<1>1. /\ script.name = "extract" /\ script.step = "job" /\ Carry
      /\ parts' = [parts EXCEPT ![Current] = @ \ {script.part}]
      /\ UNCHANGED <<doc, info>>
      BY DEF ExtractPart, Running
<1>2. PICK b, part, leaves : b = Current /\ part = script.part /\ leaves = script.leaves
      OBVIOUS
<1>3. PICK r \in Results(PagesOf(b, part)) :
         /\ \E json \in Early(b, r) : meta' = [meta EXCEPT ![b] = @ \cup json]
         /\ LET done == part = NumParts(b)
                next == IF ~done THEN "job" ELSE IF Large(b) \/ r.found THEN "document" ELSE "info"
            IN  script' = [script EXCEPT !.step = next, !.leaves = @ \o Leaves(b, r),
                                         !.part = IF done THEN @ ELSE @ + 1]
      BY <1>2 DEF ExtractPart
<1>4. /\ IsExtract(script) /\ b \in Books /\ leaves \in Seq(Leaf(b)) /\ InPageOrder(leaves)
      /\ part \in 1..NumParts(b)
      /\ \A i \in DOMAIN leaves : leaves[i] # Blank => PartOf(leaves[i]) < part - 1
      BY <1>1, <1>2, CurrentFacts DEF CorpusInv, GatherInv
<1>5. Pages[b] \in Nat /\ NumParts(b) \in Int
      BY <1>4, BookFacts
<1>6. PICK more : more = Leaves(b, r)
      OBVIOUS
<1>7. /\ r.json \subseteq 1..Pages[b] /\ more \in Seq(Leaf(b)) /\ InPageOrder(more)
      /\ \A k \in DOMAIN more : more[k] # Blank => more[k] \in 1..Pages[b] /\ PartOf(more[k]) = part - 1
      BY <1>4, <1>6, LeavesOfPart, PagesOfPart
<1>8. \A i \in DOMAIN leaves : leaves[i] \in Leaf(b) /\ (leaves[i] # Blank => leaves[i] \in 1..Pages[b])
      BY <1>4, <1>5, LenProperties, ElementOfSeq DEF Leaf, Blank
<1>9. ASSUME NEW i \in DOMAIN leaves, NEW k \in DOMAIN more, more[k] # Blank PROVE leaves[i] < more[k]
  <2>1. CASE leaves[i] = Blank
        BY <1>7, <1>9, <2>1 DEF Blank
  <2>2. CASE leaves[i] # Blank
    <3>1. PartOf(leaves[i]) < PartOf(more[k])
          BY <1>4, <1>7, <1>9, <2>2
    <3>2. QED
          BY <1>4, <1>7, <1>8, <1>9, <2>2, <3>1, PartFacts
  <2>3. QED
        BY <2>1, <2>2
<1>10. leaves \o more \in Seq(Leaf(b)) /\ InPageOrder(leaves \o more)
       BY <1>4, <1>5, <1>7, <1>9, JoinedInOrder, ConcatProperties DEF Leaf
<1>11. PICK all : all = leaves \o more
       OBVIOUS
<1>12. ASSUME NEW i \in DOMAIN all, all[i] # Blank
       PROVE  PartOf(all[i]) < part - 1 \/ PartOf(all[i]) = part - 1
  <2>1. /\ Len(leaves) \in Nat /\ DOMAIN leaves = 1..Len(leaves)
        /\ Len(more) \in Nat /\ DOMAIN more = 1..Len(more)
        BY <1>4, <1>7, LenProperties
  <2>2. /\ DOMAIN all = 1..(Len(leaves) + Len(more))
        /\ \A j \in 1..(Len(leaves) + Len(more)) :
                 all[j] = IF j <= Len(leaves) THEN leaves[j] ELSE more[j - Len(leaves)]
        BY <1>4, <1>7, <1>10, <1>11, ConcatProperties, LenProperties
  <2>3. CASE i <= Len(leaves)
        BY <1>4, <1>12, <2>1, <2>2, <2>3
  <2>4. CASE ~(i <= Len(leaves))
    <3>1. i - Len(leaves) \in DOMAIN more /\ all[i] = more[i - Len(leaves)]
          BY <1>12, <2>1, <2>2, <2>4
    <3>2. QED
          BY <1>7, <1>12, <3>1
  <2>5. QED
        BY <2>1, <2>2, <2>3, <2>4
<1>13. FolderInv'
  <2>1. /\ DOMAIN meta' = Books /\ DOMAIN parts' = Books
        /\ \A c \in Books : meta'[c] \subseteq 1..Pages[c] /\ parts'[c] \subseteq 1..NumParts(c)
    <3>1. PICK json \in Early(b, r) : meta' = [meta EXCEPT ![b] = @ \cup json]
          BY <1>3
    <3>2. json \subseteq 1..Pages[b]
          BY <1>7 DEF Early
    <3>3. QED
          BY <1>1, <1>2, <1>4, <3>1, <3>2 DEF CorpusInv, TypeInv, FolderInv
  <2>2. QED
        BY <1>1, <2>1 DEF CorpusInv, TypeInv, FolderInv
<1>14. PICK next, part2 : /\ part2 = (IF part = NumParts(b) THEN part ELSE part + 1)
                          /\ next = IF ~(part = NumParts(b)) THEN "job"
                                    ELSE IF Large(b) \/ r.found THEN "document" ELSE "info"
       OBVIOUS
<1>15. script' = [script EXCEPT !.step = next, !.leaves = all, !.part = part2]
       BY <1>2, <1>3, <1>6, <1>11, <1>14
<1>16. /\ part2 \in 1..NumParts(b) /\ part2 \in Nat /\ next \in {"job", "document", "info"}
       /\ next = "job" => part2 = part + 1
       BY <1>4, <1>5, <1>14
<1>17. all \in Seq(Nat)
  <2>1. Leaf(b) \subseteq Nat
        BY <1>5 DEF Leaf
  <2>2. QED
        BY <1>10, <1>11, <2>1, SeqMonotonic
<1>18. /\ IsExtract(script') /\ script'.name = "extract" /\ script'.step = next
       /\ script'.books = script.books /\ script'.part = part2 /\ script'.leaves = all
       BY <1>4, <1>15, <1>16, <1>17 DEF IsExtract
<1>19. GatherInv'
  <2>1. Current' = b
        BY <1>2, <1>18 DEF Current
  <2>2. ASSUME next = "job", NEW i \in DOMAIN all, all[i] # Blank PROVE PartOf(all[i]) < part2 - 1
    <3>1. all[i] \in 1..Pages[b]
          BY SMTT(20), <1>5, <1>10, <1>11, <2>2, LenProperties, ElementOfSeq DEF Leaf, Blank
    <3>2. PartOf(all[i]) \in Int
          BY <1>4, <3>1, PartFacts
    <3>3. part2 - 1 = part /\ part \in Int
          BY <1>4, <1>16, <2>2
    <3>4. QED
          BY <1>12, <2>2, <3>2, <3>3
  <2>3. next # "look"
        BY <1>16
  <2>4. QED
        BY <1>10, <1>11, <1>16, <1>18, <2>1, <2>2, <2>3 DEF GatherInv
<1>20. QED
       BY <1>1, <1>13, <1>18, <1>19, NotMending DEF IsFolderStep, IsScript

LEMMA EndsInAFolder ==
    ASSUME CorpusInv, script.name \in {"extract", "mend"}, BreaksOff \/ Carry, script' = Idle, FolderInv'
    PROVE  IsFolderStep
<1>1. IsScript(script') /\ script'.name = "none"
      BY DEF IsScript, Idle
<1>2. QED
      BY <1>1, NotGathering, NotMending DEF IsFolderStep

LEMMA CutPartStep == ASSUME CorpusInv, CutPart PROVE IsFolderStep
<1>1. /\ script.name \in {"extract", "mend"} /\ BreaksOff /\ script' = Idle
      /\ UNCHANGED <<doc, parts, info>>
      BY DEF CutPart
<1>2. Current \in Books
      BY <1>1, CurrentFacts
<1>3. PICK P : P \subseteq 1..Pages[Current] /\ meta' = [meta EXCEPT ![Current] = @ \cup P]
      BY <1>2, PagesOfPart DEF CutPart
<1>4. FolderInv'
      BY <1>1, <1>2, <1>3 DEF CorpusInv, TypeInv, FolderInv
<1>5. QED
      BY <1>1, <1>4, EndsInAFolder

LEMMA SkipPdfStep == ASSUME CorpusInv, SkipPdf PROVE IsFolderStep
<1>1. script.name = "extract" /\ BreaksOff /\ script' = NextPdf /\ UNCHANGED folderVars
      BY DEF SkipPdf
<1>2. IsScript(script') /\ script'.name \in {"none", "extract"} /\ GatherInv'
      BY <1>1, CurrentFacts, NextPdfFacts
<1>3. FolderInv'
      BY <1>1, FoldersKept DEF CorpusInv, TypeInv
<1>4. QED
      BY <1>1, <1>2, <1>3, NotMending DEF IsFolderStep

LEMMA WriteDocumentStep == ASSUME CorpusInv, WriteDocument PROVE IsFolderStep
<1>1. /\ script.name \in {"extract", "mend"} /\ script.step = "document" /\ Carry
      /\ doc' = [doc EXCEPT ![Current] = script.leaves]
      /\ script' = [script EXCEPT !.step = IF Late = {} THEN "info" ELSE "pages"]
      /\ UNCHANGED <<meta, parts, info>>
      BY DEF WriteDocument, Goto
<1>2. Current \in Books /\ script.leaves \in Seq(Leaf(Current))
      BY <1>1, CurrentFacts
<1>3. FolderInv'
      BY <1>1, <1>2 DEF CorpusInv, TypeInv, FolderInv
<1>4. CASE script.name = "extract"
  <2>1. IsExtract(script) /\ InPageOrder(script.leaves) /\ script.part \in 1..NumParts(Current)
        BY <1>4, CurrentFacts
  <2>2. /\ IsExtract(script') /\ script'.name = "extract" /\ script'.step \in {"info", "pages"}
        /\ script'.books = script.books /\ script'.part = script.part /\ script'.leaves = script.leaves
        BY <1>1, <2>1 DEF IsExtract
  <2>3. Current' = Current
        BY <2>2 DEF Current
  <2>4. GatherInv'
        BY <1>2, <2>1, <2>2, <2>3 DEF GatherInv
  <2>5. QED
        BY <1>1, <1>3, <2>2, <2>4, NotMending DEF IsFolderStep, IsScript
<1>5. CASE script.name = "mend"
  <2>1. Late = {}
        BY <1>5, CurrentFacts, ExtractionAssumption DEF Late, Large
  <2>2. /\ IsMend(script') /\ script'.name = "mend"
        /\ script'.first = script.first /\ script'.leaves = script.leaves
        BY <1>1, <1>5, <2>1, CurrentFacts DEF IsMend
  <2>3. MendInv'
        BY <1>5, <2>2 DEF CorpusInv, MendInv
  <2>4. QED
        BY <1>1, <1>3, <2>2, <2>3, NotGathering DEF IsFolderStep, IsScript
<1>6. QED
      BY <1>1, <1>4, <1>5

\* What is late is of the book.
LEMMA LateFacts ==
    ASSUME CorpusInv, script.name = "extract"
    PROVE  Late \subseteq 1..Pages[Current]
<1>1. script.leaves \in Seq(Leaf(Current)) /\ Pages[Current] \in Nat
      BY CurrentFacts
<1>2. \A i \in DOMAIN script.leaves : script.leaves[i] \in Leaf(Current)
      BY <1>1, LenProperties, ElementOfSeq
<1>3. \A p \in ToSet(script.leaves) : p \in Leaf(Current)
      BY <1>2 DEF ToSet
<1>4. QED
      BY <1>1, <1>3 DEF Late, Leaf, Blank

LEMMA WritePagesStep == ASSUME CorpusInv, WritePages PROVE IsFolderStep
<1>1. /\ script.name = "extract" /\ script.step = "pages" /\ Carry
      /\ meta' = [meta EXCEPT ![Current] = @ \cup Late]
      /\ script' = [script EXCEPT !.step = "info"]
      /\ UNCHANGED <<doc, parts, info>>
      BY DEF WritePages, Running, Goto
<1>2. /\ IsExtract(script) /\ Current \in Books /\ script.leaves \in Seq(Leaf(Current))
      /\ InPageOrder(script.leaves) /\ script.part \in 1..NumParts(Current)
      BY <1>1, CurrentFacts
<1>3. FolderInv'
      BY <1>1, <1>2, LateFacts DEF CorpusInv, TypeInv, FolderInv
<1>4. /\ IsExtract(script') /\ script'.name = "extract" /\ script'.step = "info"
      /\ script'.books = script.books /\ script'.part = script.part /\ script'.leaves = script.leaves
      BY <1>1, <1>2 DEF IsExtract
<1>5. Current' = Current
      BY <1>4 DEF Current
<1>6. GatherInv'
      BY <1>2, <1>4, <1>5 DEF GatherInv
<1>7. QED
      BY <1>1, <1>3, <1>4, <1>6, NotMending DEF IsFolderStep, IsScript

LEMMA CutPagesStep == ASSUME CorpusInv, CutPages PROVE IsFolderStep
<1>1. /\ script.name = "extract" /\ BreaksOff /\ script' = Idle
      /\ UNCHANGED <<doc, parts, info>>
      BY DEF CutPages, Running
<1>2. PICK P \in SUBSET Late : meta' = [meta EXCEPT ![Current] = @ \cup P]
      BY DEF CutPages
<1>3. P \subseteq 1..Pages[Current] /\ Current \in Books
      BY <1>1, <1>2, LateFacts, CurrentFacts
<1>4. FolderInv'
      BY <1>1, <1>2, <1>3 DEF CorpusInv, TypeInv, FolderInv
<1>5. QED
      BY <1>1, <1>4, EndsInAFolder

\* A beginning of pages is in order if they are.
LEMMA BeginningInOrder ==
    ASSUME NEW T, NEW s \in Seq(T), NEW n \in 0..(Len(s) - 1)
    PROVE  /\ SubSeq(s, 1, n) \in Seq(T)
           /\ InPageOrder(s) => InPageOrder(SubSeq(s, 1, n))
<1>1. Len(s) \in Nat /\ DOMAIN s = 1..Len(s) /\ \A i \in 1..Len(s) : s[i] \in T
      BY LenProperties, ElementOfSeq
<1>2. n \in Nat /\ 1 \in Int /\ n \in Int /\ \A i \in 1..n : s[i] \in T /\ i \in DOMAIN s
      BY <1>1
<1>3. /\ SubSeq(s, 1, n) \in Seq(T)
      /\ Len(SubSeq(s, 1, n)) = IF 1 <= n THEN n - 1 + 1 ELSE 0
      /\ \A i \in 1..(n - 1 + 1) : SubSeq(s, 1, n)[i] = s[1 + i - 1]
      BY <1>2, SubSeqProperties
<1>4. n - 1 + 1 = n /\ (IF 1 <= n THEN n - 1 + 1 ELSE 0) = n /\ \A i \in 1..n : 1 + i - 1 = i
      BY <1>2
<1>5. PICK t : t = SubSeq(s, 1, n)
      OBVIOUS
<1>6. DOMAIN t = 1..n /\ \A i \in 1..n : t[i] = s[i]
      BY <1>3, <1>4, <1>5, LenProperties
<1>7. InPageOrder(s) => InPageOrder(t)
      BY <1>2, <1>6 DEF InPageOrder
<1>8. QED
      BY <1>3, <1>5, <1>7

LEMMA CutDocumentStep == ASSUME CorpusInv, CutDocument PROVE IsFolderStep
<1>1. /\ script.name \in {"extract", "mend"} /\ BreaksOff /\ script' = Idle
      /\ UNCHANGED <<meta, parts, info>>
      BY DEF CutDocument
<1>2. PICK n \in 0..(Len(script.leaves) - 1) :
         doc' = [doc EXCEPT ![Current] = SubSeq(script.leaves, 1, n)]
      BY DEF CutDocument
<1>3. Current \in Books /\ script.leaves \in Seq(Leaf(Current))
      BY <1>1, CurrentFacts
<1>4. SubSeq(script.leaves, 1, n) \in Seq(Leaf(Current))
      BY <1>3, BeginningInOrder
<1>5. FolderInv'
      BY <1>1, <1>2, <1>3, <1>4 DEF CorpusInv, TypeInv, FolderInv
<1>6. QED
      BY <1>1, <1>5, EndsInAFolder

LEMMA WriteInfoStep == ASSUME CorpusInv, WriteInfo PROVE IsFolderStep
<1>1. /\ script.name = "extract" /\ Carry /\ script' = NextPdf
      /\ parts' = [parts EXCEPT ![Current] = {}] /\ info' = [info EXCEPT ![Current] = "whole"]
      /\ UNCHANGED <<doc, meta>>
      BY DEF WriteInfo, Running
<1>2. Current \in Books
      BY <1>1, CurrentFacts
<1>3. FolderInv'
      BY <1>1, <1>2 DEF CorpusInv, TypeInv, FolderInv
<1>4. IsScript(script') /\ script'.name \in {"none", "extract"} /\ GatherInv'
      BY <1>1, CurrentFacts, NextPdfFacts
<1>5. QED
      BY <1>1, <1>3, <1>4, NotMending DEF IsFolderStep

LEMMA CutInfoStep == ASSUME CorpusInv, CutInfo PROVE IsFolderStep
<1>1. /\ script.name \in {"extract", "mend"} /\ BreaksOff /\ script' = Idle
      /\ parts' \in {parts, [parts EXCEPT ![Current] = {}]} /\ info' = [info EXCEPT ![Current] = "cut"]
      /\ UNCHANGED <<doc, meta>>
      BY DEF CutInfo
<1>2. Current \in Books
      BY <1>1, CurrentFacts
<1>3. FolderInv'
      BY <1>1, <1>2 DEF CorpusInv, TypeInv, FolderInv
<1>4. QED
      BY <1>1, <1>3, EndsInAFolder

LEMMA MendStep == ASSUME CorpusInv, Mend PROVE IsFolderStep
<1>1. PICK first \in FirstPart(Mended) :
         Command([name |-> "mend", books |-> <<Mended>>, step |-> "job",
                  first |-> first, leaves |-> <<>>])
      BY DEF Mend
<1>2. UNCHANGED folderVars
      BY DEF Mend
<1>3. /\ script.name = "none"
      /\ script' = [name |-> "mend", books |-> <<Mended>>, step |-> "job", first |-> first, leaves |-> <<>>]
      BY <1>1, CommandCounts
<1>4. Mended \in Books /\ meta[Mended] \subseteq 1..Pages[Mended] /\ Pages[Mended] \in Nat
      BY ExtractionAssumption, BookFacts DEF CorpusInv, TypeInv, FolderInv
<1>5. first \in Seq(1..Pages[Mended]) /\ InPageOrder(first)
  <2>1. PICK P \in SUBSET meta[Mended] : first = InOrder(Mended, P)
        BY DEF FirstPart
  <2>2. P \subseteq 1..Pages[Mended]
        BY <1>4
  <2>3. /\ first \in Seq(1..Pages[Mended])
        /\ \A i, k \in DOMAIN first : i < k => first[i] < first[k]
        BY <1>4, <2>1, <2>2, PagesInASet
  <2>4. QED
        BY <2>3 DEF InPageOrder
<1>6. first \in Seq(Nat) /\ <<>> \in Seq(Nat) /\ <<>> \in Seq(Leaf(Mended)) /\ InPageOrder(<<>>)
  <2>1. 1..Pages[Mended] \subseteq Nat
        BY <1>4
  <2>2. first \in Seq(Nat)
        BY <1>5, <2>1, SeqMonotonic
  <2>3. <<>> \in Seq(Nat) /\ <<>> \in Seq(Leaf(Mended)) /\ InPageOrder(<<>>)
        BY DEF InPageOrder
  <2>4. QED
        BY <2>2, <2>3
<1>7. IsMend(script') /\ script'.name = "mend" /\ script'.first = first /\ script'.leaves = <<>>
      BY <1>3, <1>6 DEF IsMend
<1>8. MendInv'
      BY <1>5, <1>6, <1>7 DEF MendInv
<1>9. FolderInv'
      BY <1>2, FoldersKept DEF CorpusInv, TypeInv
<1>10. QED
       BY <1>1, <1>3, <1>7, <1>8, <1>9, CommandCounts, NotGathering DEF IsFolderStep, IsScript

\* The pages of the second part come after what was found of the first, unless
\* pages of the second were found among them.
LEMMA MendJobStep == ASSUME CorpusInv, MendJob PROVE IsFolderStep
<1>1. script.name = "mend" /\ script.step = "job" /\ Carry /\ UNCHANGED <<doc, parts, info>>
      BY DEF MendJob, Running
<1>2. PICK r \in Results(PagesOf(Mended, 2)) :
         /\ meta' = [meta EXCEPT ![Mended] = @ \cup r.json]
         /\ script' = [script EXCEPT !.step = "document", !.leaves = script.first \o Leaves(Mended, r)]
      BY DEF MendJob
<1>3. PICK first, more, n : first = script.first /\ more = Leaves(Mended, r) /\ n = Pages[Mended]
      OBVIOUS
<1>4. IsMend(script) /\ Mended \in Books /\ n \in Nat /\ first \in Seq(1..n) /\ InPageOrder(first)
      BY <1>1, <1>3, CurrentFacts, ExtractionAssumption, BookFacts DEF CorpusInv, MendInv
<1>5. /\ r.json \subseteq 1..n /\ more \in Seq(0..n) /\ InPageOrder(more)
      /\ \A k \in DOMAIN more : more[k] # Blank => more[k] \in PagesOf(Mended, 2)
      BY <1>3, <1>4, LeavesOfPart, PagesOfPart DEF Leaf
<1>6. first \in Seq(0..n) /\ first \o more \in Seq(0..n)
  <2>1. 1..n \subseteq 0..n
        BY <1>4
  <2>2. first \in Seq(0..n)
        BY <1>4, <2>1, SeqMonotonic
  <2>3. QED
        BY <1>5, <2>2, ConcatProperties
<1>7. ASSUME ~TakesBothParts(first) PROVE InPageOrder(first \o more)
  <2>1. ASSUME NEW i \in DOMAIN first, NEW k \in DOMAIN more, more[k] # Blank PROVE first[i] < more[k]
    <3>1. Len(first) \in Nat /\ DOMAIN first = 1..Len(first) /\ \A j \in DOMAIN first : first[j] \in 1..n
          BY <1>4, LenProperties, ElementOfSeq
    <3>2. first # <<>> /\ Last(first) = first[Len(first)] /\ Len(first) \in DOMAIN first
          BY <2>1, <3>1 DEF Last
    <3>3. PICK last : last = Last(first)
          OBVIOUS
    <3>4. last \in 1..n /\ last \notin PagesOf(Mended, 2)
          BY <1>7, <3>1, <3>2, <3>3 DEF TakesBothParts
    <3>5. PartOf(last) \in 0..1 /\ PartOf(last) # 1
          BY <1>3, <1>4, <3>4, PartFacts, ExtractionAssumption DEF PagesOf, PartOf
    <3>6. more[k] \in 1..n /\ PartOf(more[k]) = 1
          BY <1>3, <1>4, <1>5, <2>1, PagesOfPart
    <3>7. last < more[k]
          BY <1>3, <1>4, <3>4, <3>5, <3>6, PartFacts
    <3>8. first[i] <= last
      <4>1. CASE i = Len(first)
            BY <3>1, <3>2, <3>3, <3>4, <4>1
      <4>2. CASE i # Len(first)
        <5>1. i < Len(first) /\ first[Len(first)] # Blank
              BY <2>1, <3>1, <3>2, <4>2 DEF Blank
        <5>2. first[i] < first[Len(first)]
              BY <1>4, <2>1, <3>2, <5>1 DEF InPageOrder
        <5>3. QED
              BY <3>1, <3>2, <3>3, <5>2
      <4>3. QED
            BY <4>1, <4>2
    <3>9. first[i] \in Int /\ last \in Int /\ more[k] \in Int
          BY <2>1, <3>1, <3>4, <3>6
    <3>10. QED
           BY <3>7, <3>8, <3>9
  <2>2. QED
        BY <1>4, <1>5, <1>6, <2>1, JoinedInOrder
<1>8. PICK all : all = first \o more
      OBVIOUS
<1>9. all \in Seq(Nat)
  <2>1. 0..n \subseteq Nat
        BY <1>4
  <2>2. QED
        BY <1>6, <1>8, <2>1, SeqMonotonic
<1>10. script' = [script EXCEPT !.step = "document", !.leaves = all]
       BY <1>2, <1>3, <1>8
<1>11. IsMend(script') /\ script'.name = "mend" /\ script'.first = first /\ script'.leaves = all
       BY <1>3, <1>4, <1>9, <1>10 DEF IsMend
<1>12. MendInv'
       BY <1>3, <1>4, <1>6, <1>7, <1>8, <1>11 DEF MendInv, Leaf
<1>13. FolderInv'
       BY <1>1, <1>2, <1>3, <1>4, <1>5 DEF CorpusInv, TypeInv, FolderInv
<1>14. QED
       BY <1>1, <1>11, <1>12, <1>13, NotGathering DEF IsFolderStep, IsScript

LEMMA MendInfoStep == ASSUME CorpusInv, MendInfo PROVE IsFolderStep
<1>1. /\ script.name = "mend" /\ Carry /\ script' = Idle
      /\ info' = [info EXCEPT ![Mended] = "whole"] /\ UNCHANGED <<doc, meta, parts>>
      BY DEF MendInfo, Running
<1>2. FolderInv'
      BY <1>1 DEF CorpusInv, TypeInv, FolderInv
<1>3. QED
      BY <1>1, <1>2, EndsInAFolder

LEMMA FoldersKeep == ASSUME CorpusInv, Folders(ExtractionStep) PROVE CorpusInv'
<1>1. /\ ExtractionStep
      /\ unfinished' = unfinished \cup {b \in Books : doc'[b] # doc[b] /\ PointsOf(b) # {}}
      /\ UNCHANGED <<storeVars, fileVars, forgetful, wentBack, barren, losses>>
      BY DEF Folders
<1>2. IsFolderStep
      BY <1>1, LookStep, ExtractPartStep, CutPartStep, SkipPdfStep, WriteDocumentStep,
         CutDocumentStep, WritePagesStep, CutPagesStep, WriteInfoStep, CutInfoStep, MendStep, MendJobStep, MendInfoStep
         DEF ExtractionStep
<1>3. QED
      BY <1>1, <1>2, FolderStep DEF IsFolderStep

-----------------------------------------------------------------------------
(***************************************************************************)
(* The theorems.                                                           *)
(***************************************************************************)
\* What was extracted, imported, registered and answered before.
LEMMA InitialPoints ==
    ASSUME NEW S \in SUBSET Books, ExtractInit(S),
           points \in {{}, UNION {LastOnes(Made(b, "import")) : b \in S}}
    PROVE  FolderInv /\ IsCollection(points) /\ WholeInv
<1>1. ASSUME NEW b \in Books PROVE InOrder(b, 1..Pages[b]) \in Seq(Leaf(b))
  <2>1. InOrder(b, 1..Pages[b]) \in Seq(1..Pages[b])
        BY PagesInASet
  <2>2. 1..Pages[b] \subseteq Leaf(b)
        BY BookFacts DEF Leaf
  <2>3. QED
        BY <2>1, <2>2, SeqMonotonic
<1>2. /\ doc = [b \in Books |-> IF b \in S THEN InOrder(b, 1..Pages[b]) ELSE NoFile]
      /\ meta = [b \in Books |-> IF b \in S THEN 1..Pages[b] ELSE {}]
      /\ parts = [b \in Books |-> {}]
      /\ info = [b \in Books |-> IF b \in S THEN "whole" ELSE "none"]
      BY DEF ExtractInit
<1>3. FolderInv
      BY <1>1, <1>2 DEF FolderInv
<1>4. ASSUME NEW b \in S
      PROVE  /\ IsCollection(LastOnes(Made(b, "import")))
             /\ \A p \in LastOnes(Made(b, "import")) : p.key.book = b
             /\ KeysIn(LastOnes(Made(b, "import"))) = KeysIn(ToSet(Made(b, "import")))
  <2>1. b \in Books /\ doc[b] \in Seq(Leaf(b))
        BY <1>1, <1>2
  <2>2. /\ Made(b, "import") \in Seq(PointSet)
        /\ \A i \in DOMAIN Made(b, "import") : Made(b, "import")[i].key.book = b
        BY <2>1, PointsAreMade DEF Makers
  <2>3. \A p \in ToSet(Made(b, "import")) : p.key.book = b
        BY <2>2 DEF ToSet
  <2>4. QED
        BY <2>2, <2>3, LastOnesFacts
<1> DEFINE of == [b \in S |-> LastOnes(Made(b, "import"))]
           all == {LastOnes(Made(b, "import")) : b \in S}
<1>5. IsFiniteSet(all)
  <2>1. IsFiniteSet(S)
        BY ExtractionAssumption, FS_Subset
  <2>2. of \in Surjection(S, all)
        BY DEF Surjection
  <2>3. QED
        BY <2>1, <2>2, FS_Surjection
<1>6. IsCollection(UNION all)
  <2>1. \A T \in all : IsFiniteSet(T)
        BY <1>4 DEF IsCollection
  <2>2. IsFiniteSet(UNION all)
    <3> HIDE DEF all
    <3>1. QED
          BY <1>5, <2>1, FS_UNION
  <2>3. UNION all \subseteq PointSet
        BY <1>4 DEF IsCollection
  <2>4. ASSUME NEW p \in UNION all, NEW q \in UNION all, p.key = q.key PROVE p = q
    <3>1. PICK b \in S : p \in LastOnes(Made(b, "import"))
          OBVIOUS
    <3>2. PICK c \in S : q \in LastOnes(Made(c, "import"))
          OBVIOUS
    <3>3. b = c
          BY <1>4, <2>4, <3>1, <3>2
    <3>4. QED
          BY <1>4, <2>4, <3>1, <3>2, <3>3 DEF IsCollection
  <2>5. QED
        BY <2>2, <2>3, <2>4 DEF IsCollection
<1>7. IsCollection({})
      BY FS_EmptySet DEF IsCollection
<1>8. WholeInv
  <2>1. ASSUME NEW b \in Books, PointsOf(b) # {} PROVE Covers(b, "import")
    <3>1. PICK p \in points : p.key.book = b
          BY <2>1 DEF PointsOf
    <3>2. points = UNION all
          BY <3>1
    <3>3. PICK c \in S : p \in LastOnes(Made(c, "import"))
          BY <3>1, <3>2
    <3>4. c = b
          BY <1>4, <3>1, <3>3
    <3>5. LastOnes(Made(b, "import")) \subseteq PointsOf(b)
          BY <1>4, <3>2, <3>3, <3>4 DEF PointsOf
    <3>6. KeysIn(LastOnes(Made(b, "import"))) \subseteq KeysIn(PointsOf(b))
          BY <3>5 DEF KeysIn
    <3>7. QED
          BY <1>4, <3>3, <3>4, <3>6 DEF Covers
  <2>2. QED
        BY <2>1 DEF WholeInv, Makers
<1>9. QED
      BY <1>3, <1>6, <1>7, <1>8

LEMMA InitialState == ASSUME CorpusInit PROVE CorpusInv
<1>1. PICK S \in SUBSET Books :
         ExtractInit(S) /\ points \in {{}, UNION {LastOnes(Made(b, "import")) : b \in S}}
      BY DEF CorpusInit
<1>2. FolderInv /\ IsCollection(points) /\ WholeInv
      BY <1>1, InitialPoints
<1>3. /\ rows \in {{}, {p.key.book : p \in points}}
      /\ units \in {{}, {Unit(p, p.key.book) : p \in points}}
      /\ checkpoint = IF units = {} THEN {} ELSE KeysIn(points)
      /\ users = TRUE /\ graph = {} /\ dump = NoFile /\ snapshot = NoFile
      /\ unfinished = {} /\ forgetful = FALSE /\ wentBack = FALSE /\ barren = {} /\ losses = 0
      /\ script = Idle /\ script.name = "none" /\ commands = 0 /\ breaks = 0
      BY <1>1 DEF CorpusInit, ExtractInit, Idle
<1>4. \A p \in points : p \in PointSet /\ p.key \in KeySet /\ p.key.book \in Books /\ p.maker \in Makers
      BY <1>2 DEF IsCollection, PointSet, KeySet
<1>5. units \subseteq UnitSet /\ rows \subseteq Books
  <2>1. 0 \in 0..MaxCommands
        BY ExtractionAssumption
  <2>2. \A p \in points : Unit(p, p.key.book) \in UnitSet
        BY <1>3, <1>4, <2>1 DEF Unit, UnitSet
  <2>3. QED
        BY <1>3, <1>4, <2>2
<1>6. checkpoint = ChunksWith(units) /\ KeysIn(points) \subseteq KeySet
  <2>1. CASE units = {}
        BY <1>3, <1>4, <2>1 DEF ChunksWith, KeysIn
  <2>2. CASE units # {}
    <3>1. units = {Unit(p, p.key.book) : p \in points}
          BY <1>3, <2>2
    <3>2. \A p \in points : Unit(p, p.key.book).chunk = p.key
          BY DEF Unit
    <3>3. ChunksWith(units) = {Unit(p, p.key.book).chunk : p \in points}
          BY <3>1 DEF ChunksWith
    <3>4. ChunksWith(units) = KeysIn(points)
          BY <3>2, <3>3 DEF KeysIn
    <3>5. QED
          BY <1>3, <1>4, <2>2, <3>4 DEF KeysIn
  <2>3. QED
        BY <2>1, <2>2
<1>7. Single(units)
  <2>1. ASSUME NEW u \in units, NEW v \in units, u.chunk = v.chunk PROVE u = v
    <3>1. PICK p \in points : u = Unit(p, p.key.book)
          BY <1>3
    <3>2. PICK q \in points : v = Unit(q, q.key.book)
          BY <1>3
    <3>3. p = q
          BY <1>2, <2>1, <3>1, <3>2 DEF Unit, IsCollection
    <3>4. QED
          BY <3>1, <3>2, <3>3
  <2>2. QED
        BY <2>1 DEF Single
<1>8. TypeInv
  <2>1. StoreInv
        BY <1>2, <1>3, <1>5 DEF StoreInv
  <2>2. FileInv
        BY <1>3, <1>6 DEF FileInv
  <2>3. HistoryInv
    <3>1. 0 \in 0..MaxCommands /\ 0 \in 0..MaxBreaks /\ 0 \in 0..MaxLosses
          BY ExtractionAssumption, CorpusAssumption
    <3>2. QED
          BY <1>3, <3>1 DEF HistoryInv
  <2>4. QED
        BY <1>2, <1>3, <2>1, <2>2, <2>3 DEF TypeInv, IsScript
<1>9. EarnedInv
  <2>1. checkpoint \subseteq {u.chunk : u \in units} \cup barren /\ graph \subseteq units
        BY <1>3, <1>6 DEF ChunksWith
  <2>2. QED
        BY <1>3, <2>1 DEF EarnedInv, RecordsAreEarned
<1>10. RepeatInv
       BY <1>3, <1>6, <1>7 DEF RepeatInv
<1>11. GatherInv /\ MendInv /\ UpsertInv /\ TodoInv
       BY <1>3 DEF GatherInv, MendInv, UpsertInv, TodoInv
<1>12. QED
       BY <1>2, <1>8, <1>9, <1>10, <1>11 DEF CorpusInv

LEMMA EveryStep == ASSUME CorpusInv, [CorpusNext]_vars PROVE CorpusInv'
<1>1. CASE UNCHANGED vars
  <2>1. /\ UNCHANGED <<folderVars, storeVars, fileVars, historyVars>>
        /\ UNCHANGED <<script, commands, breaks, doc, points, unfinished>>
        BY <1>1 DEF vars, extractionVars, folderVars, storeVars, historyVars
  <2>2. TypeInv'
    <3>1. FolderInv' /\ StoreInv' /\ FileInv'
          BY <2>1, FoldersKept, StoresKept, FilesKept DEF CorpusInv, TypeInv
    <3>2. HistoryInv'
          BY <2>1, CountsKept DEF CorpusInv, TypeInv, Carry, historyVars
    <3>3. QED
          BY <2>1, <3>1, <3>2 DEF CorpusInv, TypeInv
  <2>3. WholeInv'
        BY <2>1, WholeKept DEF CorpusInv
  <2>4. GatherInv' /\ MendInv' /\ TodoInv'
        BY <2>1 DEF CorpusInv, GatherInv, MendInv, TodoInv, Current
  <2>5. UpsertInv'
    <3>1. Current' = Current /\ \A m : Made(Current, m)' = Made(Current, m)
          BY <2>1, MadeOfSame DEF Current
    <3>2. QED
          BY <2>1, <3>1 DEF CorpusInv, UpsertInv
  <2>6. EarnedInv' /\ RepeatInv'
        BY <2>1 DEF CorpusInv, EarnedInv, RecordsAreEarned, RepeatInv, ChunksWith, Single,
           storeVars, fileVars, historyVars
  <2>7. QED
        BY <2>2, <2>3, <2>4, <2>5, <2>6 DEF CorpusInv
<1>2. CASE CorpusNext
  <2>1. CASE \E books \in Selections : \E force \in BOOLEAN : Folders(Extract(books, force))
        BY <2>1, ExtractKeeps
  <2>2. CASE Folders(ExtractionStep) \/ Break
        BY <2>2, FoldersKeep, BreakKeeps
  <2>3. CASE \/ \E books \in Selections : \E force \in BOOLEAN : Import(books, force)
             \/ \E books \in Selections : Ingest(books)
             \/ ImportBook \/ IngestBook \/ SkipBook \/ UpsertBatch \/ IngestUnits
        BY <2>3, ImportKeeps, IngestKeeps, ImportBookKeeps, IngestBookKeeps, SkipBookKeeps,
           UpsertBatchKeeps, IngestUnitsKeeps
  <2>4. CASE \/ \E books \in Selections : Register(books)
             \/ \E book \in Books \cup {NoName} :
                   \E resume, reset \in BOOLEAN : ExtractUnits(book, resume, reset)
             \/ InsertUnits \/ SaveCheckpoint \/ CutCheckpoint
        BY <2>4, RegisterKeeps, ExtractUnitsKeeps, InsertUnitsKeeps, SaveCheckpointKeeps,
           CutCheckpointKeeps
  <2>5. CASE Rebuild \/ AddToGraph \/ BuildGraph \/ AddBatches
        BY <2>5, RebuildKeeps, AddToGraphKeeps, BuildGraphKeeps, AddBatchesKeeps
  <2>6. CASE \/ Backup \/ SaveStore \/ CutBackup \/ SkipStore
             \/ Restore \/ RestorePostgres \/ CutRestore \/ RestoreQdrant \/ RestoreGraph
        BY <2>6, BackupKeeps, SaveStoreKeeps, CutBackupKeeps, SkipStoreKeeps, RestoreKeeps,
           RestorePostgresKeeps, CutRestoreKeeps, RestoreQdrantKeeps, RestoreGraphKeeps
  <2>7. CASE \/ \E lost \in {{"postgres"}, {"qdrant"}, {"neo4j"}, {"postgres", "qdrant", "neo4j"}} : Lose(lost)
             \/ SignUp
        BY <2>7, LoseKeeps, SignUpKeeps
  <2>8. QED
        BY <1>2, <2>1, <2>2, <2>3, <2>4, <2>5, <2>6, <2>7 DEF CorpusNext
<1>3. QED
      BY <1>1, <1>2

\* What the documents, the stores, the files and the script under way are of,
\* through all of the scripts' steps: the invariant of everything below.
THEOREM CorpusIsSound == Spec => []CorpusInv
<1>1. CorpusInit => CorpusInv
      BY InitialState
<1>2. CorpusInv /\ [CorpusNext]_vars => CorpusInv'
      BY EveryStep
<1>3. QED
      BY <1>1, <1>2, PTL DEF Spec

\* Every store holds what the scripts write to it, the folders have pages of
\* their own PDF, and the dump and the snapshot are missing, cut off or whole.
THEOREM CorpusTypeOK == Spec => []TypeOK
<1>1. ASSUME CorpusInv PROVE TypeOK
  <2>1. ExtractionType
        BY <1>1 DEF CorpusInv, TypeInv, FolderInv, HistoryInv, ExtractionType, Leaf
  <2>2. \A p \in PointSet : IsPoint(p)
        BY DEF PointSet
  <2>3. \A k \in KeySet : IsKey(k)
        BY DEF KeySet
  <2>4. \A u \in UnitSet : IsUnit(u)
        BY <2>3 DEF UnitSet, IsUnit
  <2>5. StoreInv /\ FileInv /\ HistoryInv
        BY <1>1 DEF CorpusInv, TypeInv
  <2>6. (\A p \in points : IsPoint(p)) /\ (\A u \in units \cup graph : IsUnit(u)) /\ rows \subseteq Books
        BY <2>2, <2>4, <2>5 DEF StoreInv, IsCollection
  <2>7. \A k \in checkpoint \cup barren : IsKey(k)
        BY <2>3, <2>5 DEF FileInv, HistoryInv
  <2>8. snapshot \in {NoFile, Cut} \/ \A p \in snapshot : IsPoint(p)
        BY <2>2, <2>5 DEF FileInv, IsCollection
  <2>9. dump \in {NoFile, Cut} \/ (dump.rows \subseteq Books /\ \A u \in dump.units : IsUnit(u))
        BY <2>4, <2>5 DEF FileInv, IsDump
  <2>10. unfinished \subseteq Books /\ {users, forgetful, wentBack} \subseteq BOOLEAN /\ losses \in 0..MaxLosses
         BY <2>5 DEF StoreInv, HistoryInv
  <2>11. QED
         BY <2>1, <2>6, <2>7, <2>8, <2>9, <2>10 DEF TypeOK
<1>2. QED
      BY <1>1, CorpusIsSound, PTL

\* A book that has points, and is therefore passed over by the next import
\* (_book_exists_in_qdrant), has one for every chunk of its document, unless it
\* is one of the unfinished; and every point has the vector of its own text.
THEOREM ImportedBooksAreWhole == Spec => []StoredBookIsWhole
<1>1. ASSUME CorpusInv PROVE StoredBookIsWhole
  <2>1. \A p \in points : p.vector = p.key.text
        BY <1>1 DEF CorpusInv, TypeInv, StoreInv, IsCollection, PointSet
  <2>2. QED
        BY <1>1, <2>1 DEF CorpusInv, WholeInv, Covers, Makers, StoredBookIsWhole
<1>2. QED
      BY <1>1, CorpusIsSound, PTL

\* Whatever the checkpoint says of a chunk (_save_checkpoint) and the graph of a
\* unit is in Postgres, at whatever point a script breaks off, unless Postgres
\* itself went back or the answer for the chunk had no valid unit.
THEOREM WhatIsRecordedIsStored == Spec => []RecordsAreEarned
<1>1. ASSUME CorpusInv PROVE RecordsAreEarned
      BY <1>1 DEF CorpusInv, EarnedInv
<1>2. QED
      BY <1>1, CorpusIsSound, PTL

\* A chunk has units of two runs (run_extraction) only if units were stored that
\* the second one was not told of.
THEOREM NoUnitsTwiceWithoutCause == Spec => []RepeatsForCause
<1>1. ASSUME CorpusInv PROVE RepeatsForCause
      BY <1>1 DEF CorpusInv, RepeatInv, Single, RepeatsForCause
<1>2. QED
      BY <1>1, CorpusIsSound, PTL

\* Extracting several books together puts no book's units to another's account
\* (_ensure_books_in_postgres): only the pipeline's points, without a book's
\* name, may go there.
THEOREM UnitsStayWithTheirBook == Spec => []UnitsOfTheirBook
<1>1. ASSUME CorpusInv PROVE UnitsOfTheirBook
      BY <1>1 DEF CorpusInv, TypeInv, StoreInv, UnitSet, UnitsOfTheirBook
<1>2. QED
      BY <1>1, CorpusIsSound, PTL

-----------------------------------------------------------------------------
LEMMA WhoWritesDocuments ==
    ASSUME CorpusNext
    PROVE  doc' = doc \/ WriteDocument \/ CutDocument
<1>1. CASE \E books \in Selections : \E force \in BOOLEAN : Folders(Extract(books, force))
      BY <1>1 DEF Folders, Extract, folderVars
<1>2. CASE Folders(ExtractionStep)
  <2>1. CASE \/ Look \/ ExtractPart \/ CutPart \/ SkipPdf \/ WritePages \/ CutPages
             \/ WriteInfo \/ CutInfo \/ Mend \/ MendJob \/ MendInfo
        BY <2>1 DEF Look, ExtractPart, CutPart, SkipPdf, WritePages, CutPages, WriteInfo, CutInfo, Mend, MendJob,
           MendInfo, folderVars
  <2>2. QED
        BY <1>2, <2>1 DEF Folders, ExtractionStep
<1>3. CASE \/ Break \/ SignUp
           \/ \E lost \in {{"postgres"}, {"qdrant"}, {"neo4j"}, {"postgres", "qdrant", "neo4j"}} : Lose(lost)
      BY <1>3 DEF Break, BreakOff, Lose, SignUp, extractionVars, folderVars
<1>4. CASE \/ \E books \in Selections : \E force \in BOOLEAN : Import(books, force)
           \/ \E books \in Selections : Ingest(books)
           \/ ImportBook \/ IngestBook \/ SkipBook \/ UpsertBatch \/ IngestUnits
      BY <1>4 DEF Import, Ingest, ImportBook, IngestBook, SkipBook, UpsertBatch, IngestUnits, Keep,
         folderVars
<1>5. CASE \/ \E books \in Selections : Register(books)
           \/ \E book \in Books \cup {NoName} :
                 \E resume, reset \in BOOLEAN : ExtractUnits(book, resume, reset)
           \/ InsertUnits \/ SaveCheckpoint \/ CutCheckpoint
      BY <1>5 DEF Register, ExtractUnits, InsertUnits, SaveCheckpoint, CutCheckpoint, Keep, folderVars
<1>6. CASE Rebuild \/ AddToGraph \/ BuildGraph \/ AddBatches
      BY <1>6 DEF Rebuild, AddToGraph, BuildGraph, AddBatches, Keep, folderVars
<1>7. CASE \/ Backup \/ SaveStore \/ CutBackup \/ SkipStore
           \/ Restore \/ RestorePostgres \/ CutRestore \/ RestoreQdrant \/ RestoreGraph
      BY <1>7 DEF Backup, SaveStore, CutBackup, SkipStore, Restore, RestorePostgres, CutRestore,
         RestoreQdrant, RestoreGraph, Keep, folderVars
<1>8. QED
      BY <1>1, <1>2, <1>3, <1>4, <1>5, <1>6, <1>7 DEF CorpusNext

\* A document that a script leaves has its pages in order, unless a repair has
\* taken the second part among the first.
LEMMA WrittenInOrder ==
    ASSUME CorpusInv, CorpusNext, NEW b \in Books, doc'[b] # doc[b], ~InPageOrder(doc'[b])
    PROVE  /\ script.name = "mend" /\ script.first # <<>>
           /\ Last(script.first) \in PagesOf(b, 2)
<1>1. CASE doc' = doc
      BY <1>1
<1>2. CASE WriteDocument \/ CutDocument
  <2>1. script.name \in {"extract", "mend"}
        BY <1>2 DEF WriteDocument, CutDocument
  <2>2. /\ Current \in Books /\ script.leaves \in Seq(Leaf(Current))
        /\ script.name = "extract" => InPageOrder(script.leaves)
        /\ script.name = "mend" => Current = Mended
        BY <2>1, CurrentFacts
  <2>3. b = Current /\ (InPageOrder(script.leaves) => InPageOrder(doc'[b]))
    <3>1. CASE WriteDocument
          BY <2>2, <3>1 DEF WriteDocument, CorpusInv, TypeInv, FolderInv
    <3>2. CASE CutDocument
      <4>1. PICK n \in 0..(Len(script.leaves) - 1) :
               doc' = [doc EXCEPT ![Current] = SubSeq(script.leaves, 1, n)]
            BY <3>2 DEF CutDocument
      <4>2. InPageOrder(script.leaves) => InPageOrder(SubSeq(script.leaves, 1, n))
            BY <2>2, BeginningInOrder
      <4>3. b = Current /\ doc'[b] = SubSeq(script.leaves, 1, n)
            BY <2>2, <4>1 DEF CorpusInv, TypeInv, FolderInv
      <4>4. QED
            BY <4>2, <4>3
    <3>3. QED
          BY <1>2, <3>1, <3>2
  <2>4. ~InPageOrder(script.leaves) /\ script.name = "mend"
        BY <2>1, <2>2, <2>3
  <2>5. TakesBothParts(script.first)
        BY <2>4 DEF CorpusInv, MendInv
  <2>6. QED
        BY <2>2, <2>3, <2>4, <2>5 DEF TakesBothParts
<1>3. QED
      BY <1>1, <1>2, WhoWritesDocuments

\* The pages of every document that is written (extract_single,
\* fix_agrihistory1) stand in their order, each of them once, through failures,
\* reruns and cut-off writes; only a repair whose first part ends among the
\* second's pages may repeat some.
THEOREM DocumentsKeepPageOrder == Spec => PagesInOrder
<1>1. CorpusInv /\ [CorpusNext]_vars =>
          [\A b \in Books :
              doc'[b] # doc[b] /\ ~InPageOrder(doc'[b])
                  => /\ script.name = "mend" /\ script.first # <<>>
                     /\ Last(script.first) \in PagesOf(b, 2)]_extractionVars
  <2>1. ASSUME UNCHANGED vars PROVE UNCHANGED extractionVars
        BY <2>1 DEF vars
  <2>2. QED
        BY <2>1, WrittenInOrder
<1>2. QED
      BY <1>1, CorpusIsSound, PTL DEF Spec, PagesInOrder

=============================================================================
