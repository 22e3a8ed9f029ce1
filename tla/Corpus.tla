-------------------------------- MODULE Corpus --------------------------------
(***************************************************************************)
(* A corpus that is built and kept without the API and the worker: from    *)
(* the folders of Extraction to Qdrant (import_sarvam.py, and              *)
(* run_ingestion.py, which calls the pipeline itself), to Postgres         *)
(* (seed_books.py, extract_knowledge_units.py), from there to Neo4j        *)
(* (rebuild_neo4j_graph.py, build_knowledge_graph.py), and to the backups  *)
(* and back (db_manager.py).                                               *)
(*                                                                         *)
(* Every script takes what an earlier one has left for finished, by a test *)
(* of its own: a document that exists, a point of the book, a point id in  *)
(* the checkpoint, a user in the table.                                    *)
(***************************************************************************)
EXTENDS Extraction

CONSTANTS
    MaxChars,   \* pages that make a full chunk, and that two chunks share
    Overlap,
    Faint,      \* Faint[b]: pages of so few characters that they make no chunk
    Batch,      \* points of an upsert, and chunks of a round of extraction
    Cut,        \* a file that was cut off while it was written
    NoName,     \* of a book
    MaxLosses   \* bound on lost volumes

ASSUME CorpusAssumption ==
    /\ MaxChars \in Nat \ {0} /\ Overlap \in 0..(MaxChars - 1)
    /\ Faint \in [Books -> SUBSET Nat]
    /\ Batch \in Nat \ {0} /\ MaxLosses \in Nat
    /\ NoName \notin Books

VARIABLES
    points,     \* Qdrant: the points of the collection
    rows,       \* Postgres: the books with a row,
    users,      \*   whether there is a user,
    units,      \*   and the knowledge units
    graph,      \* Neo4j: the units that relations name
    checkpoint, \* the chunks of extraction_state.json; none if it is missing or cut off
    dump,       \* pg-...-latest.dump
    snapshot,   \* qdrant-...-latest.snapshot
    \* History, and a bound
    unfinished, \* books whose points are not all there, or not of the document
    forgetful,  \* whether units were stored that no run of the units' script
                \* was told of
    wentBack,   \* whether Postgres has lost units
    barren,     \* chunks whose answer had no valid unit
    losses

storeVars == <<points, rows, users, units, graph>>
fileVars == <<checkpoint, dump, snapshot>>
historyVars == <<unfinished, forgetful, wentBack, barren, losses>>
vars == <<extractionVars, storeVars, fileVars, historyVars>>

-----------------------------------------------------------------------------
(***************************************************************************)
(* _chunk_document, with pages for characters: a page that fills the       *)
(* buffer cuts off a chunk, and the buffer keeps an overlap. A text under  *)
(* 50 characters, a faint page by itself, makes no chunk. The worker's     *)
(* chunker (Chunker) is taken to make a chunk of every page.               *)
(***************************************************************************)
TooShort(b, text) == text = <<>> \/ \E page \in Faint[b] : text = <<page>>

Emit(b, out, text, from, to) ==
    IF TooShort(b, text) THEN out ELSE Append(out, [text |-> text, from |-> from, to |-> to])

AddPage(b, w, leaf) ==
    LET page == w.page + 1
        text == Append(w.text, leaf)
        from == IF w.text = <<>> THEN page ELSE w.from
        rest == SubSeq(text, MaxChars - Overlap + 1, Len(text))
    IN  IF leaf = Blank THEN [w EXCEPT !.page = page]
        ELSE IF Len(text) < MaxChars
          THEN [w EXCEPT !.page = page, !.to = page, !.text = text, !.from = from]
        ELSE [page |-> page, to |-> page, text |-> rest, from |-> page,
              out |-> Emit(b, w.out, text, from, page)]

Start == [page |-> 0, from |-> 1, to |-> 1, text |-> <<>>, out |-> <<>>]

\* The buffer, with the chunks cut off so far, after all leaves.
Buffer(b, leaves) ==
    LET w[n \in 0..Len(leaves)] == IF n = 0 THEN Start ELSE AddPage(b, w[n - 1], leaves[n])
    IN  w[Len(leaves)]

ChunksOf(b) == LET w == Buffer(b, doc[b]) IN Emit(b, w.out, w.text, w.from, w.to)

\* The embedder passes over texts that are blank.
WithText(chunks) == Those(chunks, {chunk \in ToSet(chunks) : chunk.text # <<Blank>>})

\* A faulty form: pages are counted from zero.
PagesFromZero(b) ==
    WithText([p \in 1..Len(doc[b]) |-> [text |-> <<doc[b][p]>>, from |-> p - 1, to |-> p - 1]])

PagesWithText(b) ==
    WithText([p \in 1..Len(doc[b]) |-> [text |-> <<doc[b][p]>>, from |-> p, to |-> p]])

\* A point is named by its book and its text, so that equal texts are one point.
Point(b, chunk, vector, maker) ==
    [key |-> [book |-> b, text |-> chunk.text], from |-> chunk.from, to |-> chunk.to,
     vector |-> vector, maker |-> maker]

\* A vector stands for the text it is of. Blank texts are not embedded, and the
\* vectors are paired with the chunks from the start.
Vectors(chunks) ==
    LET embedded == WithText(chunks) IN [i \in DOMAIN embedded |-> embedded[i].text]

Made(b, maker) ==
    LET chunks == IF maker = "import" THEN ChunksOf(b) ELSE PagesWithText(b)
        vectors == Vectors(chunks)
    IN  [i \in DOMAIN vectors |-> Point(b, chunks[i], vectors[i], maker)]

\* Unit ids are random: no two runs make the same one.
Unit(p, b) == [chunk |-> p.key, maker |-> p.maker, book |-> b, run |-> commands]

KeysIn(set) == {p.key : p \in set}
PointsOf(b) == {p \in points : p.key.book = b}

\* Of the points of one name in an upsert, the last one stays.
LastOnes(s) == {s[i] : i \in {n \in DOMAIN s : \A m \in DOMAIN s : m > n => s[m].key # s[n].key}}
Upserted(s) == {p \in points : p.key \notin KeysIn(ToSet(s))} \cup LastOnes(s)

\* Somebody has signed up; some books were extracted before, and perhaps
\* imported and registered, and their units extracted.
CorpusInit ==
    /\ \E S \in SUBSET Books :
         /\ ExtractInit(S)
         /\ points \in {{}, UNION {LastOnes(Made(b, "import")) : b \in S}}
    /\ rows \in {{}, {p.key.book : p \in points}}
    /\ units \in {{}, {Unit(p, p.key.book) : p \in points}} /\ (rows = {} => units = {})
    /\ checkpoint = IF units = {} THEN {} ELSE KeysIn(points)
    /\ users = TRUE /\ graph = {} /\ dump = NoFile /\ snapshot = NoFile
    /\ unfinished = {} /\ forgetful = FALSE /\ wentBack = FALSE
    /\ barren = {} /\ losses = 0

\* With the folders as they are.
Keep(kept) == UNCHANGED <<folderVars, kept>>

-----------------------------------------------------------------------------
(***************************************************************************)
(* Qdrant. A book that has a point is passed over by import_sarvam.py      *)
(* unless it is forced, and by run_ingestion.py if it is told to; what the *)
(* document no longer says is never removed.                               *)
(***************************************************************************)
InFolders(books) == Those(books, {b \in Books : doc[b] # NoFile})
NextFolder == NextBook([script EXCEPT !.step = "book", !.todo = <<>>])

Import(books, force) ==
    /\ Ready /\ InFolders(books) # <<>>
    /\ Command([name |-> "import", step |-> "book", books |-> InFolders(books),
                force |-> force, todo |-> <<>>])
    /\ Keep(<<storeVars, fileVars, historyVars>>)

\* The books that have points are looked up once, and none is found if that
\* fails or they are not among the first 10,000 points, or not looked for.
Found == SUBSET {p.key.book : p \in points}

Ingest(books) ==
    /\ Ready
    /\ \E done \in Found :
       LET left == Those(InFolders(books), Books \ done)
       IN  /\ left # <<>>
           /\ Command([name |-> "ingest", step |-> "book", books |-> left, todo |-> <<>>])
           /\ Keep(<<storeVars, fileVars, historyVars>>)

\* extraction_info.json is parsed before anything else, and if it was cut off
\* the script ends there.
ImportBook ==
    /\ Running("import", "book") /\ Carry
    /\ LET unreadable == info[Current] = "cut"
           there == PointsOf(Current) # {} /\ ~script.force
           mismatch == Len(Made(Current, "import")) # Len(ChunksOf(Current))
       IN  script' = IF unreadable THEN Idle
                     ELSE IF there \/ mismatch THEN NextFolder
                     ELSE [script EXCEPT !.step = "upsert", !.todo = Made(Current, "import")]
    /\ Keep(<<storeVars, fileVars, historyVars>>)

IngestBook ==
    /\ Running("ingest", "book") /\ Carry
    /\ script' = IF Current \notin rows THEN NextFolder
                 ELSE [script EXCEPT !.step = "upsert", !.todo = Made(Current, "pipeline")]
    /\ Keep(<<storeVars, fileVars, historyVars>>)

\* The embedding of a book fails; for run_ingestion.py, any step does.
SkipBook ==
    /\ script.name \in {"import", "ingest"} /\ BreaksOff
    /\ script.name = "import" => script.step = "book"
    /\ script' = NextFolder
    /\ Keep(<<storeVars, fileVars, historyVars>>)

Slice == SubSeq(script.todo, 1, IF Len(script.todo) < Batch THEN Len(script.todo) ELSE Batch)

\* A faulty form: the end of the range is off by one.
AfterSliceShort == SubSeq(script.todo, Len(Slice) + 1, Len(script.todo) - 1)

AfterSlice == SubSeq(script.todo, Len(Slice) + 1, Len(script.todo))

UpsertBatch ==
    /\ script.name \in {"import", "ingest"} /\ script.step = "upsert" /\ Carry
    /\ points' = Upserted(Slice)
    /\ IF AfterSlice # <<>>
         THEN /\ script' = [script EXCEPT !.todo = AfterSlice]
              /\ unfinished' = unfinished \cup {Current}
         ELSE /\ script' = IF script.name = "import" THEN NextFolder
                           ELSE [script EXCEPT !.step = "units", !.todo = <<>>]
              /\ unfinished' = unfinished \ {Current}
    /\ Keep(<<rows, users, units, graph, fileVars, forgetful, wentBack, barren, losses>>)

\* The pipeline's units and its graph; KnowledgeStore has them in detail.
IngestUnits ==
    /\ Running("ingest", "units") /\ Carry
    /\ \E answered \in SUBSET ToSet(Made(Current, "pipeline")) :
         LET new == {Unit(p, Current) : p \in answered}
         IN  /\ units' = units \cup new
             /\ forgetful' = (forgetful \/ new # {})
             /\ script' = IF new = {} THEN NextFolder
                          ELSE [script EXCEPT !.step = "graph", !.todo = new]
    /\ Keep(<<points, rows, users, graph, fileVars, unfinished, wentBack, barren, losses>>)

-----------------------------------------------------------------------------
(***************************************************************************)
(* Postgres. Rows of books from the folders, in one transaction; units     *)
(* from the points, in rounds of chunks whose units are inserted before    *)
(* the round is recorded in the checkpoint.                                *)
(***************************************************************************)
Register(books) ==
    /\ Command(Idle)
    /\ LET folders == ToSet(InFolders(books))
       IN  rows' = IF \E b \in folders : info[b] = "cut" THEN rows ELSE rows \cup folders
    /\ Keep(<<points, users, units, graph, fileVars, historyVars>>)

\* Chunks are grouped by the name of their book and recorded for the book of
\* the first of them. The pipeline's points bear no name.
Name(p) == IF p.maker = "import" THEN p.key.book ELSE NoName
Groups(chosen) == {Name(p) : p \in chosen}
BooksOf(chosen, name) == {p.key.book : p \in {q \in chosen : Name(q) = name}}

\* A faulty form: the first of all the chunks.
AttributionsToOne(chosen) ==
    {[name \in Groups(chosen) |-> b] : b \in {p.key.book : p \in chosen}}

Attributions(chosen) ==
    {f \in [Groups(chosen) -> Books] : \A name \in Groups(chosen) : f[name] \in BooksOf(chosen, name)}

Chosen(book) == IF book = NoName THEN points ELSE {p \in points : Name(p) = book}

\* Knowledge units need a row of their book.
Ensured(bookOf) == rows \cup {bookOf[name] : name \in DOMAIN bookOf}

\* Without points the script ends, after the checkpoint was reset.
ExtractUnits(book, resume, reset) ==
    LET chosen == Chosen(book)
        processed == IF resume /\ ~reset THEN checkpoint ELSE {}
        todo == {p \in chosen : p.key \notin processed}
    IN  /\ Ready
        /\ \E bookOf \in Attributions(chosen) :
              /\ Command(IF todo = {} THEN Idle
                         ELSE [name |-> "units", step |-> "insert", todo |-> todo,
                               bookOf |-> bookOf, processed |-> processed])
              /\ checkpoint' = IF reset THEN {} ELSE checkpoint
              /\ rows' = Ensured(bookOf)
              /\ forgetful' = (forgetful \/ checkpoint # processed)
              /\ Keep(<<points, users, units, graph, dump, snapshot, unfinished, wentBack, barren, losses>>)

\* A round takes chunks of one group, all that are left or a full batch, in the
\* order of their ids, which are hashes: any order will do.
Round ==
    CHOOSE R \in SUBSET script.todo : \E name \in Groups(R) :
        LET left == {p \in script.todo : Name(p) = name}
        IN  /\ R \subseteq left
            /\ Cardinality(R) = (IF Cardinality(left) < Batch THEN Cardinality(left) ELSE Batch)

\* Calls of the model that did not fail, and those of their answers that can be
\* parsed and have a valid unit; the others count as done.
Answers(R) == SUBSET R
Valid(answered) == SUBSET answered

Stored(fruitful) == units \cup {Unit(p, script.bookOf[Name(p)]) : p \in fruitful}

\* Two faulty forms: chunks are done when they were tried, and the chunks of a
\* round replace those of the rounds before.
InsertTried(R, answered, fruitful) ==
    /\ units' = Stored(fruitful)
    /\ script' = [script EXCEPT !.step = "save", !.todo = @ \ R, !.processed = @ \cup KeysIn(R)]
InsertAnew(R, answered, fruitful) ==
    /\ units' = Stored(fruitful)
    /\ script' = [script EXCEPT !.step = "save", !.todo = @ \ R, !.processed = KeysIn(answered)]

Insert(R, answered, fruitful) ==
    /\ units' = Stored(fruitful)
    /\ script' = [script EXCEPT !.step = "save", !.todo = @ \ R, !.processed = @ \cup KeysIn(answered)]

InsertUnits ==
    /\ Running("units", "insert") /\ Carry
    /\ \E answered \in Answers(Round) : \E fruitful \in Valid(answered) :
         /\ Insert(Round, answered, fruitful)
         /\ barren' = barren \cup KeysIn(answered \ fruitful)
    /\ Keep(<<points, rows, users, graph, fileVars, unfinished, forgetful, wentBack, losses>>)

SaveCheckpoint ==
    /\ Running("units", "save") /\ Carry
    /\ checkpoint' = script.processed
    /\ script' = IF script.todo = {} THEN Idle ELSE [script EXCEPT !.step = "insert"]
    /\ Keep(<<storeVars, dump, snapshot, historyVars>>)

CutCheckpoint ==
    /\ Running("units", "save") /\ BreaksOff
    /\ checkpoint' = {} /\ forgetful' = TRUE
    /\ script' = Idle
    /\ Keep(<<storeVars, dump, snapshot, unfinished, wentBack, barren, losses>>)

-----------------------------------------------------------------------------
(***************************************************************************)
(* Neo4j, from the units Postgres holds: rebuild_neo4j_graph.py goes from  *)
(* unit to unit and passes over one that fails, build_knowledge_graph.py   *)
(* writes many at a time and ends there. Only claims, comparisons and      *)
(* processes are named in the graph.                                       *)
(***************************************************************************)
Rebuild ==
    /\ units # {}
    /\ Command([name |-> "graph", step |-> "graph", todo |-> units])
    /\ Keep(<<storeVars, fileVars, historyVars>>)

AddToGraph ==
    /\ script.name \in {"graph", "ingest"} /\ script.step = "graph" /\ Carry
    /\ LET u == CHOOSE next \in script.todo : TRUE
           left == script.todo \ {u}
       IN  /\ graph' \in {graph, graph \cup {u}}
           /\ script' = IF left # {} THEN [script EXCEPT !.todo = left]
                        ELSE IF script.name = "ingest" THEN NextFolder ELSE Idle
    /\ Keep(<<points, rows, users, units, fileVars, historyVars>>)

BuildGraph ==
    /\ units # {}
    /\ Command([name |-> "build", step |-> "graph", todo |-> units])
    /\ Keep(<<storeVars, fileVars, historyVars>>)

\* All the batches: those after an error are not written.
AddBatches ==
    /\ Running("build", "graph") /\ Carry
    /\ \E named \in SUBSET script.todo : graph' = graph \cup named
    /\ script' = Idle
    /\ Keep(<<points, rows, users, units, fileVars, historyVars>>)

-----------------------------------------------------------------------------
(***************************************************************************)
(* Backups. A database is dumped over the last dump, whatever it holds;    *)
(* Postgres is restored when it has no user, Qdrant when it has no point,  *)
(* or when they do not answer in time. The graph is not.                   *)
(***************************************************************************)
Backup ==
    /\ Command([name |-> "backup", step |-> "postgres"])
    /\ Keep(<<storeVars, fileVars, historyVars>>)

Restore ==
    /\ dump # NoFile \/ snapshot # NoFile
    /\ Command([name |-> "restore", step |-> "postgres"])
    /\ Keep(<<storeVars, fileVars, historyVars>>)

NextStore ==
    LET next == IF script.step = "postgres" THEN "qdrant" ELSE "neo4j"
    IN  IF next = "neo4j" /\ script.name = "backup" THEN Idle ELSE [script EXCEPT !.step = next]

\* A store fails, which the others do not mind.
SkipStore ==
    /\ script.name \in {"backup", "restore"} /\ script.step # "neo4j" /\ BreaksOff
    /\ script' = NextStore
    /\ Keep(<<storeVars, fileVars, historyVars>>)

Postgres == [rows |-> rows, users |-> users, units |-> units]

SaveStore ==
    /\ script.name = "backup" /\ Carry
    /\ IF script.step = "postgres" THEN dump' = Postgres /\ UNCHANGED snapshot
                                   ELSE snapshot' = points /\ UNCHANGED dump
    /\ script' = NextStore
    /\ Keep(<<storeVars, checkpoint, historyVars>>)

CutBackup ==
    /\ script.name = "backup" /\ BreaksOff
    /\ IF script.step = "postgres" THEN dump' = Cut /\ UNCHANGED snapshot
                                   ELSE snapshot' = Cut /\ UNCHANGED dump
    /\ script' = Idle
    /\ Keep(<<storeVars, checkpoint, historyVars>>)

\* A store that has data is restored only if it does not answer the check.
Spared(there, file) == (there \/ file = NoFile) /\ Carry
Tried(there) == (~there /\ Carry) \/ (there /\ BreaksOff)

Load(content) ==
    /\ rows' = content.rows /\ users' = content.users /\ units' = content.units
    /\ wentBack' = (wentBack \/ ~(units \subseteq content.units))

Emptied == [rows |-> {}, users |-> FALSE, units |-> {}]

\* From a dump that was cut off, pg_restore takes nothing, or has dropped the
\* tables before it notices.
RestorePostgres ==
    /\ Running("restore", "postgres")
    /\ \/ Spared(users, dump) /\ UNCHANGED <<rows, users, units, wentBack>>
       \/ Tried(users) /\ dump = Cut /\ (Load(Postgres) \/ Load(Emptied))
       \/ Tried(users) /\ dump \notin {NoFile, Cut} /\ Load(dump)
    /\ script' = NextStore
    /\ Keep(<<points, graph, fileVars, unfinished, forgetful, barren, losses>>)

\* pg_restore drops the tables and fills them one by one, in no transaction.
\* Out of time it ends the script; past an error it goes on.
Between(old, new) ==
    [rows: {old.rows, new.rows}, users: {old.users, new.users}, units: {old.units, new.units}]

CutRestore ==
    /\ Running("restore", "postgres") /\ dump # NoFile /\ BreaksOff
    /\ \/ \E content \in Between(Postgres, Emptied) : Load(content)
       \/ dump # Cut /\ \E content \in Between(Emptied, dump) : Load(content)
    /\ script' \in {Idle, NextStore}
    /\ Keep(<<points, graph, fileVars, unfinished, forgetful, barren, losses>>)

RestoreQdrant ==
    /\ Running("restore", "qdrant")
    /\ \/ Spared(points # {} \/ snapshot = Cut, snapshot) /\ UNCHANGED <<points, unfinished>>
       \/ /\ Tried(points # {}) /\ snapshot \notin {NoFile, Cut}
          /\ points' = snapshot
          /\ unfinished' = unfinished \cup {p.key.book : p \in snapshot}
    /\ script' = NextStore
    /\ Keep(<<rows, users, units, graph, fileVars, forgetful, wentBack, barren, losses>>)

\* rebuild_neo4j_graph.py is looked for in the directory of this script, where
\* it is not, and what is there instead does nothing.
RestoreGraph ==
    /\ Running("restore", "neo4j") /\ Carry
    /\ script' = Idle
    /\ Keep(<<storeVars, fileVars, historyVars>>)

-----------------------------------------------------------------------------
\* From outside: a volume is removed, or somebody signs up (Accounts).
Lose(lost) ==
    /\ script = Idle /\ losses < MaxLosses
    /\ losses' = losses + 1
    /\ IF "postgres" \in lost THEN Load(Emptied) ELSE UNCHANGED <<rows, users, units, wentBack>>
    /\ points' = IF "qdrant" \in lost THEN {} ELSE points
    /\ graph' = IF "neo4j" \in lost THEN {} ELSE graph
    /\ UNCHANGED <<extractionVars, fileVars, unfinished, forgetful, barren>>

SignUp ==
    /\ script = Idle /\ ~users
    /\ users' = TRUE
    /\ UNCHANGED <<extractionVars, points, rows, units, graph, fileVars, historyVars>>

\* A document that changes is no longer the one that was imported.
Folders(step) ==
    /\ step
    /\ unfinished' = unfinished \cup {b \in Books : doc'[b] # doc[b] /\ PointsOf(b) # {}}
    /\ UNCHANGED <<storeVars, fileVars, forgetful, wentBack, barren, losses>>

\* Units that were inserted since the last checkpoint are not in it.
Break ==
    /\ BreakOff
    /\ forgetful' = (forgetful \/ (Running("units", "save") /\ script.processed # checkpoint))
    /\ UNCHANGED <<storeVars, fileVars, unfinished, wentBack, barren, losses>>

Selections == {<<b>> : b \in Books} \cup {SetToSeq(Books)}

CorpusNext ==
    \/ \E books \in Selections : \E force \in BOOLEAN : Folders(Extract(books, force))
    \/ Folders(ExtractionStep) \/ Break
    \/ \E books \in Selections : \E force \in BOOLEAN : Import(books, force)
    \/ \E books \in Selections : Ingest(books)
    \/ ImportBook \/ IngestBook \/ SkipBook \/ UpsertBatch \/ IngestUnits
    \/ \E books \in Selections : Register(books)
    \/ \E book \in Books \cup {NoName} : \E resume, reset \in BOOLEAN : ExtractUnits(book, resume, reset)
    \/ InsertUnits \/ SaveCheckpoint \/ CutCheckpoint
    \/ Rebuild \/ AddToGraph \/ BuildGraph \/ AddBatches
    \/ Backup \/ SaveStore \/ CutBackup \/ SkipStore
    \/ Restore \/ RestorePostgres \/ CutRestore \/ RestoreQdrant \/ RestoreGraph
    \/ \E lost \in {{"postgres"}, {"qdrant"}, {"neo4j"}, {"postgres", "qdrant", "neo4j"}} : Lose(lost)
    \/ SignUp

Spec == CorpusInit /\ [][CorpusNext]_vars

-----------------------------------------------------------------------------
IsKey(k) == k.book \in Books /\ k.text \in Seq(1..Pages[k.book])
IsUnit(u) == IsKey(u.chunk) /\ u.book \in Books /\ u.run \in 0..MaxCommands
IsPoint(p) ==
    /\ IsKey(p.key) /\ 1 <= p.from /\ p.from <= p.to /\ p.maker \in {"import", "pipeline"}

\* Every store holds what it is for, and the files are missing, cut off or whole.
TypeOK ==
    /\ ExtractionType
    /\ \A p \in points : IsPoint(p)
    /\ \A u \in units \cup graph : IsUnit(u)
    /\ rows \subseteq Books /\ unfinished \subseteq Books
    /\ {users, forgetful, wentBack} \subseteq BOOLEAN
    /\ \A k \in checkpoint : IsKey(k)
    /\ snapshot \in {NoFile, Cut} \/ \A p \in snapshot : IsPoint(p)
    /\ dump \in {NoFile, Cut} \/ (dump.rows \subseteq Books /\ \A u \in dump.units : IsUnit(u))
    /\ losses \in 0..MaxLosses /\ \A k \in barren : IsKey(k)

\* Every point has the vector of its own text, and a book that has points, and
\* is therefore passed over, has one for every chunk of its document, one
\* chunker's or the other's: unless its last import stopped between two batches,
\* the document was written anew, or the points came from a snapshot
\* (_book_exists_in_qdrant asks for a single point, import_book pairs by place).
StoredBookIsWhole ==
    /\ \A p \in points : p.vector = p.key.text
    /\ \A b \in Books \ unfinished : PointsOf(b) # {} =>
          \E maker \in {"import", "pipeline"} :
              KeysIn(ToSet(Made(b, maker))) \subseteq KeysIn(PointsOf(b))

\* What a chunk's entry in the checkpoint and a unit's name in the graph promise
\* is in Postgres, unless Postgres was lost or went back to an older dump, or
\* the answer for the chunk had no unit, or could not be parsed: inserted before
\* it is recorded, at whatever point a script breaks off.
RecordsAreEarned ==
    wentBack \/ (checkpoint \subseteq {u.chunk : u \in units} \cup barren /\ graph \subseteq units)

\* A chunk has units of two runs only for a cause: a run was told to start
\* anew, or it could not read the checkpoint, a run broke off between the
\* units and the checkpoint, or the pipeline, which keeps none, made some.
RepeatsForCause ==
    \A u, v \in units : u.chunk = v.chunk /\ u # v => forgetful

\* A unit is recorded for the book its chunk is from, whichever books are
\* extracted together; only the pipeline's points, which bear no book's name,
\* may go to another's account.
UnitsOfTheirBook ==
    \A u \in units : u.book # u.chunk.book => u.maker = "pipeline"

=============================================================================
