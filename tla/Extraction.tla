------------------------------ MODULE Extraction ------------------------------
(***************************************************************************)
(* From a book's PDF to its folder in data/extracted, by the scripts       *)
(* sarvam_extract.py, seed_books.py (its first phase) and                  *)
(* fix_incomplete_extractions.py. They are started by hand, one at a time, *)
(* and may raise or be killed at any moment.                               *)
(*                                                                         *)
(* A page is a number, in the document as well as in the names of the JSON *)
(* files. The script under way is a record; what it holds in memory is     *)
(* lost when it ends.                                                      *)
(***************************************************************************)
EXTENDS Integers, Sequences, FiniteSets, SequencesExt

CONSTANTS
    Books,
    Pages,          \* Pages[b]: the length of the PDF
    PartPages,      \* SARVAM_MAX_PAGES; the limit above which a PDF is split is taken to be equal
    Mended,         \* the book that fix_agrihistory1 is for
    NoFile,
    MaxCommands,    \* bound on the scripts that are started
    MaxBreaks       \* bound on those that break off

VARIABLES
    doc,        \* doc[b]: the pages in document.md, in its order
    meta,       \* meta[b]: the pages with a JSON file in metadata/
    parts,      \* parts[b]: the parts whose PDF is in _parts/
    info,       \* info[b]: extraction_info.json is "none", "whole" or "cut"
    script,     \* the script under way
    commands, breaks

folderVars == <<doc, meta, parts, info>>
extractionVars == <<folderVars, script, commands, breaks>>

Blank == 0      \* a page of the document without text

NumParts(b) == (Pages[b] + PartPages - 1) \div PartPages
Large(b) == NumParts(b) > 1
PagesOf(b, i) == {p \in 1..Pages[b] : (p - 1) \div PartPages = i - 1}

\* What is mended by hand is a book of two parts.
ASSUME ExtractionAssumption ==
    /\ IsFiniteSet(Books) /\ Mended \in Books
    /\ Pages \in [Books -> Nat \ {0}] /\ PartPages \in Nat \ {0}
    /\ NumParts(Mended) = 2
    /\ MaxCommands \in Nat /\ MaxBreaks \in Nat

ExtractionType ==
    /\ \A b \in Books : doc[b] = NoFile \/ doc[b] \in Seq(0..Pages[b])
    /\ \A b \in Books : meta[b] \subseteq 1..Pages[b] /\ parts[b] \subseteq 1..NumParts(b)
    /\ info \in [Books -> {"none", "whole", "cut"}]
    /\ commands \in 0..MaxCommands /\ breaks \in 0..MaxBreaks

Idle == [name |-> "none"]
Running(name, step) == script.name = name /\ script.step = step

\* Scripts are started by hand, one after the other.
Ready == script = Idle /\ commands < MaxCommands

Command(start) ==
    /\ Ready
    /\ commands' = commands + 1
    /\ script' = start
    /\ UNCHANGED breaks

\* Scripts that go from folder to folder, in the order of their names.
Current == Head(script.books)
NextBook(start) == IF Len(script.books) = 1 THEN Idle ELSE [start EXCEPT !.books = Tail(@)]

Goto(step) == script' = [script EXCEPT !.step = step]
Carry == UNCHANGED <<commands, breaks>>

BreaksOff == breaks < MaxBreaks /\ breaks' = breaks + 1 /\ UNCHANGED commands

\* An error that nothing catches, or the end of the process.
BreakOff ==
    /\ script # Idle /\ BreaksOff
    /\ script' = Idle
    /\ UNCHANGED folderVars

-----------------------------------------------------------------------------
(***************************************************************************)
(* The extraction service: the document of a job and its JSON files. Pages *)
(* may be missing from both, and the document from the archive; no script  *)
(* looks at the state of the job.                                          *)
(***************************************************************************)
Results(pages) ==
    {[found |-> TRUE, pages |-> P, json |-> P] : P \in SUBSET pages}
    \cup {[found |-> FALSE, pages |-> {}, json |-> P] : P \in {{}, pages}}

\* The elements of s that are in S, in their order (SelectSeq as a function).
Those(s, S) ==
    LET f[n \in 0..Len(s)] ==
            IF n = 0 THEN <<>>
            ELSE IF s[n] \in S THEN Append(f[n - 1], s[n]) ELSE f[n - 1]
    IN  f[Len(s)]

InOrder(b, pages) == Those([p \in 1..Pages[b] |-> p], pages)
Leaves(b, result) == IF result.pages = {} THEN <<Blank>> ELSE InOrder(b, result.pages)

-----------------------------------------------------------------------------
(***************************************************************************)
(* extract_single: a large book part by part, the document when all parts  *)
(* are done. A folder with a document is passed over.                      *)
(***************************************************************************)
ExtractInit(S) ==
    /\ doc = [b \in Books |-> IF b \in S THEN InOrder(b, 1..Pages[b]) ELSE NoFile]
    /\ meta = [b \in Books |-> IF b \in S THEN 1..Pages[b] ELSE {}]
    /\ parts = [b \in Books |-> {}]
    /\ info = [b \in Books |-> IF b \in S THEN "whole" ELSE "none"]
    /\ script = Idle /\ commands = 0 /\ breaks = 0

Fresh(books, force) ==
    [name |-> "extract", books |-> books, force |-> force, step |-> "look",
     part |-> 1, leaves |-> <<>>]

Extract(books, force) ==
    /\ Command(Fresh(books, force))
    /\ UNCHANGED folderVars

\* A faulty form: the list of merged parts is made once for the whole batch.
NextPdfKept ==
    IF Len(script.books) = 1 THEN Idle
    ELSE [script EXCEPT !.books = Tail(@), !.step = "look", !.part = 1]

NextPdf == NextBook(Fresh(script.books, script.force))

Look ==
    /\ Running("extract", "look") /\ Carry
    /\ \/ /\ doc[Current] # NoFile /\ ~script.force
          /\ script' = NextPdf
          /\ UNCHANGED folderVars
       \/ /\ doc[Current] = NoFile \/ script.force
          /\ Goto("job")
          /\ parts' = IF Large(Current)
                        THEN [parts EXCEPT ![Current] = 1..NumParts(Current)] ELSE parts
          /\ UNCHANGED <<doc, meta, info>>

\* The JSON files that are written before a document is: of a small PDF, those
\* that come before it in the archive.
Early(b, result) ==
    IF Large(b) \/ ~result.found THEN {result.json} ELSE SUBSET result.json

ExtractPart ==
    /\ Running("extract", "job") /\ Carry
    /\ \E r \in Results(PagesOf(Current, script.part)) :
         /\ \E json \in Early(Current, r) : meta' = [meta EXCEPT ![Current] = @ \cup json]
         /\ LET done == script.part = NumParts(Current)
                next == IF ~done THEN "job"
                        ELSE IF Large(Current) \/ r.found THEN "document" ELSE "info"
            IN  script' = [script EXCEPT !.step = next, !.leaves = @ \o Leaves(Current, r),
                                         !.part = IF done THEN @ ELSE @ + 1]
    /\ parts' = [parts EXCEPT ![Current] = @ \ {script.part}]
    /\ UNCHANGED <<doc, info>>

\* The process ends before all the files of a job are in metadata/, or before
\* the part's PDF is removed.
CutPart ==
    /\ script.name \in {"extract", "mend"} /\ script.step = "job" /\ BreaksOff
    /\ LET part == IF script.name = "mend" THEN 2 ELSE script.part
       IN  \E P \in SUBSET PagesOf(Current, part) : meta' = [meta EXCEPT ![Current] = @ \cup P]
    /\ script' = Idle
    /\ UNCHANGED <<doc, parts, info>>

\* A job fails, or writing does, and the batch goes on with the next PDF.
SkipPdf ==
    /\ script.name = "extract" /\ script.step # "look" /\ BreaksOff
    /\ script' = NextPdf
    /\ UNCHANGED folderVars

\* The JSON files that come after it.
Late ==
    IF Large(Current) THEN {}
    ELSE {p \in ToSet(script.leaves) : p # Blank /\ p \notin meta[Current]}

WriteDocument ==
    /\ script.name \in {"extract", "mend"} /\ script.step = "document" /\ Carry
    /\ doc' = [doc EXCEPT ![Current] = script.leaves]
    /\ Goto(IF Late = {} THEN "info" ELSE "pages")
    /\ UNCHANGED <<meta, parts, info>>

\* The process ends while the document is being written.
CutDocument ==
    /\ script.name \in {"extract", "mend"} /\ script.step = "document" /\ BreaksOff
    /\ \E n \in 0..(Len(script.leaves) - 1) :
         doc' = [doc EXCEPT ![Current] = SubSeq(script.leaves, 1, n)]
    /\ script' = Idle
    /\ UNCHANGED <<meta, parts, info>>

WritePages ==
    /\ Running("extract", "pages") /\ Carry
    /\ meta' = [meta EXCEPT ![Current] = @ \cup Late]
    /\ Goto("info")
    /\ UNCHANGED <<doc, parts, info>>

CutPages ==
    /\ Running("extract", "pages") /\ BreaksOff
    /\ \E P \in SUBSET Late : meta' = [meta EXCEPT ![Current] = @ \cup P]
    /\ script' = Idle
    /\ UNCHANGED <<doc, parts, info>>

\* The parts are cleared away before the information is written.
WriteInfo ==
    /\ Running("extract", "info") /\ Carry
    /\ parts' = [parts EXCEPT ![Current] = {}]
    /\ info' = [info EXCEPT ![Current] = "whole"]
    /\ script' = NextPdf
    /\ UNCHANGED <<doc, meta>>

CutInfo ==
    /\ script.name \in {"extract", "mend"} /\ script.step = "info" /\ BreaksOff
    /\ parts' = IF script.name = "extract" THEN [parts EXCEPT ![Current] = {}] ELSE parts
    /\ info' = [info EXCEPT ![Current] = "cut"]
    /\ script' = Idle
    /\ UNCHANGED <<doc, meta>>

-----------------------------------------------------------------------------
(***************************************************************************)
(* fix_agrihistory1: the first part from the JSON files at hand, the       *)
(* second from a new job. It needs the second part's PDF, which only an    *)
(* extraction that did not come to its end has left, and does not look for *)
(* a document.                                                             *)
(***************************************************************************)
\* Pages whose blocks have no text, or only headers and footers, leave none.
FirstPart(b) == {InOrder(b, P) : P \in SUBSET meta[b]}

Mend ==
    /\ meta[Mended] # {} /\ 2 \in parts[Mended]
    /\ \E first \in FirstPart(Mended) :
         Command([name |-> "mend", books |-> <<Mended>>, step |-> "job",
                  first |-> first, leaves |-> <<>>])
    /\ UNCHANGED folderVars

MendJob ==
    /\ Running("mend", "job") /\ Carry
    /\ \E r \in Results(PagesOf(Mended, 2)) :
         /\ meta' = [meta EXCEPT ![Mended] = @ \cup r.json]
         /\ script' = [script EXCEPT !.step = "document", !.leaves = script.first \o Leaves(Mended, r)]
    /\ UNCHANGED <<doc, parts, info>>

MendInfo ==
    /\ Running("mend", "info") /\ Carry
    /\ info' = [info EXCEPT ![Mended] = "whole"]
    /\ script' = Idle
    /\ UNCHANGED <<doc, meta, parts>>

ExtractionStep ==
    \/ Look \/ ExtractPart \/ CutPart \/ SkipPdf \/ WriteDocument \/ CutDocument
    \/ WritePages \/ CutPages \/ WriteInfo \/ CutInfo
    \/ Mend \/ MendJob \/ MendInfo

-----------------------------------------------------------------------------
\* The pages of every document stand in their order, each of them once, through
\* failures, reruns and cut-off writes; only a repair that found pages of the
\* second part among the JSON files, because it or the extraction had got as
\* far before, takes them twice (fix_agrihistory1 reads all of metadata/).
InPageOrder(leaves) ==
    \A i, j \in DOMAIN leaves : i < j /\ leaves[j] # Blank => leaves[i] < leaves[j]

PagesInOrder ==
    [][\A b \in Books :
          doc'[b] # doc[b] /\ ~InPageOrder(doc'[b])
              => /\ script.name = "mend" /\ script.first # <<>>
                 /\ Last(script.first) \in PagesOf(b, 2)]_extractionVars

=============================================================================
