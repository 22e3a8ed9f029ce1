-------------------------------- MODULE Chunker --------------------------------
(***************************************************************************)
(* How a document is cut into chunks: chunk_document_by_headers and, for a *)
(* document without headers, chunk_document, in pipelines/chunker.py.      *)
(*                                                                         *)
(* One step is one turn of a loop of the code: a part of a page is read, a *)
(* section is closed, or a piece is cut off the text gathered so far.      *)
(***************************************************************************)
EXTENDS Integers, Sequences, FiniteSetsExt

CONSTANTS
    Documents,   \* what may be cut up, see IsDocument
    MaxChars, Overlap,
    MinLength,   \* a shorter piece is left out
    NoTitle

\* A document is its pages; a page is the text above its first header, and
\* then one part for each header.  Texts are cleaned, so no text begins or
\* ends with a blank.
Whitespace == {" ", "newline"}
IsSequence(s) == s \in Seq({s[n] : n \in DOMAIN s})
IsText(t) ==
    /\ IsSequence(t)
    /\ t # <<>> => t[1] \notin Whitespace /\ t[Len(t)] \notin Whitespace
IsPage(p) ==
    /\ IsSequence(p) /\ p # <<>> /\ p[1].title = NoTitle
    /\ \A n \in DOMAIN p : IsText(p[n].text) /\ (n > 1 => p[n].title # NoTitle)
IsDocument(d) == IsSequence(d) /\ d # <<>> /\ \A n \in DOMAIN d : IsPage(d[n])

\* An overlap of more than half a chunk may bring a cut back to where it
\* began; the code takes it as the request gives it.  A chunk is never smaller
\* than 6000 characters, so that a break between two pages is a small part.
ASSUME ChunkerAssumption ==
    /\ \A d \in Documents : IsDocument(d)
    /\ MaxChars \in Nat /\ MaxChars > 4 /\ MinLength \in Nat \ {0}
    /\ Overlap \in 0..(MaxChars \div 2)

VARIABLES
    document,
    strategy,        \* by "headers" or by a "window"
    stage,           \* to "read" a part, to "split" the body, or "chunked"
    page, part,      \* the next part to read
    title, body,     \* the section so far, each character with its place
    first, last,     \* its page_start and page_end
    chunks,
    halved           \* history: pages before which the window ended within a break

chunkVars ==
    <<document, strategy, stage, page, part, title, body, first, last, chunks, halved>>

ChunkInit ==
    /\ document \in Documents
    /\ strategy = "headers" /\ stage = "read"
    /\ page = 1 /\ part = 1
    /\ title = NoTitle /\ body = <<>> /\ first = 1 /\ last = 1
    /\ chunks = <<>> /\ halved = {}

-----------------------------------------------------------------------------
(***************************************************************************)
(* Text.                                                                   *)
(***************************************************************************)
\* The text of a part, each character with where it stands in the document.
Placed(text, p, q) == [n \in DOMAIN text |-> [ch |-> text[n], page |-> p, part |-> q, at |-> n]]

Newline == [ch |-> "newline", page |-> 0, part |-> 0, at |-> 0]

Break == <<Newline, Newline>>

Joined(a, b) == IF a = <<>> THEN b ELSE a \o Break \o b

Visible(s) == {n \in DOMAIN s : s[n].ch \notin Whitespace}

Stripped(s) == IF Visible(s) = {} THEN <<>> ELSE SubSeq(s, Min(Visible(s)), Max(Visible(s)))

\* A faulty form: any mark will do, even an early one.
SplitPointAnywhere(s) ==
    LET marks == {n \in 2..MaxChars : s[n].ch \in {"newline", "danda"}}
    IN  IF marks = {} THEN MaxChars ELSE Max(marks) - 1

\* Where to cut a text of MaxChars or more, as the number of characters that
\* come before the cut: at the last paragraph break, verse end or sentence
\* end of the second half, in this order of preference.  A break that begins
\* with the last of the MaxChars characters is not seen.
SplitPoint(s) ==
    LET late == {n \in 1..MaxChars : n - 1 > MaxChars \div 2}
        breaks == {n \in late : n < MaxChars /\ s[n].ch = "newline" /\ s[n + 1].ch = "newline"}
        verses == {n \in late : s[n].ch = "danda"}
        sentences == {n \in late : n < MaxChars /\ s[n].ch = "." /\ s[n + 1].ch = " "}
    IN  IF breaks # {} THEN Max(breaks) - 1
        ELSE IF verses # {} THEN Max(verses)
        ELSE IF sentences # {} THEN Max(sentences)
        ELSE MaxChars

\* A faulty form: the pieces do not overlap.
SlideAll(cut) == cut

Slide(cut) == Max({0, cut - Overlap})

\* A faulty form: only a piece with nothing in it is left out.
EmittedShort(s) ==
    IF Visible(s) = {} THEN chunks
    ELSE Append(chunks, [text |-> Stripped(s), first |-> first, last |-> last,
                         title |-> title, by |-> strategy])

\* The chunks once the piece s of the section has been emitted.
Emitted(s) ==
    LET clean == Stripped(s)
    IN  IF Len(clean) < MinLength THEN chunks
        ELSE Append(chunks, [text |-> clean, first |-> first, last |-> last,
                             title |-> title, by |-> strategy])

-----------------------------------------------------------------------------
(***************************************************************************)
(* Reading and cutting.                                                    *)
(***************************************************************************)
AtEnd == page > Len(document)
Current == document[page][part]
Text == Placed(Current.text, page, part)
HeadersOn(p) == Len(document[p]) > 1
HasHeaders == \E p \in DOMAIN document : HeadersOn(p)

Advance ==
    IF part < Len(document[page])
    THEN page' = page /\ part' = part + 1
    ELSE page' = page + 1 /\ part' = 1

\* A faulty form: a text above a header keeps the page
\* of its section.
ContinueStale ==
    /\ stage = "read" /\ strategy = "headers" /\ ~AtEnd /\ part = 1
    /\ body' = IF Text = <<>> THEN body ELSE Joined(body, Text)
    /\ first' = IF Text # <<>> /\ body = <<>> /\ ~HeadersOn(page) THEN page ELSE first
    /\ last' = IF Text = <<>> \/ HeadersOn(page) THEN last ELSE page
    /\ Advance
    /\ UNCHANGED <<document, strategy, stage, title, chunks, halved>>

\* The text of a page without headers, or above the first one, goes to the
\* current section.  Only a page without headers can start one.
Continue ==
    /\ stage = "read" /\ strategy = "headers" /\ ~AtEnd /\ part = 1
    /\ body' = IF Text = <<>> THEN body ELSE Joined(body, Text)
    /\ first' = IF Text # <<>> /\ body = <<>> /\ ~HeadersOn(page) THEN page ELSE first
    /\ last' = IF Text = <<>> THEN last ELSE page
    /\ Advance
    /\ UNCHANGED <<document, strategy, stage, title, chunks, halved>>

\* A header, or the end of the document, has what came before it emitted.
SectionOver == AtEnd \/ part > 1

CloseSection ==
    /\ stage = "read" /\ strategy = "headers" /\ SectionOver /\ body # <<>>
    /\ IF Len(body) <= MaxChars
       THEN chunks' = Emitted(body) /\ body' = <<>> /\ stage' = stage
       ELSE stage' = "split" /\ UNCHANGED <<chunks, body>>
    /\ UNCHANGED <<document, strategy, page, part, title, first, last, halved>>

OpenSection ==
    /\ stage = "read" /\ strategy = "headers" /\ ~AtEnd /\ part > 1 /\ body = <<>>
    /\ title' = Current.title /\ body' = Text /\ first' = page /\ last' = page
    /\ Advance
    /\ UNCHANGED <<document, strategy, stage, chunks, halved>>

\* The window takes up a page and is then cut down; it has no headers to see.
Widen ==
    /\ stage = "read" /\ strategy = "window" /\ ~AtEnd
    /\ IF Text = <<>> THEN UNCHANGED <<stage, body, first, last>>
       ELSE /\ body' = Joined(body, Text) /\ stage' = "split"
            /\ first' = IF body = <<>> THEN page ELSE first
            /\ last' = page
    /\ halved' = IF Text # <<>> /\ Len(body) = MaxChars - 1 THEN halved \cup {page} ELSE halved
    /\ Advance
    /\ UNCHANGED <<document, strategy, title, chunks>>

\* Pieces that overlap.  The rest of a window counts as the page last read.
CutPiece ==
    /\ stage = "split" /\ Len(body) >= MaxChars
    /\ LET cut == SplitPoint(body)
       IN  /\ chunks' = Emitted(SubSeq(body, 1, cut))
           /\ body' = SubSeq(body, Slide(cut) + 1, Len(body))
    /\ first' = IF strategy = "window" THEN last ELSE first
    /\ UNCHANGED <<document, strategy, stage, page, part, title, last, halved>>

EndSplit ==
    /\ stage = "split" /\ Len(body) < MaxChars
    /\ stage' = "read"
    /\ IF strategy = "window" THEN UNCHANGED <<chunks, body>>
       ELSE chunks' = Emitted(body) /\ body' = <<>>
    /\ UNCHANGED <<document, strategy, page, part, title, first, last, halved>>

\* Without a header the chunks are thrown away, and the window starts over.
FallBack ==
    /\ stage = "read" /\ strategy = "headers" /\ AtEnd /\ body = <<>> /\ ~HasHeaders
    /\ strategy' = "window" /\ page' = 1 /\ part' = 1 /\ first' = 1 /\ last' = 1
    /\ chunks' = <<>>
    /\ UNCHANGED <<document, stage, title, body, halved>>

Finish ==
    /\ stage = "read" /\ AtEnd
    /\ strategy = "headers" => body = <<>> /\ HasHeaders
    /\ stage' = "chunked" /\ chunks' = Emitted(body) /\ body' = <<>>
    /\ UNCHANGED <<document, strategy, page, part, title, first, last, halved>>

ChunkNext ==
    Continue \/ CloseSection \/ OpenSection \/ Widen \/ CutPiece \/ EndSplit \/ FallBack \/ Finish

-----------------------------------------------------------------------------
(***************************************************************************)
(* Properties.                                                             *)
(***************************************************************************)
PagesOf(s) == {s[n].page : n \in DOMAIN s} \ {0}

\* No page between p and q has any text.
NextTo(p, q) ==
    \A r \in (p + 1)..(q - 1) : \A n \in DOMAIN document[r] : document[r][n].text = <<>>

\* The first page f that a piece of the window names is one of its pages, or
\* comes after one.  It is too late by the one page before it when the break
\* between the two was cut in half by the end of the window.
BeginsAt(f, pages) ==
    \E p \in pages : f <= p \/ (f \in halved /\ NextTo(p, f))

\* What a chunk says of its pages is so, as far as the code goes.  No text is
\* from a later page than it names, and its first page is as BeginsAt says; a
\* chunk cut by headers names just its pages.
PagesAreNamed ==
    \A n \in DOMAIN chunks :
        LET c == chunks[n] IN
        /\ \A p \in PagesOf(c.text) : p <= c.last
        /\ IF c.by = "headers" THEN PagesOf(c.text) \subseteq c.first..c.last /\ PagesOf(c.text) # {}
                              ELSE BeginsAt(c.first, PagesOf(c.text))

CharactersOf(s) == {s[n] : n \in Visible(s)}

\* No text is lost: once a document is cut up, a part that is long enough to
\* be a chunk stands in the chunks with every character of it, wherever the
\* cuts fell.  (_emit drops short pieces, so the overlap has to save them.)
TextIsKept ==
    stage = "chunked" =>
        \A p \in DOMAIN document : \A q \in DOMAIN document[p] :
            LET text == document[p][q].text IN
            Len(text) >= MinLength =>
                CharactersOf(Placed(text, p, q))
                    \subseteq UNION {CharactersOf(chunks[n].text) : n \in DOMAIN chunks}

\* No cut leaves the text as long as it was: a document is cut up in the end.
ChunkingEnds == <>(stage = "chunked")

=============================================================================
