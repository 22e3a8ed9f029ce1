------------------------------ MODULE Provenance ------------------------------
(***************************************************************************)
(* From the pages of a book to the pages that a script cites: a document   *)
(* is cut into chunks (Chunker), the chunks are embedded and become points *)
(* of the collection (IngestionPipeline._embed_and_upsert), and a video    *)
(* package is generated from what a search finds there (VideoPackages).    *)
(* A request may come before, during and after the ingestion.              *)
(***************************************************************************)
EXTENDS Chunker, VideoPackages

VARIABLE indexed   \* whether the chunks are "not yet", "done" or "failed" to be points

vars == <<chunkVars, points, requestVars, indexed>>

\* Points are named for their text: chunks with one text are one point.
TextOf(s) == [n \in DOMAIN s |-> s[n].ch]

\* The payload has no text.  Among chunks of one text the last one prevails.
PointOf(n) == [id |-> TextOf(chunks[n].text), first |-> chunks[n].first, last |-> chunks[n].last]

Points ==
    {PointOf(n) : n \in {m \in DOMAIN chunks :
        \A k \in DOMAIN chunks : k > m => PointOf(k).id # PointOf(m).id}}

IndexChunks ==
    /\ stage = "chunked" /\ indexed = "not yet"
    /\ points' = Points /\ indexed' = "done"
    /\ UNCHANGED <<chunkVars, requestVars>>

EmbeddingFails ==
    /\ stage = "chunked" /\ indexed = "not yet"
    /\ indexed' = "failed"
    /\ UNCHANGED <<chunkVars, points, requestVars>>

Init == ChunkInit /\ PackagesInit /\ points = {} /\ indexed = "not yet"

Ingestion ==
    \/ ChunkNext /\ UNCHANGED <<points, requestVars, indexed>>
    \/ IndexChunks \/ EmbeddingFails

Next == Ingestion \/ (PackagesNext /\ UNCHANGED <<chunkVars, indexed>>)

\* The worker goes on with a run it has begun; nothing is asked of requests.
Spec == Init /\ [][Next]_vars /\ WF_vars(Ingestion)

-----------------------------------------------------------------------------
(***************************************************************************)
(* Properties.                                                             *)
(***************************************************************************)
TypeOK ==
    /\ stage \in {"read", "split", "chunked"} /\ strategy \in {"headers", "window"}
    /\ page \in 1..(Len(document) + 1) /\ first \in 1..last /\ last \in 1..Len(document)
    /\ stage = "read" /\ strategy = "window" => Len(body) < MaxChars
    /\ \A n \in DOMAIN chunks : Len(chunks[n].text) \in MinLength..MaxChars
    /\ indexed \in {"not yet", "done", "failed"}
    /\ phase \in Phases /\ mode \in RepairModes
    /\ phase \in {"created", "deleted"} <=> Exists
    /\ Len(evidence) <= TopK

\* The prompt's [CHUNK-i], counted from 0.
Prompt == [i \in 0..(Len(evidence) - 1) |-> evidence[i + 1]]

\* A reader of a script who follows one of its citations gets to a chunk that
\* the model was shown under a number it gave, and finds the text on the pages
\* that the citation names: nowhere else for a chunk cut by headers, and as
\* near as BeginsAt says for one cut from the window.
CitationsHold ==
    Exists => \A k \in DOMAIN package.scenes : \A ref \in package.evidence_map[k] :
        /\ \E i \in package.scenes[k].indices \cap DOMAIN Prompt : Prompt[i] = ref
        /\ \E n \in DOMAIN chunks :
            LET pages == PagesOf(chunks[n].text) IN
            /\ ref.id = TextOf(chunks[n].text)
            /\ \A p \in pages : p <= ref.last
            /\ IF chunks[n].by = "headers" THEN pages \subseteq ref.first..ref.last /\ pages # {}
                                           ELSE BeginsAt(ref.first, pages)

=============================================================================
