----------------------------- MODULE VideoPackages -----------------------------
(***************************************************************************)
(* A request for a video package: GenerateVideoPackageUsecase.execute, from *)
(* the evidence it retrieves through what the model answers to the package *)
(* it stores, and what may happen to the package later.                    *)
(*                                                                         *)
(* Retrieval and generation are calls to other services, and what they     *)
(* return is any answer they can give; between them the collection of      *)
(* points may change.  The package and its snapshot are of one transaction. *)
(***************************************************************************)
EXTENDS Integers, Sequences, FiniteSets

CONSTANTS
    TopK,      \* the most chunks a search returns
    Replies    \* what the model may answer, see IsReply

RepairModes == {"remove_paragraph", "label_interpretation", "fail_generation"}

\* A scene says whether it needs a citation and lists indices into the
\* evidence, which the code does not trust. The number is its place.
Scenes ==
    [number : Nat, needs_citation : BOOLEAN, indices : SUBSET Int, interpretation : BOOLEAN]
IsReply(r) == r \in Seq(Scenes) /\ \A n \in DOMAIN r : r[n].number = n

ASSUME PackagesAssumption == TopK \in Nat \ {0} /\ \A r \in Replies : IsReply(r)

VARIABLES
    points,    \* the collection: the payloads that a search may return
    phase,     \* of the request
    mode, filtered,   \* its citation_repair_mode, and whether it names books
    evidence,  \* what was retrieved, best first
    reply,     \* what the model answered
    package    \* the row, with its snapshot, or NoPackage

requestVars == <<phase, mode, filtered, evidence, reply, package>>

NoPackage == <<>>

Phases == {"idle", "retrieving", "generating", "saving", "created", "failed", "deleted"}

PackagesInit ==
    /\ phase = "idle" /\ mode = "fail_generation" /\ filtered = FALSE
    /\ evidence = <<>> /\ reply = <<>> /\ package = NoPackage

-----------------------------------------------------------------------------
(***************************************************************************)
(* From the answer to the package.                                         *)
(***************************************************************************)
Unsupported(scene) == scene.needs_citation /\ scene.indices = {}

\* A faulty form: all scenes without indices go.
RepairedCitedOnly ==
    IF mode = "remove_paragraph" THEN SelectSeq(reply, LAMBDA s : s.indices # {}) ELSE reply

\* The scenes that stay when those without the evidence they need are removed.
Supported(scenes) ==
    LET result[n \in 0..Len(scenes)] ==
            IF n = 0 THEN <<>>
            ELSE IF Unsupported(scenes[n]) THEN result[n - 1]
            ELSE Append(result[n - 1], scenes[n])
    IN  result[Len(scenes)]

\* _apply_needs_citation_policy, in the modes that let the generation go on.
Repaired ==
    IF mode = "remove_paragraph" THEN Supported(reply)
    ELSE [n \in DOMAIN reply |->
             IF Unsupported(reply[n]) THEN [reply[n] EXCEPT !.interpretation = TRUE]
             ELSE reply[n]]

Warnings == {n \in DOMAIN reply : Unsupported(reply[n])}

\* A faulty form: the evidence is numbered from the end.
ShownReversed(hits, i) == hits[Len(hits) - i]

\* The evidence is numbered from 0, in the prompt and in what is answered.
Shown(hits, i) == hits[i + 1]

InRange(hits, i) == 0 <= i /\ i < Len(hits)

\* _build_evidence_map: what does not exist is left out.
Refs(scene) == {Shown(evidence, i) : i \in {k \in scene.indices : InRange(evidence, k)}}

EvidenceMap(scenes) == [n \in DOMAIN scenes |-> Refs(scenes[n])]

\* _build_citations_report; the coverage is supported over total.
Report(map) ==
    LET supported == {n \in DOMAIN map : map[n] # {}}
    IN  [total |-> Len(map), supported |-> Cardinality(supported),
         cited |-> {h.id : h \in UNION {map[n] : n \in DOMAIN map}}]

-----------------------------------------------------------------------------
(***************************************************************************)
(* The request.                                                            *)
(***************************************************************************)
Generate(m, byBook) ==
    /\ phase = "idle" /\ phase' = "retrieving"
    /\ mode' = m /\ filtered' = byBook
    /\ UNCHANGED <<points, evidence, reply, package>>

\* The nearest points, in whatever order their vectors put them.
Nearest ==
    LET k == IF Cardinality(points) < TopK THEN Cardinality(points) ELSE TopK
    IN  {hits \in [1..k -> points] : \A m, n \in 1..k : hits[m] = hits[n] => m = n}

\* An empty result is refused when the request names its books.
Retrieve ==
    /\ phase = "retrieving"
    /\ evidence' \in Nearest
    /\ phase' = IF evidence' = <<>> /\ filtered THEN "failed" ELSE "generating"
    /\ UNCHANGED <<points, mode, filtered, reply, package>>

\* The search or the model fails, or the answer cannot be read.
ServiceFails ==
    /\ phase \in {"retrieving", "generating"}
    /\ phase' = "failed"
    /\ UNCHANGED <<points, mode, filtered, evidence, reply, package>>

\* An answer without scenes is refused, and in the strictest mode one with a
\* scene that lacks the citation it needs.
Answer(scenes) ==
    /\ phase = "generating"
    /\ reply' = scenes
    /\ phase' = IF \/ scenes = <<>>
                   \/ mode = "fail_generation" /\ \E n \in DOMAIN scenes : Unsupported(scenes[n])
                THEN "failed" ELSE "saving"
    /\ UNCHANGED <<points, mode, filtered, evidence, package>>

Save ==
    /\ phase = "saving" /\ phase' = "created"
    /\ LET map == EvidenceMap(Repaired)
       IN  package' = [scenes |-> Repaired, evidence_map |-> map,
                       report |-> Report(map), warnings |-> Warnings]
    /\ UNCHANGED <<points, mode, filtered, evidence, reply>>

\* The transaction is rolled back.
SaveFails ==
    /\ phase = "saving" /\ phase' = "failed"
    /\ UNCHANGED <<points, mode, filtered, evidence, reply, package>>

\* soft_delete hides the row and leaves it in place.
Delete ==
    /\ phase = "created" /\ phase' = "deleted"
    /\ UNCHANGED <<points, mode, filtered, evidence, reply, package>>

PackagesNext ==
    \/ \E m \in RepairModes, byBook \in BOOLEAN : Generate(m, byBook)
    \/ Retrieve \/ ServiceFails
    \/ \E scenes \in Replies : Answer(scenes)
    \/ Save \/ SaveFails \/ Delete

-----------------------------------------------------------------------------
(***************************************************************************)
(* Properties.                                                             *)
(***************************************************************************)
Exists == package # NoPackage

\* Every scene that was answered is accounted for in the package, in order:
\* it cites a chunk that the prompt showed, or it is named in a warning, or
\* the answer made up all that it refers to, or claims to need nothing.  Only
\* scenes named in a warning are missing.  (Section 9.2's policy; nothing of
\* a script is to disappear silently.)
ScenesAreAccounted ==
    Exists =>
        /\ \A n \in DOMAIN reply :
            \/ n \in package.warnings
            \/ ~reply[n].needs_citation
            \/ \A i \in reply[n].indices : ~InRange(evidence, i)
            \/ \E k \in DOMAIN package.scenes :
                   package.scenes[k] = reply[n] /\ package.evidence_map[k] # {}
        /\ {s.number : s \in {reply[n] : n \in DOMAIN reply \ package.warnings}}
               \subseteq {package.scenes[k].number : k \in DOMAIN package.scenes}
        /\ \A k, l \in DOMAIN package.scenes :
               k < l => package.scenes[k].number < package.scenes[l].number

=============================================================================
