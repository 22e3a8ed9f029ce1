--------------------------- MODULE PipelineStages ---------------------------
(***************************************************************************)
(* The stages of one ingestion run and the progress the pipeline reports   *)
(* for them: IngestionPipeline in                                          *)
(* apps/worker/app/pipelines/ingestion_pipeline.py.  Progress is in        *)
(* permille: the code rounds its fraction to three decimals before it is   *)
(* stored.                                                                 *)
(***************************************************************************)
EXTENDS Integers, Sequences

\* The stages in the order of STAGE_WEIGHTS, which is the order of a run.
STAGES == <<"upload", "ocr", "structure_extract", "chunk",
            "embed", "unit_extract", "graph_build">>

STAGE_WEIGHTS ==
    [upload |-> 20, ocr |-> 350, structure_extract |-> 100, chunk |-> 100,
     embed |-> 200, unit_extract |-> 150, graph_build |-> 80]

Index(stage) == CHOOSE i \in DOMAIN STAGES : STAGES[i] = stage

\* The weights of the stages that come before the i-th.
WeightBefore[i \in DOMAIN STAGES] ==
    IF i = 1 THEN 0 ELSE WeightBefore[i - 1] + STAGE_WEIGHTS[STAGES[i - 1]]

\* round(n / d).  Ties go up here; in the code the float decides.
Rounded(n, d) == (2 * n + d) \div (2 * d)

\* What _update_stage(stage, done / total) stores as the job's progress.
GlobalProgress(stage, done, total) ==
    WeightBefore[Index(stage)] + Rounded(STAGE_WEIGHTS[stage] * done, total)

Started(stage) == <<GlobalProgress(stage, 0, 1)>>
Finished(stage) == <<GlobalProgress(stage, 1, 1)>>
Through(stage) == Started(stage) \o Finished(stage)

\* _stage_unit_extract: one report for each of the n chunks, or, where it is
\* disabled or has no API key, the single report of a skipped stage.
UnitExtractWrites(n, active) ==
    IF active
    THEN Started("unit_extract")
         \o [i \in 1..n |-> GlobalProgress("unit_extract", i, n)]
    ELSE Finished("unit_extract")

\* _stage_graph_build: it is skipped when disabled or when no unit was found.
GraphBuildWrites(active) ==
    IF active THEN Through("graph_build") ELSE Finished("graph_build")

-----------------------------------------------------------------------------
(***************************************************************************)
(* The reports of a whole run, in order.  A PDF run yields no chunks: its  *)
(* OCR, structure and chunk stages are stubs.  It passes over the last two *)
(* stages altogether when extraction is off; a run over a pre-extracted    *)
(* book always enters them, and reports them skipped.                      *)
(***************************************************************************)
PdfWrites(extractUnits, haveKey, buildGraph) ==
    Through("upload") \o Through("ocr") \o Through("structure_extract")
    \o Through("chunk") \o Through("embed")
    \o (IF extractUnits
        THEN UnitExtractWrites(0, haveKey)
             \o (IF buildGraph THEN GraphBuildWrites(FALSE) ELSE <<>>)
        ELSE <<>>)

PreExtractedWrites(chunks, extractUnits, haveKey, buildGraph, foundUnits) ==
    LET extracting == extractUnits /\ haveKey
    IN  Finished("upload") \o Finished("ocr") \o Through("structure_extract")
        \o Through("chunk") \o Through("embed")
        \o UnitExtractWrites(chunks, extracting)
        \o GraphBuildWrites(buildGraph /\ extracting /\ foundUnits)

=============================================================================
