--------------------------- MODULE MCIngestionJobs ---------------------------
EXTENDS IngestionJobs, PipelineStages, TLC

CONSTANTS u1, u2, b1, b2, j1, j2, j3, w1, w2

OwnerOne == (b1 :> u1)
OwnerTwo == (b1 :> u1 @@ b2 :> u2)

\* The reports of one stage, of two, and of a whole run over a PDF.
OneReport == Finished("embed")
TwoStages == Finished("embed") \o UnitExtractWrites(2, TRUE)
PdfRun == PdfWrites(TRUE, TRUE, TRUE)

AnyWorker == Permutations(Workers)

\* Whatever is switched on and however many chunks there are, the reports of
\* a whole run never fall, and they are what StageWrites may be.
Rises(writes) ==
    /\ writes \in Seq(Permille)
    /\ \A i \in 1..(Len(writes) - 1) : writes[i] <= writes[i + 1]

ASSUME WholeRunsRise ==
    \A units, key, graph, found \in BOOLEAN, n \in 0..7 :
        /\ Rises(PdfWrites(units, key, graph))
        /\ Rises(PreExtractedWrites(n, units, key, graph, found))

=============================================================================
