--------------------------- MODULE MCKnowledgeStore ---------------------------
EXTENDS KnowledgeStore, TLC

CONSTANTS b1, b2, r1, r2, r3, c1, c2, c3, rice, soil, Crop, Soil, NoObject

Finding(kind, subject, domain, object, texts) ==
    [kind |-> kind, subject |-> subject, domain |-> domain, object |-> object,
     relType |-> IF kind = "claim" THEN "IMPROVES" ELSE "", lang |-> "en", steps |-> texts]

RiceNeedsSoil  == Finding("claim", rice, Crop, soil, <<>>)
SoilHelpsRice  == Finding("claim", soil, "Concept", rice, <<>>)
SoilDefined    == Finding("definition", soil, Soil, NoObject, <<>>)
NothingDefined == Finding("definition", NoKey, "Concept", NoObject, <<>>)
ShortSowing    == Finding("process", rice, Crop, NoObject, <<"sow">>)
LongSowing     == Finding("process", rice, Crop, NoObject, <<"plough", "sow">>)

AllFindings ==
    {RiceNeedsSoil, SoilHelpsRice, SoilDefined, NothingDefined, ShortSowing, LongSowing}

\* One book is found to hold claims and processes, the other one shares a
\* chunk's text with it.
TwoBooks == (b1 :> <<c1, c2, c3>> @@ b2 :> <<c2>>)

Answers == (c1 :> {<<RiceNeedsSoil, LongSowing>>, <<SoilHelpsRice, NothingDefined>>}
         @@ c2 :> {<<SoilDefined, ShortSowing>>, <<SoilHelpsRice, SoilHelpsRice>>}
         @@ c3 :> {<<RiceNeedsSoil>>})

AnyRun == Permutations(Runs)

=============================================================================
