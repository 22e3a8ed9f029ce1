----------------------------- MODULE MCProvenance -----------------------------
EXTENDS Provenance

Part(t, text) == [title |-> t, text |-> text]
Bare(text) == <<Part(NoTitle, text)>>

\* Texts that are too short for a chunk, that fit, and that must be cut, with
\* each of the marks to cut at, early and late.  One of Full leaves room for
\* half a break.
Tiny   == <<"a">>
Fits   == <<"a", "b", "c", "d">>
Full   == <<"u", "v", "w", "x", "danda", "y">>
Verses == <<"a", "b", "c", "d", "danda", "e", "f", "danda", "g">>
Lines  == <<"h", "newline", "newline", "i", "j", ".", " ", "k", "l", ".", " ", "m">>
Broken == <<"o", "p", "q", "r", "newline", "newline", "s", "t">>

Texts == {<<>>, Tiny, Fits, Full, Verses, Lines, Broken}

\* Without headers, with a header on the second page, and with a text above
\* the first header of a page.
SomeDocuments ==
    {<<Bare(s), Bare(t)>> : s, t \in Texts} \cup
    {<<Bare(Full), Bare(s), Bare(t)>> : s \in {<<>>, Tiny}, t \in {Fits, Broken}} \cup
    {<<Bare(s), <<Part(NoTitle, <<>>), Part("T", t)>>, Bare(Fits)>> : s, t \in {Tiny, Lines}} \cup
    {<<<<Part(NoTitle, s), Part("T", t)>>, <<Part(NoTitle, u), Part("U", Fits)>>>> :
        s \in {<<>>, Broken}, t \in {<<>>, Verses}, u \in {Tiny, Broken}}

Scene(n, needs, indices) ==
    [number |-> n, needs_citation |-> needs, indices |-> indices, interpretation |-> FALSE]

\* Answers with indices that exist, that are one too far, and that are negative.
SomeReplies ==
    {<<>>, <<Scene(1, TRUE, {}), Scene(2, FALSE, {})>>} \cup
    {<<Scene(1, TRUE, is), Scene(2, TRUE, {0})>> : is \in {{}, {1, 2}, {-1}}}

=============================================================================
