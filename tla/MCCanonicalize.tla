---------------------------- MODULE MCCanonicalize ----------------------------
EXTENDS Canonicalize, TLC

CONSTANTS b1, b2, t1, t2, dung, shen, gomaya, dungEn, dungMr, dungSa, soilEn

\* Two books that disagree on the label of the concept they share, and name
\* another one each, which are near to each other.
Relabelled ==
    b1 :> (dung :> soilEn @@ shen :> dungMr   @@ gomaya :> NoLabel)
 @@ b2 :> (dung :> dungEn @@ shen :> NoLabel @@ gomaya :> dungSa)

Both(x, y) == {<<x, y>>, <<y, x>>}

AllNear == Both(dungEn, dungMr) \cup Both(dungEn, dungSa) \cup Both(dungMr, dungSa)

TwoDeliveries == t1 :> b1 @@ t2 :> b2

=============================================================================
