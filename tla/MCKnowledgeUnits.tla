--------------------------- MODULE MCKnowledgeUnits ---------------------------
EXTENDS KnowledgeUnits, TLC

CONSTANTS u1, u2, u3, i1, i2, e1, e2

Content(status, subject) == "status" :> status @@ "subject" :> subject

\* A run inserts two units, a run over another book one.
TwoRuns == i1 :> {u1, u2} @@ i2 :> {u3}

ToReview == [u \in {u1, u2, u3} |-> Content("needs_review", "rice")]

Item(u, patch) == [unit |-> u, patch |-> patch]
Bulk(us, status) == [n \in DOMAIN us |-> Item(us[n], "status" :> status)]

\* Bulk updates in both orders, and an edit that leaves the status as it was.
SomeRequests ==
    {Bulk(<<u1, u2>>, "approved"), Bulk(<<u2, u1>>, "rejected"),
     <<Item(u1, Content("needs_review", "paddy"))>>}

=============================================================================
