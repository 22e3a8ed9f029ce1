---------------------------- MODULE MCWebSession ----------------------------
EXTENDS WebSession, TLC

CONSTANTS t1, t2, page, other, n1, n2

\* One tab makes two calls at a time, the other makes one.
TwoAndOne == (t1 :> {page, other} @@ t2 :> {page})

\* The user signs up and signs in, with the password or another, in the tab that
\* makes one call at a time. The other tab finds the tokens when it starts.
FormsOfOne == (t1 :> {} @@ t2 :> {"login", "register"})

AnyPair == Permutations(Tokens)
=============================================================================
