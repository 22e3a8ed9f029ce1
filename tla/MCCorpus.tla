------------------------------ MODULE MCCorpus ------------------------------
EXTENDS Corpus

CONSTANTS b1, b2

\* A book of two parts of a page each, and one of a page.
TwoAndOne == [b \in {b1, b2} |-> IF b = b1 THEN 2 ELSE 1]

\* The first page of the longer book makes no chunk by itself.
FirstOfTwo == [b \in {b1, b2} |-> IF b = b1 THEN {1} ELSE {}]
=============================================================================
