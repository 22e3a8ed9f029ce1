----------------------------- MODULE MCJobEvents -----------------------------
EXTENDS JobEvents, TLC

CONSTANTS s1, w1, w2

=============================================================================
