----------------------------- MODULE MCStartUp -----------------------------
EXTENDS StartUp

CONSTANTS p1, p2

\* An upgrade: one binary is older than the other.
OldAndNew == [p \in Processes |-> IF p = p1 THEN 9 ELSE 12]

=============================================================================
