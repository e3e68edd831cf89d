-------------------------- MODULE MCProjectDocument --------------------------
EXTENDS ProjectDocument, TLC

\* No definition tells requests apart, nor users.
Symmetry == Permutations(Requests) \cup Permutations(Users)
==============================================================================
