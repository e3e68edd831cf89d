---------------------------- MODULE MCProjectSync ----------------------------
EXTENDS ProjectSync, TLC

\* No definition tells requests apart.
Symmetry == Permutations(Workers)
==============================================================================
