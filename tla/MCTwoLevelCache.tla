--------------------------- MODULE MCTwoLevelCache ---------------------------
(* Instance of TwoLevelCache for TLC.                                      *)
EXTENDS TwoLevelCache

CONSTANTS c1, c2

MCCallers == {c1, c2}
\* The first version of the value is an empty list.
MCFalsy == {0}
==============================================================================
