---------------------------- MODULE MCLockManager ----------------------------
(* Instances of LockManager for TLC.                                       *)
EXTENDS LockManager, TLC

CONSTANTS c1, c2, w1, w2

MCOneClient   == {c1}
MCTwoClients  == {c1, c2}
MCOneWorker   == {w1}
MCTwoWorkers  == {w1, w2}

MCSymmetry == Permutations(MCTwoClients) \cup Permutations(MCTwoWorkers)
==============================================================================
