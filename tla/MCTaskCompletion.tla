--------------------------- MODULE MCTaskCompletion ---------------------------
(* Instances of TaskCompletion for TLC.                                    *)
EXTENDS TaskCompletion, TLC

CONSTANTS u1, u2, u3, r1, r2, r3

MCTwoUsers   == {u1, u2}
MCThreeUsers == {u1, u2, u3}
MCTwoRequests   == {r1, r2}
MCThreeRequests == {r1, r2, r3}

\* One request of each user.
MCOneEach == (r1 :> u1) @@ (r2 :> u2) @@ (r3 :> u3)
MCTwoEach == (r1 :> u1) @@ (r2 :> u2)
MCOneOrTwo == {1, 2}
MCNone    == {}

\* Nothing reads what has been announced, nor which answers were exported.
MCView == <<runs, task, results, rowLocks, scheduler, pc, draft, owner>>
==============================================================================
