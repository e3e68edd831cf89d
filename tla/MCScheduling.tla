---------------------------- MODULE MCScheduling ----------------------------
EXTENDS Scheduling, TLC

CONSTANTS u1, u2, s1, s2, s3, t1, t2, c1, c2

\* The first user has two tabs, the second one.
TwoTabsAndOne == s1 :> u1 @@ s2 :> u1 @@ s3 :> u2

\* Three tabs of one user.
ThreeTabs == s1 :> u1 @@ s2 :> u1 @@ s3 :> u1

\* Tabs of the same user, tasks and categories change places.
Swaps(a, b) == {a :> a @@ b :> b, a :> b @@ b :> a}
Symmetry ==
  {p @@ q @@ r : p \in Swaps(s1, s2), q \in Swaps(t1, t2), r \in Swaps(c1, c2)}
TabSymmetry == {p @@ q : p \in Permutations({s1, s2, s3}), q \in Swaps(t1, t2)}
=============================================================================
