------------------------- MODULE Scheduling_proofs -------------------------
(***************************************************************************)
(* Theorems about Scheduling for every set of users, tasks and categories, *)
(* any number of tabs of each user, of requests and of failures.           *)
(***************************************************************************)
EXTENDS Scheduling, FiniteSetTheorems, TLAPS

USE SchedulingConstants

-----------------------------------------------------------------------------
(* Type correctness.                                                       *)

LEMMA TypeInit == Init => TypeOK
BY DEF Init, TypeOK, Steps, Reasons

LEMMA ShortenType ==
  ASSUME TypeOK, NEW u \in Users, NEW tasks, Shorten(u, tasks)
  PROVE  resv' \in [Users -> [Tasks -> {"none", "ending", "set"}]]
<1>1. [t \in Tasks |-> IF t \in tasks /\ resv[u][t] # "none" THEN "ending" ELSE resv[u][t]]
        \in [Tasks -> {"none", "ending", "set"}]
  BY DEF TypeOK
<1>2. QED
  BY <1>1 DEF Shorten, TypeOK

LEMMA FinishType ==
  ASSUME TypeOK, NEW s \in Sessions, Finish(s)
  PROVE  /\ pc' \in [Sessions -> Steps] /\ why' \in [Sessions -> Reasons]
         /\ at' \in [Sessions -> SUBSET Tasks] /\ rows' \in [Sessions -> SUBSET Tasks]
         /\ seen' \in [Sessions -> SUBSET Tasks]
         /\ unseen' \in [Sessions -> SUBSET Categories]
BY DEF TypeOK, Finish, Goto, Steps, Reasons

LEMMA TypeStep == TypeOK /\ [Next]_vars => TypeOK'
<1> SUFFICES ASSUME TypeOK, [Next]_vars PROVE TypeOK'
  OBVIOUS
<1> USE DEF TypeOK, Goto, tables, request, history, Steps, Reasons
<1>1. ASSUME NEW s \in Sessions, NEW p \in BOOLEAN, AskOwn(s, p) PROVE TypeOK'
  BY <1>1 DEF AskOwn, Searches, Begin, Found, OwnTasks, ReservedByOthers, CategoriesOf
<1>2. ASSUME NEW s \in Sessions, NEW p \in BOOLEAN, AskInVain(s, p) PROVE TypeOK'
  BY <1>2 DEF AskInVain, Searches, Begin, Own
<1>3. ASSUME NEW s \in Sessions, GiveUp(s) PROVE TypeOK'
  <2>1. resv' \in [Users -> [Tasks -> {"none", "ending", "set"}]]
    BY <1>3, ShortenType DEF GiveUp
  <2>2. QED
    BY <1>3, <2>1 DEF GiveUp
<1>4. ASSUME NEW s \in Sessions, AskOthers(s) PROVE TypeOK'
  <2>1. CASE Finish(s)
    BY <1>4, <2>1, FinishType DEF AskOthers
  <2>2. CASE ~Finish(s)
    BY <1>4, <2>2 DEF AskOthers, Found, FreeTasks
  <2>3. QED
    BY <2>1, <2>2
<1>5. ASSUME NEW s \in Sessions, NEW t \in Tasks, TakeLock(s, t) PROVE TypeOK'
  BY <1>5 DEF TakeLock, LockFor
<1>6. ASSUME NEW s \in Sessions, NEW t \in Tasks, NextRow(s, t) PROVE TypeOK'
  <2>1. CASE Finish(s)
    BY <1>6, <2>1 DEF NextRow, Finish
  <2>2. CASE ~Finish(s)
    <3>1. rows' = [rows EXCEPT ![s] = rows[s] \ {t}]
      BY <1>6, <2>2, Zenon DEF NextRow
    <3>2. UNCHANGED <<category, sent, done, tables, parted, missed, pc, why, at, seen,
                     unseen>>
      BY <1>6, <2>2, Zenon DEF NextRow
    <3>3. QED
      BY <3>1, <3>2
  <2>3. QED
    BY <2>1, <2>2
<1>7. ASSUME NEW s \in Sessions, NEW t \in Tasks, LockDirectly(s, t) PROVE TypeOK'
  BY <1>7 DEF LockDirectly, Begin, LockFor, ReservedByOthers
<1>8. ASSUME NEW s \in Sessions, NEW t \in Tasks, Cancel(s, t) PROVE TypeOK'
  BY <1>8 DEF Cancel, BeginRelease, Begin
<1>9. ASSUME NEW s \in Sessions, NEW t \in Tasks, Submit(s, t) PROVE TypeOK'
  BY <1>9 DEF Submit, BeginRelease, Begin
<1>10. ASSUME NEW s \in Sessions, NEW t \in Tasks, ReleaseCategory(s, t) PROVE TypeOK'
  BY <1>10 DEF ReleaseCategory, BeginRelease, Begin, Part
<1>11. ASSUME NEW s \in Sessions, IndexLock(s) PROVE TypeOK'
  BY <1>11 DEF IndexLock, Indexed
<1>12. ASSUME NEW s \in Sessions, Reserve(s) PROVE TypeOK'
  BY <1>12 DEF Reserve, CategoriesOf
<1>13. ASSUME NEW s \in Sessions, Register(s) PROVE TypeOK'
  BY <1>13 DEF Register, Finish
<1>14. ASSUME NEW s \in Sessions, LookForOthers(s) PROVE TypeOK'
  BY <1>14 DEF LookForOthers
<1>15. ASSUME NEW s \in Sessions, Unregister(s) PROVE TypeOK'
  BY <1>15 DEF Unregister
<1>16. ASSUME NEW s \in Sessions, ReleaseLock(s) PROVE TypeOK'
  <2>1. lock' \in [Users -> [Tasks -> {"none", "ending", "held"}]]
    <3>1. [t \in Tasks |-> IF t \in at[s] THEN "ending" ELSE lock[By[s]][t]]
            \in [Tasks -> {"none", "ending", "held"}]
      OBVIOUS
    <3>2. QED
      BY <1>16, <3>1 DEF ReleaseLock
  <2>2. index' \in [Users -> [Tasks -> {"none", "stale", "ending", "held"}]]
    <3>1. [t \in Tasks |-> IF t \in at[s] THEN "ending" ELSE index[By[s]][t]]
            \in [Tasks -> {"none", "stale", "ending", "held"}]
      OBVIOUS
    <3>2. QED
      BY <1>16, <3>1 DEF ReleaseLock
  <2>3. CASE Finish(s)
    BY <1>16, <2>1, <2>2, <2>3, FinishType DEF ReleaseLock
  <2>4. CASE ~Finish(s)
    BY <1>16, <2>1, <2>2, <2>4 DEF ReleaseLock, AfterRelease
  <2>5. QED
    BY <2>3, <2>4
<1>17. ASSUME NEW s \in Sessions, ReadLocked(s) PROVE TypeOK'
  BY <1>17 DEF ReadLocked
<1>18. ASSUME NEW s \in Sessions, ExpireReservations(s) PROVE TypeOK'
  <2>1. resv' \in [Users -> [Tasks -> {"none", "ending", "set"}]]
    BY <1>18, ShortenType DEF ExpireReservations
  <2>2. CASE Finish(s)
    BY <1>18, <2>1, <2>2, FinishType DEF ExpireReservations
  <2>3. CASE ~Finish(s)
    BY <1>18, <2>1, <2>3 DEF ExpireReservations
  <2>4. QED
    BY <2>2, <2>3
<1>19. ASSUME NEW s \in Sessions, Commit(s) PROVE TypeOK'
  BY <1>19 DEF Commit, Finish
<1>20. ASSUME NEW s \in Sessions, Signout(s) PROVE TypeOK'
  BY <1>20 DEF Signout, BeginRelease, Begin
<1>21. ASSUME NEW s \in Sessions, Die(s) PROVE TypeOK'
  BY <1>21 DEF Die, Part, Finish
<1>22. ASSUME NEW u \in Users, NEW t \in Tasks, NEW w \in Clocks, RunDown(u, t, w) PROVE TypeOK'
  BY <1>22 DEF RunDown, Together, Part
<1>23. ASSUME NEW u \in Users, NEW t \in Tasks, NEW w \in Clocks, RunOut(u, t, w) PROVE TypeOK'
  BY <1>23 DEF RunOut, Together, Part
<1>24. ASSUME NEW u \in Users, NEW t \in Tasks, ReservationEnds(u, t) PROVE TypeOK'
  BY <1>24 DEF ReservationEnds
<1>25. ASSUME NEW u \in Users, DropIndex(u) PROVE TypeOK'
  BY <1>25 DEF DropIndex
<1>26. ASSUME NEW u \in Users, ActiveEnds(u) PROVE TypeOK'
  BY <1>26 DEF ActiveEnds
<1>27. CASE UNCHANGED vars
  BY <1>27 DEF vars
<1>28. ASSUME NEW s \in Sessions, Serve(s) PROVE TypeOK'
  <2> HIDE DEF TypeOK, Goto, tables, request, history, Steps, Reasons
  <2>1. QED
    BY <1>28, <1>1, <1>2, <1>3, <1>4, <1>5, <1>6, <1>7, <1>8, <1>9, <1>10, <1>11,
       <1>12, <1>13, <1>14, <1>15, <1>16, <1>17, <1>18, <1>19, <1>20, <1>21, Zenon DEF Serve
<1>29. CASE TimePasses
  <2> HIDE DEF TypeOK, Goto, tables, request, history, Steps, Reasons
  <2>1. QED
    BY <1>29, <1>22, <1>23, <1>24, <1>25, <1>26, Zenon DEF TimePasses
<1>30. QED
  BY <1>27, <1>28, <1>29, Zenon DEF Next

\* Type correctness: every command leaves the tables and the requests in range.
THEOREM TypeCorrect == Spec => []TypeOK
BY TypeInit, TypeStep, PTL DEF Spec

-----------------------------------------------------------------------------
(* The lock and the index entry agree, but for the moment in between.      *)

InStep(u, t) ==
  /\ lock[u][t] = "held" <=> index[u][t] = "held"
  /\ lock[u][t] = "ending" <=> index[u][t] = "ending"

InStepInv ==
  \A u \in Users, t \in Tasks :
    <<u, t>> \notin parted =>
      IF During(u, t, {"index"})
        THEN \/ lock[u][t] = "ending" /\ index[u][t] = "ending"
             \/ lock[u][t] = "held" /\ index[u][t] # "ending"
        ELSE InStep(u, t)

LEMMA InStepInit == Init => InStepInv
BY DEF Init, InStepInv, InStep, During

LEMMA InStepStep ==
  ASSUME TypeOK, InStepInv, [Next]_vars
  PROVE  InStepInv'
<1> USE DEF TypeOK, Goto, tables, request, history, InStepInv, InStep, During
<1>1. ASSUME NEW s \in Sessions, NEW p \in BOOLEAN, AskOwn(s, p) PROVE InStepInv'
  BY <1>1 DEF AskOwn, Searches, Begin, Found
<1>2. ASSUME NEW s \in Sessions, NEW p \in BOOLEAN, AskInVain(s, p) PROVE InStepInv'
  BY <1>2 DEF AskInVain, Searches, Begin
<1>3. ASSUME NEW s \in Sessions, GiveUp(s) PROVE InStepInv'
  BY <1>3 DEF GiveUp, Shorten
<1>4. ASSUME NEW s \in Sessions, AskOthers(s) PROVE InStepInv'
  <2>1. CASE Finish(s)
    BY <1>4, <2>1 DEF AskOthers, Finish
  <2>2. CASE ~Finish(s)
    BY <1>4, <2>2 DEF AskOthers, Found
  <2>3. QED
    BY <2>1, <2>2
<1>5. ASSUME NEW s \in Sessions, NEW t \in Tasks, TakeLock(s, t) PROVE InStepInv'
  BY <1>5 DEF TakeLock, LockFor
<1>6. ASSUME NEW s \in Sessions, NEW t \in Tasks, NextRow(s, t) PROVE InStepInv'
  <2>1. CASE Finish(s)
    BY <1>6, <2>1 DEF NextRow, Finish
  <2>2. CASE ~Finish(s)
    BY <1>6, <2>2 DEF NextRow
  <2>3. QED
    BY <2>1, <2>2
<1>7. ASSUME NEW s \in Sessions, NEW t \in Tasks, LockDirectly(s, t) PROVE InStepInv'
  BY <1>7 DEF LockDirectly, Begin, LockFor
<1>8. ASSUME NEW s \in Sessions, NEW t \in Tasks, Cancel(s, t) PROVE InStepInv'
  BY <1>8 DEF Cancel, BeginRelease, Begin
<1>9. ASSUME NEW s \in Sessions, NEW t \in Tasks, Submit(s, t) PROVE InStepInv'
  BY <1>9 DEF Submit, BeginRelease, Begin
<1>10. ASSUME NEW s \in Sessions, NEW t \in Tasks, ReleaseCategory(s, t) PROVE InStepInv'
  BY <1>10 DEF ReleaseCategory, BeginRelease, Begin, Part
<1>11. ASSUME NEW s \in Sessions, IndexLock(s) PROVE InStepInv'
  BY <1>11 DEF IndexLock, Indexed
<1>12. ASSUME NEW s \in Sessions, Reserve(s) PROVE InStepInv'
  BY <1>12 DEF Reserve
<1>13. ASSUME NEW s \in Sessions, Register(s) PROVE InStepInv'
  BY <1>13 DEF Register, Finish
<1>14. ASSUME NEW s \in Sessions, LookForOthers(s) PROVE InStepInv'
  BY <1>14 DEF LookForOthers
<1>15. ASSUME NEW s \in Sessions, Unregister(s) PROVE InStepInv'
  BY <1>15 DEF Unregister
<1>16. ASSUME NEW s \in Sessions, ReleaseLock(s) PROVE InStepInv'
  <2>1. CASE Finish(s)
    BY <1>16, <2>1 DEF ReleaseLock, AfterRelease, Finish
  <2>2. CASE ~Finish(s)
    BY <1>16, <2>2 DEF ReleaseLock, AfterRelease
  <2>3. QED
    BY <2>1, <2>2
<1>17. ASSUME NEW s \in Sessions, ReadLocked(s) PROVE InStepInv'
  BY <1>17 DEF ReadLocked
<1>18. ASSUME NEW s \in Sessions, ExpireReservations(s) PROVE InStepInv'
  <2>1. CASE Finish(s)
    BY <1>18, <2>1 DEF ExpireReservations, Finish
  <2>2. CASE ~Finish(s)
    BY <1>18, <2>2 DEF ExpireReservations
  <2>3. QED
    BY <2>1, <2>2
<1>19. ASSUME NEW s \in Sessions, Commit(s) PROVE InStepInv'
  BY <1>19 DEF Commit, Finish
<1>20. ASSUME NEW s \in Sessions, Signout(s) PROVE InStepInv'
  BY <1>20 DEF Signout, BeginRelease, Begin
<1>21. ASSUME NEW s \in Sessions, Die(s) PROVE InStepInv'
  BY <1>21 DEF Die, Part, Finish
<1>22. ASSUME NEW u \in Users, NEW t \in Tasks, NEW w \in Clocks, RunDown(u, t, w) PROVE InStepInv'
  <2>1. CASE During(u, t, {"index"})
    <3>1. parted' = parted \cup {<<u, t>>}
      BY <1>22, <2>1 DEF RunDown, Together, Part
    <3>2. QED
      BY <1>22, <3>1 DEF RunDown
  <2>2. CASE ~During(u, t, {"index"})
    <3>1. parted' = parted
      BY <1>22, <2>2 DEF RunDown, Together, Part
    <3>2. w = {"lock", "index"} \/ <<u, t>> \in parted
      BY <1>22 DEF RunDown, Together
    <3>3. CASE <<u, t>> \in parted
      <4>1. ASSUME NEW v \in Users, NEW x \in Tasks, <<v, x>> \notin parted
            PROVE  lock'[v][x] = lock[v][x] /\ index'[v][x] = index[v][x]
        BY <1>22, <3>3, <4>1 DEF RunDown
      <4>2. UNCHANGED <<pc, at>>
        BY <1>22 DEF RunDown
      <4>3. QED
        BY <3>1, <4>1, <4>2
    <3>4. CASE <<u, t>> \notin parted
      BY <1>22, <2>2, <3>1, <3>2, <3>4 DEF RunDown
    <3>5. QED
      BY <3>3, <3>4
  <2>3. QED
    BY <2>1, <2>2
<1>23. ASSUME NEW u \in Users, NEW t \in Tasks, NEW w \in Clocks, RunOut(u, t, w) PROVE InStepInv'
  <2>1. CASE During(u, t, {"index"})
    <3>1. parted' = parted \cup {<<u, t>>}
      BY <1>23, <2>1 DEF RunOut, Together, Part
    <3>2. QED
      BY <1>23, <3>1 DEF RunOut
  <2>2. CASE ~During(u, t, {"index"})
    <3>1. parted' = parted
      BY <1>23, <2>2 DEF RunOut, Together, Part
    <3>2. w = {"lock", "index"} \/ <<u, t>> \in parted
      BY <1>23 DEF RunOut, Together
    <3>3. CASE <<u, t>> \in parted
      <4>1. ASSUME NEW v \in Users, NEW x \in Tasks, <<v, x>> \notin parted
            PROVE  lock'[v][x] = lock[v][x] /\ index'[v][x] = index[v][x]
        BY <1>23, <3>3, <4>1 DEF RunOut
      <4>2. UNCHANGED <<pc, at>>
        BY <1>23 DEF RunOut
      <4>3. QED
        BY <3>1, <4>1, <4>2
    <3>4. CASE <<u, t>> \notin parted
      BY <1>23, <2>2, <3>1, <3>2, <3>4 DEF RunOut
    <3>5. QED
      BY <3>3, <3>4
  <2>3. QED
    BY <2>1, <2>2
<1>24. ASSUME NEW u \in Users, NEW t \in Tasks, ReservationEnds(u, t) PROVE InStepInv'
  BY <1>24 DEF ReservationEnds
<1>25. ASSUME NEW u \in Users, DropIndex(u) PROVE InStepInv'
  <2>1. UNCHANGED <<lock, parted, pc, at>>
    BY <1>25 DEF DropIndex
  <2>2. \A v \in Users, x \in Tasks :
          \/ index'[v][x] = index[v][x]
          \/ index[v][x] \in {"none", "stale"} /\ index'[v][x] = "none"
    BY <1>25 DEF DropIndex
  <2>3. \A v \in Users, x \in Tasks : During(v, x, {"index"})' <=> During(v, x, {"index"})
    BY <2>1
  <2> HIDE DEF During
  <2>4. SUFFICES ASSUME NEW v \in Users, NEW x \in Tasks, <<v, x>> \notin parted
                 PROVE  IF During(v, x, {"index"})
                          THEN \/ lock[v][x] = "ending" /\ index'[v][x] = "ending"
                               \/ lock[v][x] = "held" /\ index'[v][x] # "ending"
                          ELSE InStep(v, x)'
    BY <2>1, <2>3
  <2>5. QED
    BY <2>1, <2>2, <2>4
<1>26. ASSUME NEW u \in Users, ActiveEnds(u) PROVE InStepInv'
  BY <1>26 DEF ActiveEnds
<1>27. CASE UNCHANGED vars
  BY <1>27 DEF vars
<1>28. ASSUME NEW s \in Sessions, Serve(s) PROVE InStepInv'
  <2> HIDE DEF TypeOK, Goto, tables, request, history, InStepInv, InStep, During
  <2>1. QED
    BY <1>28, <1>1, <1>2, <1>3, <1>4, <1>5, <1>6, <1>7, <1>8, <1>9, <1>10, <1>11,
       <1>12, <1>13, <1>14, <1>15, <1>16, <1>17, <1>18, <1>19, <1>20, <1>21, Zenon DEF Serve
<1>29. CASE TimePasses
  <2> HIDE DEF TypeOK, Goto, tables, request, history, InStepInv, InStep, During
  <2>1. QED
    BY <1>29, <1>22, <1>23, <1>24, <1>25, <1>26, Zenon DEF TimePasses
<1>30. QED
  BY <1>27, <1>28, <1>29, Zenon DEF Next

-----------------------------------------------------------------------------
(* What any step does to one request, and to the entries of one assignment. *)

Stays(r) ==
  /\ pc'[r] = pc[r] /\ why'[r] = why[r] /\ at'[r] = at[r]
  /\ rows'[r] = rows[r] /\ seen'[r] = seen[r]

LEMMA OthersStay ==
  ASSUME TypeOK, NEW s \in Sessions, Serve(s), NEW r \in Sessions \ {s}
  PROVE  Stays(r)
<1> USE DEF TypeOK, Goto, tables, request, history, Stays
<1>1. ASSUME NEW p \in BOOLEAN, AskOwn(s, p) PROVE Stays(r)
  BY <1>1 DEF AskOwn, Searches, Begin, Found
<1>2. ASSUME NEW p \in BOOLEAN, AskInVain(s, p) PROVE Stays(r)
  BY <1>2 DEF AskInVain, Searches, Begin
<1>3. CASE GiveUp(s)
  BY <1>3 DEF GiveUp, Shorten
<1>4. CASE AskOthers(s)
  BY <1>4 DEF AskOthers, Found, Finish
<1>5. ASSUME NEW t \in Tasks, TakeLock(s, t) PROVE Stays(r)
  BY <1>5 DEF TakeLock, LockFor
<1>6. ASSUME NEW t \in Tasks, NextRow(s, t) PROVE Stays(r)
  BY <1>6 DEF NextRow, Finish
<1>7. ASSUME NEW t \in Tasks, LockDirectly(s, t) PROVE Stays(r)
  BY <1>7 DEF LockDirectly, Begin, LockFor
<1>8. ASSUME NEW t \in Tasks, Cancel(s, t) PROVE Stays(r)
  BY <1>8 DEF Cancel, BeginRelease, Begin
<1>9. ASSUME NEW t \in Tasks, Submit(s, t) PROVE Stays(r)
  BY <1>9 DEF Submit, BeginRelease, Begin
<1>10. ASSUME NEW t \in Tasks, ReleaseCategory(s, t) PROVE Stays(r)
  BY <1>10 DEF ReleaseCategory, BeginRelease, Begin, Part
<1>11. CASE IndexLock(s)
  BY <1>11 DEF IndexLock, Indexed
<1>12. CASE Reserve(s)
  BY <1>12 DEF Reserve
<1>13. CASE Register(s)
  BY <1>13 DEF Register, Finish
<1>14. CASE LookForOthers(s)
  BY <1>14 DEF LookForOthers
<1>15. CASE Unregister(s)
  BY <1>15 DEF Unregister
<1>16. CASE ReleaseLock(s)
  <2>1. CASE Finish(s)
    BY <1>16, <2>1 DEF ReleaseLock, Finish
  <2>2. CASE ~Finish(s)
    BY <1>16, <2>2 DEF ReleaseLock, AfterRelease
  <2>3. QED
    BY <2>1, <2>2
<1>17. CASE ReadLocked(s)
  BY <1>17 DEF ReadLocked
<1>18. CASE ExpireReservations(s)
  BY <1>18 DEF ExpireReservations, Shorten, Finish
<1>19. CASE Commit(s)
  BY <1>19 DEF Commit, Finish
<1>20. CASE Signout(s)
  BY <1>20 DEF Signout, BeginRelease, Begin
<1>21. CASE Die(s)
  BY <1>21 DEF Die, Part, Finish
<1>22. QED
  <2> HIDE DEF TypeOK, Goto, tables, request, history, Stays
  <2>1. QED
    BY <1>1, <1>2, <1>3, <1>4, <1>5, <1>6, <1>7, <1>8, <1>9, <1>10, <1>11,
       <1>12, <1>13, <1>14, <1>15, <1>16, <1>17, <1>18, <1>19, <1>20, <1>21, Zenon DEF Serve

LEMMA TimeStays ==
  ASSUME TypeOK, TimePasses \/ UNCHANGED vars, NEW r \in Sessions
  PROVE  Stays(r)
BY DEF TypeOK, Stays, TimePasses, RunDown, RunOut, ReservationEnds, DropIndex, ActiveEnds,
       request, vars

\* How a request leaves the steps at which it writes or undoes an assignment, and
\* how it comes to those at which it acts on what it has read.
Moves(r) ==
  /\ pc[r] = "index" => Stays(r) \/ IndexLock(r) \/ Die(r)
  /\ pc[r] = "reserve" => Stays(r) \/ Reserve(r) \/ Die(r)
  /\ pc[r] = "register" => Stays(r) \/ Register(r) \/ Die(r)
  /\ pc[r] = "release" => Stays(r) \/ ReleaseLock(r) \/ Die(r)
  /\ pc'[r] = "locked" =>
       Stays(r) \/ ReleaseLock(r) \/ \E t \in Tasks : ReleaseCategory(r, t)
  /\ pc'[r] = "expire" => Stays(r) \/ ReleaseLock(r) \/ ReadLocked(r)
  /\ pc'[r] = "unregister" => Stays(r) \/ LookForOthers(r)
  /\ pc'[r] = "giveup" => Stays(r) \/ \E p \in BOOLEAN : AskInVain(r, p)

LEMMA MovesStep ==
  ASSUME TypeOK, [Next]_vars, NEW r \in Sessions
  PROVE  Moves(r)
<1> USE DEF TypeOK, Goto, Moves
<1>1. CASE Stays(r)
  BY <1>1 DEF Stays
<1>2. ASSUME Serve(r) PROVE Moves(r)
  <2>1. ASSUME NEW p \in BOOLEAN, AskOwn(r, p) PROVE Moves(r)
    <3>1. pc[r] = "idle" /\ pc'[r] = "try"
      BY <2>1 DEF AskOwn, Searches, Begin, Found
    <3>2. QED
      BY <2>1, <3>1
  <2>2. ASSUME NEW p \in BOOLEAN, AskInVain(r, p) PROVE Moves(r)
    <3>1. pc[r] = "idle" /\ pc'[r] \in {"others", "giveup"}
      BY <2>2 DEF AskInVain, Searches, Begin
    <3>2. QED
      BY <2>2, <3>1
  <2>3. CASE GiveUp(r)
    <3>1. pc[r] = "giveup" /\ pc'[r] = "others"
      BY <2>3 DEF GiveUp
    <3>2. QED
      BY <2>3, <3>1
  <2>4. CASE AskOthers(r)
    <3>1. pc[r] = "others" /\ pc'[r] \in {"try", "idle"}
      BY <2>4 DEF AskOthers, Found, Finish
    <3>2. QED
      BY <2>4, <3>1
  <2>5. ASSUME NEW t \in Tasks, TakeLock(r, t) PROVE Moves(r)
    <3>1. pc[r] = "try" /\ pc'[r] = "index"
      BY <2>5 DEF TakeLock
    <3>2. QED
      BY <2>5, <3>1
  <2>6. ASSUME NEW t \in Tasks, NextRow(r, t) PROVE Moves(r)
    <3>1. pc[r] = "try" /\ pc'[r] \in {"try", "idle"}
      BY <2>6 DEF NextRow, Finish
    <3>2. QED
      BY <2>6, <3>1
  <2>7. ASSUME NEW t \in Tasks, LockDirectly(r, t) PROVE Moves(r)
    <3>1. pc[r] = "idle" /\ pc'[r] = "index"
      BY <2>7 DEF LockDirectly, Begin
    <3>2. QED
      BY <2>7, <3>1
  <2>8. ASSUME NEW t \in Tasks, Cancel(r, t) PROVE Moves(r)
    <3>1. pc[r] = "idle" /\ pc'[r] = "look"
      BY <2>8 DEF Cancel, BeginRelease, Begin
    <3>2. QED
      BY <2>8, <3>1
  <2>9. ASSUME NEW t \in Tasks, Submit(r, t) PROVE Moves(r)
    <3>1. pc[r] = "idle" /\ pc'[r] = "look"
      BY <2>9 DEF Submit, BeginRelease, Begin
    <3>2. QED
      BY <2>9, <3>1
  <2>10. ASSUME NEW t \in Tasks, ReleaseCategory(r, t) PROVE Moves(r)
    <3>1. pc[r] = "idle" /\ pc'[r] = "locked"
      BY <2>10 DEF ReleaseCategory, BeginRelease, Begin
    <3>2. QED
      BY <2>10, <3>1
  <2>11. CASE IndexLock(r)
    <3>1. pc[r] = "index" /\ pc'[r] = "reserve"
      BY <2>11 DEF IndexLock
    <3>2. QED
      BY <2>11, <3>1
  <2>12. CASE Reserve(r)
    <3>1. pc[r] = "reserve" /\ pc'[r] = "register"
      BY <2>12 DEF Reserve
    <3>2. QED
      BY <2>12, <3>1
  <2>13. CASE Register(r)
    <3>1. pc[r] = "register" /\ pc'[r] = "idle"
      BY <2>13 DEF Register, Finish
    <3>2. QED
      BY <2>13, <3>1
  <2>14. CASE LookForOthers(r)
    <3>1. pc[r] = "look" /\ pc'[r] \in {"unregister", "release"}
      BY <2>14 DEF LookForOthers
    <3>2. QED
      BY <2>14, <3>1
  <2>15. CASE Unregister(r)
    <3>1. pc[r] = "unregister" /\ pc'[r] = "release"
      BY <2>15 DEF Unregister
    <3>2. QED
      BY <2>15, <3>1
  <2>16. CASE ReleaseLock(r)
    <3>1. pc[r] = "release" /\ pc'[r] \in {"locked", "expire", "idle"}
      BY <2>16 DEF ReleaseLock, AfterRelease, Finish
    <3>2. QED
      BY <2>16, <3>1
  <2>17. CASE ReadLocked(r)
    <3>1. pc[r] = "locked" /\ pc'[r] = "expire"
      BY <2>17 DEF ReadLocked
    <3>2. QED
      BY <2>17, <3>1
  <2>18. CASE ExpireReservations(r)
    <3>1. pc[r] = "expire" /\ pc'[r] \in {"commit", "idle"}
      BY <2>18 DEF ExpireReservations, Finish
    <3>2. QED
      BY <2>18, <3>1
  <2>19. CASE Commit(r)
    <3>1. pc[r] = "commit" /\ pc'[r] = "idle"
      BY <2>19 DEF Commit, Finish
    <3>2. QED
      BY <2>19, <3>1
  <2>20. CASE Signout(r)
    <3>1. pc[r] = "idle" /\ pc'[r] \in {"look", "release"}
      BY <2>20 DEF Signout, BeginRelease, Begin
    <3>2. QED
      BY <2>20, <3>1
  <2>21. CASE Die(r)
    <3>1. pc'[r] = "idle"
      BY <2>21 DEF Die, Finish
    <3>2. QED
      BY <2>21, <3>1
  <2>22. QED
    <3> HIDE DEF TypeOK, Goto, Moves
    <3>1. QED
      BY <1>2, <2>1, <2>2, <2>3, <2>4, <2>5, <2>6, <2>7, <2>8, <2>9, <2>10, <2>11,
         <2>12, <2>13, <2>14, <2>15, <2>16, <2>17, <2>18, <2>19, <2>20, <2>21, Zenon DEF Serve
<1>3. QED
  BY <1>1, <1>2, OthersStay, TimeStays DEF Next

\* What can end an entry, and what excuses its end.
Changes(u, t) ==
  /\ lock'[u][t] = "held" => lock[u][t] = "held" \/ During(u, t, {"index"})'
  /\ resv[u][t] = "set" =>
       \/ resv'[u][t] = "set"
       \/ ReservationEnds(u, t)
       \/ \E s \in Sessions :
            /\ By[s] = u
            /\ \/ GiveUp(s) /\ t \in rows[s]
               \/ ExpireReservations(s) /\ t \in ToExpire(s)
  /\ u \in active =>
       \/ u \in active'
       \/ ActiveEnds(u)
       \/ \E s \in Sessions : By[s] = u /\ Unregister(s)
  /\ <<u, t>> \in parted => <<u, t>> \in parted' \/ lock'[u][t] # "held"
  /\ \A step \in {"unregister", "expire"} :
       <<u, t, step>> \in missed =>
         \/ <<u, t, step>> \in missed'
         \/ \E s \in Sessions :
              /\ IndexLock(s) /\ By[s] = u /\ t \in at[s]
              /\ ~\E r \in Sessions : By[r] = u /\ Misses(r, t, step)

LEMMA ChangesStep ==
  ASSUME TypeOK, [Next]_vars, NEW v \in Users, NEW x \in Tasks
  PROVE  Changes(v, x)
<1> USE DEF TypeOK, Goto, tables, request, history, Changes
<1>1. ASSUME NEW s \in Sessions, NEW p \in BOOLEAN, AskOwn(s, p) PROVE Changes(v, x)
  <2>1. UNCHANGED <<lock, resv, active, parted, missed>>
    BY <1>1 DEF AskOwn
  <2>2. QED
    BY <2>1
<1>2. ASSUME NEW s \in Sessions, NEW p \in BOOLEAN, AskInVain(s, p) PROVE Changes(v, x)
  <2>1. UNCHANGED <<lock, resv, active, parted, missed>>
    BY <1>2 DEF AskInVain
  <2>2. QED
    BY <2>1
<1>3. ASSUME NEW s \in Sessions, GiveUp(s) PROVE Changes(v, x)
  <2>1. UNCHANGED <<lock, active, parted, missed>>
    BY <1>3 DEF GiveUp
  <2>2. resv'[v][x] = resv[v][x] \/ (By[s] = v /\ x \in rows[s])
    BY <1>3 DEF GiveUp, Shorten
  <2>3. QED
    BY <1>3, <2>1, <2>2
<1>4. ASSUME NEW s \in Sessions, AskOthers(s) PROVE Changes(v, x)
  <2>1. UNCHANGED <<lock, resv, active, parted, missed>>
    BY <1>4 DEF AskOthers
  <2>2. QED
    BY <2>1
<1>5. ASSUME NEW s \in Sessions, NEW t \in Tasks, TakeLock(s, t) PROVE Changes(v, x)
  <2>1. UNCHANGED <<resv, active, parted, missed>>
    BY <1>5 DEF TakeLock
  <2>2. lock'[v][x] = lock[v][x] \/ (By[s] = v /\ x = t)
    BY <1>5 DEF TakeLock, LockFor
  <2>3. pc'[s] = "index" /\ at'[s] = {t}
    BY <1>5 DEF TakeLock, Begin
  <2>4. QED
    BY <2>1, <2>2, <2>3 DEF During
<1>6. ASSUME NEW s \in Sessions, NEW t \in Tasks, NextRow(s, t) PROVE Changes(v, x)
  <2>1. UNCHANGED <<lock, resv, active, parted, missed>>
    BY <1>6 DEF NextRow
  <2>2. QED
    BY <2>1
<1>7. ASSUME NEW s \in Sessions, NEW t \in Tasks, LockDirectly(s, t) PROVE Changes(v, x)
  <2>1. UNCHANGED <<resv, active, parted, missed>>
    BY <1>7 DEF LockDirectly
  <2>2. lock'[v][x] = lock[v][x] \/ (By[s] = v /\ x = t)
    BY <1>7 DEF LockDirectly, LockFor
  <2>3. pc'[s] = "index" /\ at'[s] = {t}
    BY <1>7 DEF LockDirectly, Begin
  <2>4. QED
    BY <2>1, <2>2, <2>3 DEF During
<1>8. ASSUME NEW s \in Sessions, NEW t \in Tasks, Cancel(s, t) PROVE Changes(v, x)
  <2>1. UNCHANGED <<lock, resv, active, parted, missed>>
    BY <1>8 DEF Cancel, BeginRelease
  <2>2. QED
    BY <2>1
<1>9. ASSUME NEW s \in Sessions, NEW t \in Tasks, Submit(s, t) PROVE Changes(v, x)
  <2>1. UNCHANGED <<lock, resv, active, parted, missed>>
    BY <1>9 DEF Submit, BeginRelease
  <2>2. QED
    BY <2>1
<1>10. ASSUME NEW s \in Sessions, NEW t \in Tasks, ReleaseCategory(s, t) PROVE Changes(v, x)
  <2>1. UNCHANGED <<lock, resv, active, missed>> /\ parted \subseteq parted'
    BY <1>10 DEF ReleaseCategory, BeginRelease, Part
  <2>2. QED
    BY <2>1
<1>11. ASSUME NEW s \in Sessions, IndexLock(s) PROVE Changes(v, x)
  <2>1. UNCHANGED <<lock, resv, active, parted>>
    BY <1>11 DEF IndexLock
  <2>2. ASSUME NEW step \in {"unregister", "expire"}, <<v, x, step>> \in missed,
               ~(By[s] = v /\ x \in at[s])
        PROVE  <<v, x, step>> \in missed'
    BY <1>11, <2>2 DEF IndexLock
  <2>3. ASSUME NEW step \in {"unregister", "expire"}, By[s] = v, x \in at[s],
               \E r \in Sessions : By[r] = v /\ Misses(r, x, step)
        PROVE  <<v, x, step>> \in missed'
    BY <1>11, <2>3 DEF IndexLock
  <2>4. QED
    BY <1>11, <2>1, <2>2, <2>3
<1>12. ASSUME NEW s \in Sessions, Reserve(s) PROVE Changes(v, x)
  <2>1. UNCHANGED <<lock, active, parted, missed>>
    BY <1>12 DEF Reserve
  <2>2. resv'[v][x] \in {resv[v][x], "set"}
    BY <1>12 DEF Reserve
  <2>3. QED
    BY <2>1, <2>2
<1>13. ASSUME NEW s \in Sessions, Register(s) PROVE Changes(v, x)
  <2>1. UNCHANGED <<lock, resv, parted, missed>> /\ active \subseteq active'
    BY <1>13 DEF Register
  <2>2. QED
    BY <2>1
<1>14. ASSUME NEW s \in Sessions, LookForOthers(s) PROVE Changes(v, x)
  <2>1. UNCHANGED <<lock, resv, active, parted, missed>>
    BY <1>14 DEF LookForOthers
  <2>2. QED
    BY <2>1
<1>15. ASSUME NEW s \in Sessions, Unregister(s) PROVE Changes(v, x)
  <2>1. UNCHANGED <<lock, resv, parted, missed>> /\ active' = active \ {By[s]}
    BY <1>15 DEF Unregister
  <2>2. QED
    BY <1>15, <2>1
<1>16. ASSUME NEW s \in Sessions, ReleaseLock(s) PROVE Changes(v, x)
  <2>1. UNCHANGED <<resv, active, missed>>
    BY <1>16 DEF ReleaseLock
  <2>2. \/ lock'[v][x] = lock[v][x] /\ (<<v, x>> \in parted => <<v, x>> \in parted')
        \/ lock'[v][x] = "ending"
    BY <1>16 DEF ReleaseLock
  <2>3. QED
    BY <2>1, <2>2
<1>17. ASSUME NEW s \in Sessions, ReadLocked(s) PROVE Changes(v, x)
  <2>1. UNCHANGED <<lock, resv, active, parted, missed>>
    BY <1>17 DEF ReadLocked
  <2>2. QED
    BY <2>1
<1>18. ASSUME NEW s \in Sessions, ExpireReservations(s) PROVE Changes(v, x)
  <2>1. UNCHANGED <<lock, active, parted, missed>>
    BY <1>18 DEF ExpireReservations
  <2>2. resv'[v][x] = resv[v][x] \/ (By[s] = v /\ x \in ToExpire(s))
    BY <1>18 DEF ExpireReservations, Shorten
  <2>3. QED
    BY <1>18, <2>1, <2>2
<1>19. ASSUME NEW s \in Sessions, Commit(s) PROVE Changes(v, x)
  <2>1. UNCHANGED <<lock, resv, active, parted, missed>>
    BY <1>19 DEF Commit
  <2>2. QED
    BY <2>1
<1>20. ASSUME NEW s \in Sessions, Signout(s) PROVE Changes(v, x)
  <2>1. UNCHANGED <<lock, resv, active, parted, missed>>
    BY <1>20 DEF Signout, BeginRelease
  <2>2. QED
    BY <2>1
<1>21. ASSUME NEW s \in Sessions, Die(s) PROVE Changes(v, x)
  <2>1. UNCHANGED <<lock, resv, active, missed>> /\ parted \subseteq parted'
    BY <1>21 DEF Die, Part
  <2>2. QED
    BY <2>1
<1>22. ASSUME NEW u \in Users, NEW t \in Tasks, NEW w \in Clocks, RunDown(u, t, w) PROVE Changes(v, x)
  <2>1. UNCHANGED <<resv, active, missed>> /\ parted \subseteq parted'
    BY <1>22 DEF RunDown, Together, Part
  <2>2. lock'[v][x] = "held" => lock[v][x] = "held"
    BY <1>22 DEF RunDown
  <2>3. QED
    BY <2>1, <2>2
<1>23. ASSUME NEW u \in Users, NEW t \in Tasks, NEW w \in Clocks, RunOut(u, t, w) PROVE Changes(v, x)
  <2>1. UNCHANGED <<resv, active, missed>> /\ parted \subseteq parted'
    BY <1>23 DEF RunOut, Together, Part
  <2>2. lock'[v][x] = "held" => lock[v][x] = "held"
    BY <1>23 DEF RunOut
  <2>3. QED
    BY <2>1, <2>2
<1>24. ASSUME NEW u \in Users, NEW t \in Tasks, ReservationEnds(u, t) PROVE Changes(v, x)
  <2>1. UNCHANGED <<lock, active, parted, missed>>
    BY <1>24 DEF ReservationEnds
  <2>2. resv'[v][x] = resv[v][x] \/ (v = u /\ x = t)
    BY <1>24 DEF ReservationEnds
  <2>3. QED
    BY <1>24, <2>1, <2>2
<1>25. ASSUME NEW u \in Users, DropIndex(u) PROVE Changes(v, x)
  <2>1. UNCHANGED <<lock, resv, active, parted, missed>>
    BY <1>25 DEF DropIndex
  <2>2. QED
    BY <2>1
<1>26. ASSUME NEW u \in Users, ActiveEnds(u) PROVE Changes(v, x)
  <2>1. UNCHANGED <<lock, resv, parted, missed>> /\ active' = active \ {u}
    BY <1>26 DEF ActiveEnds
  <2>2. QED
    BY <1>26, <2>1
<1>27. CASE UNCHANGED vars
  <2>1. UNCHANGED <<lock, resv, active, parted, missed>>
    BY <1>27 DEF vars
  <2>2. QED
    BY <2>1
<1>28. ASSUME NEW s \in Sessions, Serve(s) PROVE Changes(v, x)
  <2> HIDE DEF TypeOK, Goto, tables, request, history, Changes
  <2>1. QED
    BY <1>28, <1>1, <1>2, <1>3, <1>4, <1>5, <1>6, <1>7, <1>8, <1>9, <1>10, <1>11,
       <1>12, <1>13, <1>14, <1>15, <1>16, <1>17, <1>18, <1>19, <1>20, <1>21, Zenon DEF Serve
<1>29. CASE TimePasses
  <2> HIDE DEF TypeOK, Goto, tables, request, history, Changes
  <2>1. QED
    BY <1>29, <1>22, <1>23, <1>24, <1>25, <1>26, Zenon DEF TimePasses
<1>30. QED
  BY <1>27, <1>28, <1>29, Zenon DEF Next

-----------------------------------------------------------------------------
(* What a release has read of the user's locks stays true of those it did  *)
(* not find, but for those which the other tab's index entry came too late *)
(* to show.                                                                *)

\* A request that takes this step on what it has read does no wrong to t.
Excused(u, t, step) ==
  \/ <<u, t>> \in parted \/ lock[u][t] # "held"
  \/ During(u, t, {"index"}) \/ <<u, t, step>> \in missed

LEMMA ExcusedStep ==
  ASSUME TypeOK, [Next]_vars, NEW u \in Users, NEW t \in Tasks,
         NEW step \in {"unregister", "expire"}, Excused(u, t, step)
  PROVE  \/ Excused(u, t, step)'
         \/ \E s \in Sessions :
              /\ IndexLock(s) /\ By[s] = u /\ t \in at[s]
              /\ ~\E r \in Sessions : By[r] = u /\ Misses(r, t, step)
<1>1. Changes(u, t)
  BY ChangesStep
<1>2. CASE During(u, t, {"index"})
  <2>1. PICK s \in Sessions : By[s] = u /\ t \in at[s] /\ pc[s] = "index"
    BY <1>2 DEF During
  <2>2. CASE Stays(s)
    BY <2>1, <2>2 DEF Stays, Excused, During
  <2>3. CASE Die(s)
    BY <2>1, <2>3 DEF Die, Part, Excused
  <2>4. CASE IndexLock(s)
    <3>1. (\E r \in Sessions : By[r] = u /\ Misses(r, t, step)) => <<u, t, step>> \in missed'
      BY <2>1, <2>4 DEF IndexLock
    <3>2. QED
      BY <2>1, <2>4, <3>1 DEF Excused
  <2>5. QED
    BY <2>1, <2>2, <2>3, <2>4, MovesStep DEF Moves
<1>3. CASE ~During(u, t, {"index"})
  BY <1>1, <1>3 DEF Changes, Excused
<1>4. QED
  BY <1>2, <1>3

ReleasedInv ==
  \A s \in Sessions :
    /\ pc[s] = "locked" => \A t \in at[s] : Excused(By[s], t, "expire")
    /\ pc[s] = "expire" => \A t \in ToExpire(s) : Excused(By[s], t, "expire")

LookedInv ==
  \A s \in Sessions : pc[s] = "unregister" =>
    \A t \in Tasks \ at[s] : Excused(By[s], t, "unregister")

LEMMA ReleasedInit == Init => ReleasedInv /\ LookedInv
BY DEF Init, ReleasedInv, LookedInv

\* What a request would take from an assignment, it is excused for from one state to
\* the next, for as long as it stands at the step.
LEMMA StillExcused ==
  ASSUME TypeOK, [Next]_vars, NEW s \in Sessions, NEW t \in Tasks,
         NEW step \in {"unregister", "expire"},
         Excused(By[s], t, step), Misses(s, t, step)
  PROVE  Excused(By[s], t, step)'
BY ExcusedStep

LEMMA CategoryStep == ASSUME [Next]_vars PROVE UNCHANGED category
<1> USE DEF tables, request, history
<1>1. ASSUME NEW s \in Sessions, Serve(s) PROVE UNCHANGED category
  BY <1>1 DEF Serve, AskOwn, AskInVain, GiveUp, AskOthers, TakeLock, NextRow, LockDirectly,
     IndexLock, Reserve, Register, LookForOthers, Unregister, ReleaseLock, ReadLocked,
     ExpireReservations, Commit, Signout, Die, Cancel, Submit, ReleaseCategory, BeginRelease
<1>2. CASE TimePasses
  BY <1>2 DEF TimePasses, RunDown, RunOut, ReservationEnds, DropIndex, ActiveEnds
<1>3. CASE UNCHANGED vars
  BY <1>3 DEF vars
<1>4. QED
  BY <1>1, <1>2, <1>3 DEF Next

LEMMA ReleasedStep ==
  ASSUME TypeOK, InStepInv, ReleasedInv, LookedInv, [Next]_vars
  PROVE  ReleasedInv' /\ LookedInv'
<1>1. ASSUME NEW s \in Sessions, ReleaseLock(s), NEW t \in at'[s], pc'[s] # "idle"
      PROVE  Excused(By[s], t, "expire")'
  <2>1. at'[s] = at[s]
    BY <1>1 DEF ReleaseLock, AfterRelease, Finish, Goto, TypeOK
  <2>2. t \in Tasks /\ lock'[By[s]][t] = "ending"
    BY <1>1, <2>1 DEF ReleaseLock, TypeOK
  <2>3. QED
    BY <2>2 DEF Excused
<1>2. ASSUME NEW s \in Sessions, NEW t \in at'[s], pc'[s] = "locked"
      PROVE  Excused(By[s], t, "expire")'
  <2>1. CASE Stays(s)
    <3>1. t \in Tasks /\ Excused(By[s], t, "expire")
      BY <1>2, <2>1 DEF Stays, ReleasedInv, TypeOK
    <3>2. Misses(s, t, "expire")
      BY <1>2, <2>1 DEF Stays, Misses
    <3>3. QED
      BY <3>1, <3>2, StillExcused
  <2>2. CASE ReleaseLock(s)
    BY <1>1, <1>2, <2>2
  <2>3. ASSUME NEW x \in Tasks, ReleaseCategory(s, x)
        PROVE  Excused(By[s], t, "expire")'
    <3>1. at'[s] = {x} /\ <<By[s], x>> \in parted'
      BY <2>3 DEF ReleaseCategory, BeginRelease, Part, TypeOK
    <3>2. QED
      BY <3>1 DEF Excused
  <2>4. QED
    BY <1>2, <2>1, <2>2, <2>3, MovesStep DEF Moves
<1>3. ASSUME NEW s \in Sessions, NEW t \in ToExpire(s)', pc'[s] = "expire"
      PROVE  Excused(By[s], t, "expire")'
  <2>1. category' = category /\ By' = By
    BY CategoryStep
  <2>2. CASE Stays(s)
    <3>1. t \in ToExpire(s)
      BY <1>3, <2>1, <2>2 DEF Stays, ToExpire, CategoriesOf
    <3>2. t \in Tasks
      BY <3>1 DEF ToExpire, TypeOK
    <3>3. Excused(By[s], t, "expire") /\ Misses(s, t, "expire")
      BY <1>3, <2>2, <3>1 DEF Stays, ReleasedInv, Misses
    <3>4. QED
      BY <3>2, <3>3, StillExcused
  <2>3. CASE ReleaseLock(s)
    <3>1. why'[s] = "submit"
      BY <1>3, <2>3 DEF ReleaseLock, AfterRelease, Finish, Goto, TypeOK, Reasons
    <3>2. t \in at'[s]
      BY <3>1 DEF ToExpire
    <3>3. QED
      BY <1>1, <1>3, <2>3, <3>2
  <2>4. CASE ReadLocked(s)
    <3>1. /\ seen'[s] = {x \in Tasks : index[By[s]][x] = "held"}
          /\ UNCHANGED <<lock, parted, missed, at, why>> /\ pc[s] = "locked"
      BY <2>4 DEF ReadLocked, tables, history, TypeOK
    <3>2. t \in Tasks
      BY <3>1 DEF ToExpire, TypeOK
    <3>3. Excused(By[s], t, "expire")
      <4>1. CASE t \in at[s]
        BY <3>1, <4>1 DEF ReleasedInv
      <4>2. CASE t \notin at[s]
        <5>1. index[By[s]][t] # "held"
          BY <3>1, <3>2, <4>2 DEF ToExpire
        <5>2. QED
          BY <3>2, <5>1 DEF InStepInv, InStep, Excused
      <4>3. QED
        BY <4>1, <4>2
    <3>4. During(By[s], t, {"index"}) => During(By[s], t, {"index"})'
      BY <2>4 DEF ReadLocked, Goto, During, TypeOK
    <3>5. QED
      BY <3>1, <3>3, <3>4 DEF Excused
  <2>5. QED
    BY <1>3, <2>2, <2>3, <2>4, MovesStep DEF Moves
<1>4. ASSUME NEW s \in Sessions, NEW t \in Tasks \ at'[s], pc'[s] = "unregister"
      PROVE  Excused(By[s], t, "unregister")'
  <2>1. CASE Stays(s)
    <3>1. Excused(By[s], t, "unregister") /\ Misses(s, t, "unregister")
      BY <1>4, <2>1 DEF Stays, LookedInv, Misses
    <3>2. QED
      BY <3>1, StillExcused
  <2>2. CASE LookForOthers(s)
    <3>1. /\ UNCHANGED <<lock, index, parted, missed, at>>
          /\ pc' = [pc EXCEPT ![s] = "unregister"] /\ pc[s] = "look" /\ Remaining(s) = {}
      BY <1>4, <2>2 DEF LookForOthers, Goto, tables, history, TypeOK
    <3>2. index[By[s]][t] = "none"
      BY <1>4, <3>1 DEF Remaining
    <3>3. Excused(By[s], t, "unregister")
      BY <3>2 DEF InStepInv, InStep, Excused
    <3>4. During(By[s], t, {"index"}) => During(By[s], t, {"index"})'
      BY <3>1 DEF During, TypeOK
    <3>5. QED
      BY <3>1, <3>3, <3>4 DEF Excused
  <2>3. QED
    BY <1>4, <2>1, <2>2, MovesStep DEF Moves
<1>5. QED
  BY <1>2, <1>3, <1>4 DEF ReleasedInv, LookedInv

-----------------------------------------------------------------------------
(* A task that is locked is reserved, but for those.                       *)

\* The reservations that a request gives up are of tasks that have their answer.
GivenUpInv == \A s \in Sessions : pc[s] = "giveup" => rows[s] \subseteq done

KeptInv ==
  \A u \in Users, t \in Tasks \ done :
    \/ Excused(u, t, "expire") \/ During(u, t, {"reserve"})
    \/ resv[u][t] = "set"

LEMMA KeptInit == Init => GivenUpInv /\ KeptInv
BY DEF Init, GivenUpInv, KeptInv, Excused

LEMMA DoneGrows == ASSUME [Next]_vars PROVE done \subseteq done'
<1> USE DEF tables, request, history
<1>1. ASSUME NEW s \in Sessions, Serve(s) PROVE done \subseteq done'
  BY <1>1 DEF Serve, AskOwn, AskInVain, GiveUp, AskOthers, TakeLock, NextRow, LockDirectly,
     IndexLock, Reserve, Register, LookForOthers, Unregister, ReleaseLock, ReadLocked,
     ExpireReservations, Commit, Signout, Die, Cancel, Submit, ReleaseCategory, BeginRelease
<1>2. CASE TimePasses
  BY <1>2 DEF TimePasses, RunDown, RunOut, ReservationEnds, DropIndex, ActiveEnds
<1>3. CASE UNCHANGED vars
  BY <1>3 DEF vars
<1>4. QED
  BY <1>1, <1>2, <1>3 DEF Next

LEMMA GivenUpStep ==
  ASSUME TypeOK, GivenUpInv, [Next]_vars
  PROVE  GivenUpInv'
<1> SUFFICES ASSUME NEW s \in Sessions, pc'[s] = "giveup"
             PROVE  rows'[s] \subseteq done'
  BY DEF GivenUpInv
<1>1. CASE Stays(s)
  BY <1>1, DoneGrows DEF Stays, GivenUpInv
<1>2. ASSUME NEW p \in BOOLEAN, AskInVain(s, p) PROVE rows'[s] \subseteq done'
  <2>1. rows'[s] = Own(s) /\ OwnTasks(s) = {} /\ done' = done
    BY <1>2 DEF AskInVain, TypeOK
  <2>2. ASSUME NEW t \in Own(s) PROVE t \in done
    BY <2>1, <2>2 DEF Own, OwnTasks, CategoriesOf
  <2>3. QED
    BY <2>1, <2>2
<1>3. QED
  BY <1>1, <1>2, MovesStep DEF Moves

\* After the index entry comes the reservation, in the same request.
LEMMA IndexedNext ==
  ASSUME TypeOK, [Next]_vars, NEW s \in Sessions, IndexLock(s), NEW t \in at[s]
  PROVE  During(By[s], t, {"reserve"})'
BY DEF IndexLock, Goto, During, TypeOK

LEMMA KeptStep ==
  ASSUME TypeOK, ReleasedInv, GivenUpInv, KeptInv, [Next]_vars
  PROVE  KeptInv'
<1> DEFINE Kept(u, t) ==
      \/ Excused(u, t, "expire") \/ During(u, t, {"reserve"})
      \/ resv[u][t] = "set"
<1> SUFFICES ASSUME NEW u \in Users, NEW t \in Tasks \ done' PROVE Kept(u, t)'
  BY DEF KeptInv
<1>1. t \in Tasks \ done
  BY DoneGrows
<1>2. Changes(u, t)
  BY ChangesStep
<1>3. CASE Excused(u, t, "expire")
  <2>1. CASE Excused(u, t, "expire")'
    BY <2>1
  <2>2. ASSUME NEW s \in Sessions, IndexLock(s), By[s] = u, t \in at[s] PROVE Kept(u, t)'
    BY <2>2, IndexedNext
  <2>3. QED
    BY <1>3, <2>1, <2>2, ExcusedStep
<1>4. CASE During(u, t, {"reserve"})
  <2>1. PICK s \in Sessions : By[s] = u /\ t \in at[s] /\ pc[s] = "reserve"
    BY <1>4 DEF During
  <2>2. CASE Stays(s)
    BY <2>1, <2>2 DEF Stays, During
  <2>3. CASE Reserve(s)
    BY <2>1, <2>3 DEF Reserve, TypeOK
  <2>4. CASE Die(s)
    BY <2>1, <2>4 DEF Die, Part, Excused
  <2>5. QED
    BY <2>1, <2>2, <2>3, <2>4, MovesStep DEF Moves
<1>5. CASE ~Excused(u, t, "expire") /\ ~During(u, t, {"reserve"})
  <2>1. resv[u][t] = "set"
    BY <1>1, <1>5 DEF KeptInv
  <2>2. CASE resv'[u][t] = "set"
    BY <2>2
  <2>3. ~ReservationEnds(u, t)
    <3>1. ~During(u, t, {"index", "reserve"})
      BY <1>5 DEF Excused, During
    <3>2. QED
      BY <1>5, <2>1, <3>1 DEF ReservationEnds, Outlived, Excused
  <2>4. ASSUME NEW s \in Sessions, By[s] = u, GiveUp(s), t \in rows[s] PROVE FALSE
    BY <1>1, <2>4 DEF GiveUp, GivenUpInv
  <2>5. ASSUME NEW s \in Sessions, By[s] = u, ExpireReservations(s), t \in ToExpire(s)
        PROVE  FALSE
    BY <1>5, <2>5 DEF ExpireReservations, ReleasedInv
  <2>6. QED
    BY <1>2, <2>1, <2>2, <2>3, <2>4, <2>5 DEF Changes
<1>6. QED
  BY <1>3, <1>4, <1>5

-----------------------------------------------------------------------------
(* A user with a locked task is listed, but for those.                     *)

ListedInv ==
  \A u \in Users, t \in Tasks :
    \/ Excused(u, t, "unregister")
    \/ During(u, t, {"reserve", "register", "release"})
    \/ u \in active

LEMMA ListedInit == Init => ListedInv
BY DEF Init, ListedInv, Excused

LEMMA ListedStep ==
  ASSUME TypeOK, LookedInv, ListedInv, [Next]_vars
  PROVE  ListedInv'
<1> DEFINE Listed(u, t) ==
      \/ Excused(u, t, "unregister")
      \/ During(u, t, {"reserve", "register", "release"})
      \/ u \in active
<1> SUFFICES ASSUME NEW u \in Users, NEW t \in Tasks PROVE Listed(u, t)'
  BY DEF ListedInv
<1>1. Changes(u, t)
  BY ChangesStep
<1>2. CASE Excused(u, t, "unregister")
  <2>1. CASE Excused(u, t, "unregister")'
    BY <2>1
  <2>2. ASSUME NEW s \in Sessions, IndexLock(s), By[s] = u, t \in at[s] PROVE Listed(u, t)'
    <3>1. During(u, t, {"reserve"})'
      BY <2>2, IndexedNext
    <3>2. QED
      BY <3>1 DEF During
  <2>3. QED
    BY <1>2, <2>1, <2>2, ExcusedStep
<1>3. CASE During(u, t, {"reserve", "register", "release"})
  <2>1. PICK s \in Sessions : /\ By[s] = u /\ t \in at[s]
                              /\ pc[s] \in {"reserve", "register", "release"}
    BY <1>3 DEF During
  <2>2. CASE Stays(s)
    BY <2>1, <2>2 DEF Stays, During
  <2>3. CASE Reserve(s)
    <3>1. pc'[s] = "register" /\ at'[s] = at[s]
      BY <2>3 DEF Reserve, Goto, TypeOK
    <3>2. QED
      BY <2>1, <3>1 DEF During
  <2>4. CASE Register(s)
    BY <2>1, <2>4 DEF Register
  <2>5. CASE ReleaseLock(s)
    BY <2>1, <2>5 DEF ReleaseLock, TypeOK, Excused
  <2>6. CASE Die(s)
    BY <2>1, <2>6 DEF Die, Part, Excused
  <2>7. QED
    BY <2>1, <2>2, <2>3, <2>4, <2>5, <2>6, MovesStep DEF Moves
<1>4. CASE /\ ~Excused(u, t, "unregister")
           /\ ~During(u, t, {"reserve", "register", "release"})
  <2>1. u \in active
    BY <1>4 DEF ListedInv
  <2>2. CASE u \in active'
    BY <2>2
  <2>3. ~ActiveEnds(u)
    <3>1. ~During(u, t, {"index", "reserve", "register"})
      BY <1>4 DEF Excused, During
    <3>2. QED
      BY <1>4, <3>1 DEF ActiveEnds, Outlived, Excused
  <2>4. ASSUME NEW s \in Sessions, By[s] = u, Unregister(s) PROVE Listed(u, t)'
    <3>1. pc[s] = "unregister" /\ pc'[s] = "release" /\ at'[s] = at[s]
      BY <2>4 DEF Unregister, Goto, TypeOK
    <3>2. t \in at[s]
      BY <1>4, <2>4, <3>1 DEF LookedInv
    <3>3. QED
      BY <2>4, <3>1, <3>2 DEF During
  <2>5. QED
    BY <1>1, <2>1, <2>2, <2>3, <2>4 DEF Changes
<1>5. QED
  BY <1>2, <1>3, <1>4

-----------------------------------------------------------------------------
(* A request that goes on to reserve a category knows of every other       *)
(* reservation of it, or has it among those it could not see.              *)

Others(s, t) ==
  \E v \in Users \ {By[s]}, x \in Tasks :
    category[x] = category[t] /\ resv[v][x] # "none"

SeenInv ==
  \A s \in Sessions, t \in Tasks :
    /\ \/ pc[s] = "try" /\ t \in rows[s]
       \/ pc[s] \in {"index", "reserve"} /\ t \in at[s]
    /\ Others(s, t)
    => category[t] \in unseen[s]

LEMMA SeenInit == Init => SeenInv
BY DEF Init, SeenInv

LEMMA SeenStep == TypeOK /\ SeenInv /\ [Next]_vars => SeenInv'
<1> SUFFICES ASSUME TypeOK /\ SeenInv, [Next]_vars PROVE SeenInv'
  OBVIOUS
<1> USE DEF TypeOK, Goto, tables, request, history, SeenInv, Others
<1>1. ASSUME NEW s \in Sessions, NEW p \in BOOLEAN, AskOwn(s, p) PROVE SeenInv'
  <2>1. unseen'[s] = ReservedByOthers(s)
    BY <1>1 DEF AskOwn
  <2>2. ASSUME NEW t \in Tasks, Others(s, t) PROVE category[t] \in ReservedByOthers(s)
    BY <2>2 DEF ReservedByOthers
  <2>3. /\ UNCHANGED <<category, resv, at>>
        /\ \A r \in Sessions \ {s} : /\ pc'[r] = pc[r] /\ rows'[r] = rows[r]
                                   /\ unseen'[r] = unseen[r]
    BY <1>1 DEF AskOwn, Found
  <2>4. SUFFICES ASSUME NEW r \in Sessions, NEW x \in Tasks, Others(r, x),
                        \/ pc'[r] = "try" /\ x \in rows'[r]
                        \/ pc'[r] \in {"index", "reserve"} /\ x \in at'[r]
                 PROVE  category[x] \in unseen'[r]
    BY <2>3
  <2>5. CASE r = s
    BY <2>1, <2>2, <2>4, <2>5
  <2>6. CASE r # s
    BY <2>3, <2>4, <2>6
  <2>7. QED
    BY <2>5, <2>6
<1>2. ASSUME NEW s \in Sessions, NEW p \in BOOLEAN, AskInVain(s, p) PROVE SeenInv'
  BY <1>2 DEF AskInVain, Searches, Begin
<1>3. ASSUME NEW s \in Sessions, GiveUp(s) PROVE SeenInv'
  <2>1. \A v \in Users, x \in Tasks : resv'[v][x] # "none" => resv[v][x] # "none"
    BY <1>3 DEF GiveUp, Shorten
  <2>2. /\ UNCHANGED <<category, at, unseen>> /\ pc' = [pc EXCEPT ![s] = "others"]
        /\ rows' = [rows EXCEPT ![s] = {}]
    BY <1>3 DEF GiveUp
  <2>3. QED
    BY <2>1, <2>2
<1>4. ASSUME NEW s \in Sessions, AskOthers(s) PROVE SeenInv'
  <2>1. UNCHANGED <<category, resv>>
    BY <1>4 DEF AskOthers
  <2>2. CASE Finish(s)
    BY <2>1, <2>2 DEF Finish
  <2>3. CASE Found(s, FreeTasks(s)) /\ UNCHANGED unseen
    <3>1. ASSUME NEW t \in FreeTasks(s) PROVE ~Others(s, t)
      BY <3>1 DEF FreeTasks, ReservedByOthers
    <3>2. /\ rows' = [rows EXCEPT ![s] = FreeTasks(s)] /\ pc' = [pc EXCEPT ![s] = "try"]
          /\ UNCHANGED <<at, unseen>>
      BY <2>3 DEF Found
    <3>3. QED
      BY <2>1, <3>1, <3>2
  <2>4. QED
    BY <1>4, <2>2, <2>3 DEF AskOthers
<1>5. ASSUME NEW s \in Sessions, NEW t \in Tasks, TakeLock(s, t) PROVE SeenInv'
  BY <1>5 DEF TakeLock, LockFor
<1>6. ASSUME NEW s \in Sessions, NEW t \in Tasks, NextRow(s, t) PROVE SeenInv'
  <2>1. CASE Finish(s)
    BY <1>6, <2>1 DEF NextRow, Finish
  <2>2. CASE ~Finish(s)
    <3>1. rows' = [rows EXCEPT ![s] = rows[s] \ {t}] /\ UNCHANGED <<category, resv, pc, at, unseen>>
      BY <1>6, <2>2 DEF NextRow
    <3>2. QED
      BY <3>1
  <2>3. QED
    BY <2>1, <2>2
<1>7. ASSUME NEW s \in Sessions, NEW t \in Tasks, LockDirectly(s, t) PROVE SeenInv'
  <2>1. unseen'[s] = ReservedByOthers(s)
    BY <1>7 DEF LockDirectly
  <2>2. ASSUME NEW x \in Tasks, Others(s, x) PROVE category[x] \in ReservedByOthers(s)
    BY <2>2 DEF ReservedByOthers
  <2>3. /\ UNCHANGED <<category, resv, rows>>
        /\ \A r \in Sessions \ {s} : /\ pc'[r] = pc[r] /\ at'[r] = at[r]
                                   /\ unseen'[r] = unseen[r]
    BY <1>7 DEF LockDirectly
  <2>4. QED
    BY <1>7, <2>1, <2>2, <2>3 DEF LockDirectly
<1>8. ASSUME NEW s \in Sessions, NEW t \in Tasks, Cancel(s, t) PROVE SeenInv'
  BY <1>8 DEF Cancel, BeginRelease, Begin
<1>9. ASSUME NEW s \in Sessions, NEW t \in Tasks, Submit(s, t) PROVE SeenInv'
  BY <1>9 DEF Submit, BeginRelease, Begin
<1>10. ASSUME NEW s \in Sessions, NEW t \in Tasks, ReleaseCategory(s, t) PROVE SeenInv'
  BY <1>10 DEF ReleaseCategory, BeginRelease, Begin, Part
<1>11. ASSUME NEW s \in Sessions, IndexLock(s) PROVE SeenInv'
  BY <1>11 DEF IndexLock, Indexed
<1>12. ASSUME NEW s \in Sessions, Reserve(s) PROVE SeenInv'
  <2>1. UNCHANGED <<category, at, rows>> /\ pc' = [pc EXCEPT ![s] = "register"]
    BY <1>12 DEF Reserve
  <2>2. \A v \in Users, x \in Tasks :
          resv'[v][x] # "none" => resv[v][x] # "none" \/ (v = By[s] /\ x \in at[s])
    BY <1>12 DEF Reserve
  <2>3. ASSUME NEW r \in Sessions, By[r] # By[s], pc[r] \in {"try", "index", "reserve"},
               NEW x \in at[s]
        PROVE  category[x] \in unseen'[r]
    BY <1>12, <2>3 DEF Reserve, CategoriesOf
  <2>4. \A r \in Sessions \ {s} : unseen[r] \subseteq unseen'[r]
    BY <1>12 DEF Reserve
  <2>5. QED
    BY <2>1, <2>2, <2>3, <2>4
<1>13. ASSUME NEW s \in Sessions, Register(s) PROVE SeenInv'
  BY <1>13 DEF Register, Finish
<1>14. ASSUME NEW s \in Sessions, LookForOthers(s) PROVE SeenInv'
  BY <1>14 DEF LookForOthers
<1>15. ASSUME NEW s \in Sessions, Unregister(s) PROVE SeenInv'
  BY <1>15 DEF Unregister
<1>16. ASSUME NEW s \in Sessions, ReleaseLock(s) PROVE SeenInv'
  <2>1. CASE Finish(s)
    BY <1>16, <2>1 DEF ReleaseLock, AfterRelease, Finish
  <2>2. CASE ~Finish(s)
    <3>1. UNCHANGED <<category, resv, at, rows, unseen>>
      BY <1>16, <2>2 DEF ReleaseLock, AfterRelease
    <3>2. pc' = [pc EXCEPT ![s] = IF why[s] = "cancel" THEN "locked" ELSE "expire"]
      BY <1>16, <2>2 DEF ReleaseLock, AfterRelease
    <3>3. QED
      BY <3>1, <3>2
  <2>3. QED
    BY <2>1, <2>2
<1>17. ASSUME NEW s \in Sessions, ReadLocked(s) PROVE SeenInv'
  BY <1>17 DEF ReadLocked
<1>18. ASSUME NEW s \in Sessions, ExpireReservations(s) PROVE SeenInv'
  <2>1. \A v \in Users, x \in Tasks : resv'[v][x] # "none" => resv[v][x] # "none"
    BY <1>18 DEF ExpireReservations, Shorten
  <2>2. UNCHANGED category
    BY <1>18 DEF ExpireReservations
  <2>3. CASE Finish(s)
    BY <2>1, <2>2, <2>3 DEF Finish
  <2>4. CASE ~Finish(s)
    <3>1. UNCHANGED <<at, rows, unseen>> /\ pc' = [pc EXCEPT ![s] = "commit"]
      BY <1>18, <2>4 DEF ExpireReservations
    <3>2. QED
      BY <2>1, <2>2, <3>1
  <2>5. QED
    BY <2>3, <2>4
<1>19. ASSUME NEW s \in Sessions, Commit(s) PROVE SeenInv'
  BY <1>19 DEF Commit, Finish
<1>20. ASSUME NEW s \in Sessions, Signout(s) PROVE SeenInv'
  BY <1>20 DEF Signout, BeginRelease, Begin
<1>21. ASSUME NEW s \in Sessions, Die(s) PROVE SeenInv'
  BY <1>21 DEF Die, Part, Finish
<1>22. ASSUME NEW u \in Users, NEW t \in Tasks, NEW w \in Clocks, RunDown(u, t, w) PROVE SeenInv'
  BY <1>22 DEF RunDown, Together, Part
<1>23. ASSUME NEW u \in Users, NEW t \in Tasks, NEW w \in Clocks, RunOut(u, t, w) PROVE SeenInv'
  BY <1>23 DEF RunOut, Together, Part
<1>24. ASSUME NEW u \in Users, NEW t \in Tasks, ReservationEnds(u, t) PROVE SeenInv'
  BY <1>24 DEF ReservationEnds
<1>25. ASSUME NEW u \in Users, DropIndex(u) PROVE SeenInv'
  BY <1>25 DEF DropIndex
<1>26. ASSUME NEW u \in Users, ActiveEnds(u) PROVE SeenInv'
  BY <1>26 DEF ActiveEnds
<1>27. CASE UNCHANGED vars
  BY <1>27 DEF vars
<1>28. ASSUME NEW s \in Sessions, Serve(s) PROVE SeenInv'
  <2> HIDE DEF TypeOK, Goto, tables, request, history, SeenInv, Others
  <2>1. QED
    BY <1>28, <1>1, <1>2, <1>3, <1>4, <1>5, <1>6, <1>7, <1>8, <1>9, <1>10, <1>11,
       <1>12, <1>13, <1>14, <1>15, <1>16, <1>17, <1>18, <1>19, <1>20, <1>21, Zenon DEF Serve
<1>29. CASE TimePasses
  <2> HIDE DEF TypeOK, Goto, tables, request, history, SeenInv, Others
  <2>1. QED
    BY <1>29, <1>22, <1>23, <1>24, <1>25, <1>26, Zenon DEF TimePasses
<1>30. QED
  BY <1>27, <1>28, <1>29, Zenon DEF Next

-----------------------------------------------------------------------------
(* The theorems.                                                           *)

Assigned ==
  InStepInv /\ ReleasedInv /\ LookedInv /\ GivenUpInv /\ KeptInv /\ ListedInv

LEMMA AssignedInvariant == Spec => [](TypeOK /\ Assigned)
<1>1. Init => Assigned
  BY InStepInit, ReleasedInit, KeptInit, ListedInit DEF Assigned
<1>2. TypeOK /\ Assigned /\ [Next]_vars => Assigned'
  BY InStepStep, ReleasedStep, GivenUpStep, KeptStep, ListedStep DEF Assigned
<1>3. QED
  BY TypeInit, TypeStep, <1>1, <1>2, PTL DEF Spec

\* Theorem: the lock and the index entry of a task agree, so that the task which
\* new_task presents again is one its user may answer.
THEOREM TablesTheorem == Spec => []TablesAgree
<1>1. InStepInv => TablesAgree
  BY DEF InStepInv, InStep, TablesAgree, Whole, Busy, During
<1>2. QED
  BY AssignedInvariant, <1>1, PTL DEF Assigned

\* Theorem: whatever a user does with other tasks of its category, in any number of
\* tabs, a locked task without an answer stays reserved, unless a tab was about to end
\* the reservations of the locks it had not found when the lock was entered.
THEOREM KeptTheorem == Spec => []KeptUnlessMissed
<1>1. KeptInv => KeptUnlessMissed
  BY DEF KeptInv, Excused, KeptUnlessMissed, Whole, Busy, During
<1>2. QED
  BY AssignedInvariant, <1>1, PTL DEF Assigned

\* Theorem: a user with a locked task stays in the hash of active users, unless one of
\* his tabs had found no other task of his and was about to take him off.
THEOREM ListedTheorem == Spec => []ListedUnlessMissed
<1>1. ListedInv => ListedUnlessMissed
  BY DEF ListedInv, Excused, ListedUnlessMissed, Whole, Busy, During
<1>2. QED
  BY AssignedInvariant, <1>1, PTL DEF Assigned

OnlyUnseen ==
  \A c \in Categories :
    Shared(c)' /\ ~Shared(c) =>
      \E s \in Sessions :
        Reserve(s) /\ c \in CategoriesOf(at[s]) \cap unseen[s]

\* No other step adds a reservation.
LEMMA NothingReserved ==
  ASSUME TypeOK, [Next]_vars, \A s \in Sessions : ~Reserve(s)
  PROVE  /\ category' = category
         /\ \A u \in Users, t \in Tasks : resv'[u][t] # "none" => resv[u][t] # "none"
<1> USE DEF TypeOK, tables, request, history
<1>1. ASSUME NEW s \in Sessions, Serve(s)
      PROVE  /\ category' = category
             /\ \A u \in Users, t \in Tasks : resv'[u][t] # "none" => resv[u][t] # "none"
  <2>1. CASE GiveUp(s)
    BY <2>1 DEF GiveUp, Shorten
  <2>2. CASE ExpireReservations(s)
    BY <2>2 DEF ExpireReservations, Shorten
  <2>3. ASSUME \/ \E savedPosition \in BOOLEAN :
                    AskOwn(s, savedPosition) \/ AskInVain(s, savedPosition)
               \/ AskOthers(s) \/ IndexLock(s) \/ Register(s) \/ LookForOthers(s)
               \/ Unregister(s) \/ ReleaseLock(s) \/ ReadLocked(s) \/ Commit(s)
               \/ Signout(s) \/ Die(s)
        PROVE  UNCHANGED <<category, resv>>
    BY <2>3 DEF AskOwn, AskInVain, AskOthers, IndexLock, Register, LookForOthers, Unregister,
       ReleaseLock, ReadLocked, Commit, Signout, BeginRelease, Die
  <2>4. ASSUME NEW t \in Tasks,
               \/ TakeLock(s, t) \/ NextRow(s, t) \/ LockDirectly(s, t)
               \/ Cancel(s, t) \/ Submit(s, t) \/ ReleaseCategory(s, t)
        PROVE  UNCHANGED <<category, resv>>
    BY <2>4 DEF TakeLock, NextRow, LockDirectly, Cancel, Submit, ReleaseCategory,
       BeginRelease
  <2>5. ~Reserve(s)
    OBVIOUS
  <2>6. CASE UNCHANGED <<category, resv>>
    BY <2>6
  <2>7. QED
    BY <1>1, <2>1, <2>2, <2>3, <2>4, <2>5, <2>6, Zenon DEF Serve
<1>2. CASE TimePasses
  <2>1. ASSUME NEW u \in Users, NEW t \in Tasks, ReservationEnds(u, t)
        PROVE  /\ category' = category
               /\ \A v \in Users, x \in Tasks : resv'[v][x] # "none" => resv[v][x] # "none"
    BY <2>1 DEF ReservationEnds
  <2>2. ASSUME NEW u \in Users, DropIndex(u) \/ ActiveEnds(u)
        PROVE  UNCHANGED <<category, resv>>
    BY <2>2 DEF DropIndex, ActiveEnds
  <2>3. ASSUME NEW u \in Users, NEW t \in Tasks, NEW w \in Clocks,
               RunDown(u, t, w) \/ RunOut(u, t, w)
        PROVE  UNCHANGED <<category, resv>>
    BY <2>3 DEF RunDown, RunOut
  <2>4. CASE UNCHANGED <<category, resv>>
    BY <2>4
  <2>5. QED
    BY <1>2, <2>1, <2>2, <2>3, <2>4, Zenon DEF TimePasses
<1>3. CASE UNCHANGED vars
  BY <1>3 DEF vars
<1>4. QED
  BY <1>1, <1>2, <1>3 DEF Next

LEMMA UnseenStep == TypeOK /\ SeenInv /\ [Next]_vars => OnlyUnseen
<1> SUFFICES ASSUME TypeOK, SeenInv, [Next]_vars,
                    NEW c \in Categories, Shared(c)', ~Shared(c)
             PROVE  \E s \in Sessions :
                      Reserve(s) /\ c \in CategoriesOf(at[s]) \cap unseen[s]
  BY DEF OnlyUnseen
<1>1. PICK s \in Sessions : Reserve(s)
  BY NothingReserved DEF Shared, Reserved
<1>2. /\ category' = category
      /\ \A v \in Users, x \in Tasks :
           resv'[v][x] # "none" => resv[v][x] # "none" \/ (v = By[s] /\ x \in at[s])
  BY <1>1 DEF Reserve, TypeOK
<1>3. PICK u \in Users, v \in Users : u # v /\ Reserved(u, c)' /\ Reserved(v, c)'
  BY DEF Shared
<1>4. PICK x \in Tasks, y \in Tasks :
        /\ category[x] = c /\ resv'[u][x] # "none"
        /\ category[y] = c /\ resv'[v][y] # "none"
  BY <1>2, <1>3 DEF Reserved
<1>5. \/ resv[u][x] = "none"
      \/ resv[v][y] = "none"
  BY <1>3, <1>4 DEF Shared, Reserved
<1>6. \E t \in at[s], w \in Users \ {By[s]}, z \in Tasks :
        category[t] = c /\ category[z] = c /\ resv[w][z] # "none"
  BY <1>2, <1>3, <1>4, <1>5
<1>7. PICK t \in at[s] : category[t] = c /\ Others(s, t)
  BY <1>6 DEF Others
<1>8. t \in Tasks /\ pc[s] = "reserve"
  BY <1>1 DEF Reserve, TypeOK
<1>9. c \in unseen[s]
  BY <1>7, <1>8 DEF SeenInv
<1>10. c \in CategoriesOf(at[s])
  BY <1>7 DEF CategoriesOf
<1>11. QED
  BY <1>1, <1>9, <1>10

\* Theorem: two users come to share a category only
\* through a request that could not see the other's reservation.
THEOREM SharedTheorem == Spec => SharedUnseen
<1>1. Spec => [](TypeOK /\ SeenInv)
  BY TypeInit, TypeStep, SeenInit, SeenStep, PTL DEF Spec
<1>2. TypeOK /\ SeenInv /\ [Next]_vars => [OnlyUnseen]_vars
  BY UnseenStep
<1>3. Spec => [][OnlyUnseen]_vars
  BY <1>1, <1>2, PTL DEF Spec
<1>4. QED
  BY <1>3, PTL DEF SharedUnseen, OnlyUnseen

-----------------------------------------------------------------------------
(* The lock of a task is a semaphore of one unit.                          *)

Holding(t) == {u \in Users : lock[u][t] = "held"}

\* Whoever comes to hold a task found its hash empty.
LEMMA TaskLockStep ==
  ASSUME TypeOK, [Next]_vars, NEW t \in Tasks
  PROVE  \/ Holding(t)' \subseteq Holding(t)
         \/ Holding(t) = {} /\ \E u \in Users : Holding(t)' = {u}
<1> USE SchedulingConstants DEF TypeOK, Holding, tables, request, history
<1>1. ASSUME UNCHANGED lock PROVE Holding(t)' \subseteq Holding(t)
  BY <1>1
<1>2. ASSUME NEW s \in Sessions, NEW x \in Tasks, LockFor(x, By[s]), Admits(x, By[s])
      PROVE  \/ Holding(t)' \subseteq Holding(t)
             \/ Holding(t) = {} /\ \E u \in Users : Holding(t)' = {u}
  <2>1. By[s] \in Users
    OBVIOUS
  <2>2. CASE x = t /\ lock[By[s]][t] = "none"
    <3>1. \A v \in Users : lock[v][t] = "none"
      BY <1>2, <2>2 DEF Admits
    <3>2. \A v \in Users : lock'[v][t] = "held" <=> v = By[s]
      BY <1>2, <2>1, <2>2, <3>1 DEF LockFor
    <3>3. Holding(t) = {}
      BY <3>1
    <3>4. Holding(t)' = {By[s]}
      BY <2>1, <3>2
    <3>5. QED
      BY <2>1, <3>3, <3>4
  <2>3. CASE ~(x = t /\ lock[By[s]][t] = "none")
    <3>1. \A v \in Users : lock'[v][t] = lock[v][t]
      BY <1>2, <2>1, <2>3 DEF LockFor
    <3>2. QED
      BY <3>1
  <2>4. QED
    BY <2>2, <2>3
<1>3. ASSUME NEW s \in Sessions, NEW x \in Tasks, TakeLock(s, x) \/ LockDirectly(s, x)
      PROVE  \/ Holding(t)' \subseteq Holding(t)
             \/ Holding(t) = {} /\ \E u \in Users : Holding(t)' = {u}
  BY <1>2, <1>3 DEF TakeLock, LockDirectly
<1>4. ASSUME NEW s \in Sessions, ReleaseLock(s) PROVE Holding(t)' \subseteq Holding(t)
  <2>1. \A v \in Users : lock'[v][t] \in {lock[v][t], "ending"}
    BY <1>4 DEF ReleaseLock
  <2>2. QED
    BY <2>1
<1>5. ASSUME NEW s \in Sessions, Serve(s), ~ReleaseLock(s),
             \A x \in Tasks : ~TakeLock(s, x) /\ ~LockDirectly(s, x)
      PROVE  Holding(t)' \subseteq Holding(t)
  BY <1>1, <1>5 DEF Serve, AskOwn, AskInVain, GiveUp, AskOthers, IndexLock, Reserve, Register,
                    LookForOthers, Unregister, ReadLocked, ExpireReservations, Commit, Signout, Die, NextRow, Cancel, Submit,
                    ReleaseCategory, BeginRelease
<1>6. ASSUME NEW u \in Users, NEW x \in Tasks, NEW which \in Clocks,
             RunDown(u, x, which) \/ RunOut(u, x, which)
      PROVE  Holding(t)' \subseteq Holding(t)
  <2>1. CASE RunDown(u, x, which)
    <3>1. lock' = [lock EXCEPT ![u][x] = IF "lock" \in which /\ lock[u][x] = "held"
                                         THEN "ending" ELSE lock[u][x]]
      BY <2>1 DEF RunDown
    <3>2. QED
      BY <3>1
  <2>2. CASE RunOut(u, x, which)
    <3>1. lock' = [lock EXCEPT ![u][x] = IF "lock" \in which /\ lock[u][x] = "ending"
                                         THEN "none" ELSE lock[u][x]]
      BY <2>2 DEF RunOut
    <3>2. QED
      BY <3>1
  <2>3. QED
    BY <1>6, <2>1, <2>2
<1>7. ASSUME NEW u \in Users, DropIndex(u) \/ ActiveEnds(u) \/ \E x \in Tasks : ReservationEnds(u, x)
      PROVE  Holding(t)' \subseteq Holding(t)
  BY <1>1, <1>7 DEF DropIndex, ActiveEnds, ReservationEnds
<1>8. CASE UNCHANGED vars
  BY <1>1, <1>8 DEF vars
<1>9. QED
  BY <1>3, <1>4, <1>5, <1>6, <1>7, <1>8 DEF Next, Serve, TimePasses

\* Whatever requests, releases and expirations follow each other, and whatever became of
\* the other entries, no two users hold a task for long at the same time: its lock is what
\* LockManager promises for a limit of one.
THEOREM TaskLockTheorem == ASSUME NEW t \in Tasks PROVE Spec => TaskLock(t)!Spec
<1> DEFINE H == {u \in Users : lock[u][t] = "held"}
<1>1. Init => TaskLock(t)!Init
  BY DEF Init, TaskLock!Init
<1>2. TypeOK /\ [Next]_vars => [TaskLock(t)!Next]_<<H, 1>>
  <2> SUFFICES ASSUME TypeOK, [Next]_vars, H' # H PROVE TaskLock(t)!Next
    OBVIOUS
  <2>1. CASE H' \subseteq H
    <3>1. H \ H' \in SUBSET H /\ H \ H' # {} /\ H' = H \ (H \ H')
      BY <2>1
    <3>2. QED
      BY <3>1 DEF TaskLock!Next, TaskLock!Drop
  <2>2. ASSUME NEW u \in Users, H = {}, H' = {u} PROVE TaskLock(t)!Next
    <3>1. TaskLock(t)!Cardinality(H) = 0
      BY <2>2, FS_EmptySet DEF Cardinality, TaskLock!Cardinality
    <3>2. TaskLock(t)!Take(u)
      BY <2>2, <3>1 DEF TaskLock!Take
    <3>3. QED
      BY <3>2 DEF TaskLock!Next
  <2>3. QED
    BY <2>1, <2>2, TaskLockStep DEF Holding
<1>3. QED
  BY <1>1, <1>2, TypeCorrect, PTL DEF Spec, TaskLock!Spec
=============================================================================
