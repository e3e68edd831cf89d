------------------------ MODULE TaskCompletion_proofs ------------------------
(***************************************************************************)
(* Theorems about TaskCompletion for every number of users and requests,   *)
(* every redundancy, and every combination of the other constants that a   *)
(* theorem does not exclude by a premise.                                  *)
(***************************************************************************)
EXTENDS TaskCompletion, FiniteSetTheorems, TLAPS

-----------------------------------------------------------------------------
(* Type correctness.                                                       *)

LEMMA AnsweredFinite ==
  ASSUME NEW A \in SUBSET Requests
  PROVE  IsFiniteSet(A) /\ Cardinality(A) \in Nat
BY TaskConstants, FS_Subset, FS_CardinalityType

LEMMA RoomType == TypeOK => Room \in Nat
<1> SUFFICES ASSUME TypeOK PROVE Room \in Nat
  OBVIOUS
<1>1. runs \in SUBSET Requests /\ n \in Nat
  BY DEF TypeOK
<1>2. Cardinality(runs) \in Nat
  BY <1>1, AnsweredFinite
<1>3. QED
  BY <1>1, <1>2 DEF Room

LEMMA SupersededType ==
  ASSUME TypeOK, NEW old
  PROVE  Superseded(old) \subseteq ResultRows
<1>1. ASSUME NEW x \in ResultRows PROVE [x EXCEPT !.last = FALSE] \in ResultRows
  BY DEF ResultRows
<1>2. QED
  BY <1>1 DEF TypeOK, Superseded

\* Type correctness: every transaction leaves rows and locks of the right kind.
THEOREM TypeCorrect == Spec => []TypeOK
<1>1. Init => TypeOK
  <2>1. (Init => gold \in BOOLEAN) /\ InitialAnswers \in Nat
    BY TaskConstants, Zenon DEF Init
  <2>2. NoDraft \in [answers : SUBSET Requests, old : SUBSET ResultRows]
    BY DEF NoDraft
  <2>3. Init => exported \in BOOLEAN /\ gold \in Kinds
    BY <2>1, Zenon DEF Init
  <2>4. Init => draft \in [Requests -> [answers : SUBSET Requests, old : SUBSET ResultRows]]
    BY <2>2, Zenon DEF Init
  <2>5. Init => /\ runs \subseteq Requests /\ results \subseteq ResultRows
                /\ webhooks \subseteq Requests /\ doomed \subseteq Requests
                /\ delivered \subseteq Requests
    BY Zenon DEF Init
  <2>6. Init => /\ locks \in [Users -> {"none", "held", "released"}]
                /\ offer \in [Users -> Nat \cup {NoOffer}]
                /\ pc \in [Requests -> Steps]
    BY DEF Init, Steps
  <2>7. Init => /\ n \in Nat /\ wanted \in Nat
                /\ state \in {"ongoing", "completed"} /\ ownerPc \in OwnerSteps
    BY <2>1 DEF Init, OwnerSteps
  <2>8. Init => /\ taskLock \in Requests \cup {Owner, Nobody}
                /\ projectLock \in Requests \cup {Nobody}
                /\ reopened \in BOOLEAN /\ complete \in BOOLEAN
    BY Zenon DEF Init
  <2>9. QED
    BY <2>3, <2>4, <2>5, <2>6, <2>7, <2>8, Zenon DEF TypeOK
<1>2. TypeOK /\ [Next]_vars => TypeOK'
  <2> SUFFICES ASSUME TypeOK, [Next]_vars PROVE TypeOK'
    OBVIOUS
  <2> USE TaskConstants DEF TypeOK, Steps, OwnerSteps, Goto
  <2>1. ASSUME NEW u \in Users, Schedule(u) PROVE TypeOK'
    <3>1. CASE Query(u)
      BY <3>1, RoomType DEF Query, task, rowLocks, scheduler, owner
    <3>2. CASE AcquireLock(u)
      BY <3>2 DEF AcquireLock, task, rowLocks, owner
    <3>3. CASE LockEnds(u)
      BY <3>3 DEF LockEnds, task, rowLocks, owner
    <3>4. QED
      BY <2>1, <3>1, <3>2, <3>3 DEF Schedule
  <2>2. ASSUME NEW r \in Requests, CanPost(r) \/ Serve(r) PROVE TypeOK'
    <3> USE DEF Unchecked, task, rowLocks, scheduler, owner
    <3>1. CASE CanPost(r) \/ CheckCount(r) \/ Authorize(r) \/ Decide(r) \/ Mark(r)
      BY <3>1 DEF CanPost, CheckCount, Authorize, Decide, Mark
    <3>2. CASE Insert(r)
      BY <3>2 DEF Insert
    <3>3. CASE Complete(r)
      <4>1. /\ taskLock' \in Requests /\ pc' \in [Requests -> Steps]
            /\ UNCHANGED <<runs, task, results, projectLock, scheduler, owner, delivered>>
        BY <3>3 DEF Complete
      <4>2. webhooks' \subseteq Requests
        BY <3>3 DEF Complete
      <4>3. draft' \in [Requests -> [answers : SUBSET Requests, old : SUBSET ResultRows]]
        BY <3>3 DEF Complete
      <4>4. QED
        BY <4>1, <4>2, <4>3
    <3>4. CASE Reopen(r) \/ UpdateProject(r) \/ MarkCompleted(r)
      BY <3>4 DEF Reopen, UpdateProject, MarkCompleted
    <3>5. CASE Commit(r)
      <4>1. results' \subseteq ResultRows
        <5>1. [by |-> r, answers |-> draft[r].answers, last |-> TRUE] \in ResultRows
          BY DEF ResultRows
        <5>2. Superseded(draft[r].old) \subseteq ResultRows
          BY SupersededType
        <5>3. QED
          BY <3>5, <5>1, <5>2 DEF Commit
      <4>2. draft' \in [Requests -> [answers : SUBSET Requests, old : SUBSET ResultRows]]
        BY <3>5 DEF Commit, NoDraft
      <4>3. runs' \subseteq Requests /\ state' \in {"ongoing", "completed"}
        BY <3>5 DEF Commit
      <4>4. exported' \in BOOLEAN
        BY <3>5 DEF Commit
      <4>5. pc' \in [Requests -> Steps]
        BY <3>5 DEF Commit
      <4>6. QED
        BY <3>5, <4>1, <4>2, <4>3, <4>4, <4>5 DEF Commit
    <3>6. QED
      BY <2>2, <3>1, <3>2, <3>3, <3>4, <3>5 DEF Serve
  <2>3. ASSUME NEW r \in Requests, Crash(r) PROVE TypeOK'
    BY <2>3 DEF Crash, NoDraft, task, scheduler, owner
  <2>4. CASE OwnerActs
    <3> USE DEF UnchangedByOwner, task, scheduler
    <3>1. CASE StartRedundancy \/ ReopenExported \/ UpdateRedundancy
      BY <3>1 DEF StartRedundancy, ReopenExported, UpdateRedundancy
    <3>2. CASE SelectComplete
      BY <3>2 DEF SelectComplete
    <3>3. CASE FinishRedundancy
      <4>1. [by |-> Owner, answers |-> runs, last |-> TRUE] \in ResultRows
        BY DEF ResultRows
      <4>2. results' \subseteq ResultRows
        BY <3>3, <4>1 DEF FinishRedundancy
      <4>3. n' \in Nat /\ state' \in {"ongoing", "completed"} /\ exported' \in BOOLEAN
        BY <3>3 DEF FinishRedundancy, NewState
      <4>4. QED
        BY <3>3, <4>2, <4>3 DEF FinishRedundancy
    <3>4. CASE StartReset \/ DeleteRuns \/ DeleteResults
      BY <3>4 DEF StartReset, DeleteRuns, DeleteResults
    <3>5. CASE OwnerCrash
      BY <3>5 DEF OwnerCrash
    <3>6. QED
      BY <2>4, <3>1, <3>2, <3>3, <3>4, <3>5 DEF OwnerActs
  <2>5. CASE Export
    BY <2>5 DEF Export, rowLocks, scheduler, owner
  <2>6. CASE UNCHANGED vars
    BY <2>6 DEF vars, task, rowLocks, scheduler, owner
  <2>7. QED
    BY <2>1, <2>2, <2>3, <2>4, <2>5, <2>6 DEF Next, Rest
<1>3. QED
  BY <1>1, <1>2, PTL DEF Spec

-----------------------------------------------------------------------------
(* A golden task never completes.                                          *)

\* Nobody turns a task into a golden one, or back.
LEMMA GoldStays == [Next]_vars => gold' = gold
<1> SUFFICES ASSUME [Next]_vars PROVE gold' = gold
  OBVIOUS
<1> USE DEF task, Unchecked
<1>1. ASSUME NEW u \in Users, Schedule(u) PROVE gold' = gold
  BY <1>1 DEF Schedule, Query, AcquireLock, LockEnds
<1>2. ASSUME NEW r \in Requests, CanPost(r) \/ Serve(r) \/ Crash(r) PROVE gold' = gold
  BY <1>2 DEF CanPost, Serve, CheckCount, Authorize, Insert, Decide, Complete, Reopen,
              UpdateProject, Commit, Mark, MarkCompleted, Crash
<1>3. CASE OwnerActs
  BY <1>3 DEF OwnerActs, StartRedundancy, ReopenExported, UpdateRedundancy, SelectComplete,
              FinishRedundancy, StartReset, DeleteRuns, DeleteResults, OwnerCrash
<1>4. CASE Export \/ UNCHANGED vars
  BY <1>4 DEF Export, vars
<1>5. QED
  BY <1>1, <1>2, <1>3, <1>4 DEF Next, Rest

\* None of the three completion tests leads a golden task to its UPDATE.
GoldInv ==
  gold => /\ state # "completed" /\ ~complete
          /\ \A r \in Requests : pc[r] \notin {"decide", "complete", "write"}

LEMMA GoldInvStep ==
  ASSUME TypeOK, GoldInv, [Next]_vars
  PROVE  GoldInv'
<1> SUFFICES ASSUME gold
             PROVE  /\ state' # "completed" /\ complete' = FALSE
                    /\ \A r \in Requests : pc'[r] \notin {"decide", "complete", "write"}
  BY GoldStays, Zenon DEF GoldInv
<1> USE DEF GoldInv, TypeOK, Goto, task
<1>1. ASSUME NEW u \in Users, Schedule(u)
      PROVE  UNCHANGED <<state, complete, pc>>
  BY <1>1 DEF Schedule, Query, AcquireLock, LockEnds, owner
<1>2. ASSUME NEW r \in Requests, CanPost(r) \/ Serve(r)
      PROVE  /\ state' # "completed" /\ complete' = complete
             /\ \A q \in Requests : pc'[q] \notin {"decide", "complete", "write"}
  <2> USE DEF Unchecked, owner
  <2>1. CASE CanPost(r) \/ CheckCount(r) \/ Authorize(r) \/ Mark(r)
    BY <2>1 DEF CanPost, CheckCount, Authorize, Mark
  <2>2. CASE Insert(r) \/ Reopen(r) \/ UpdateProject(r) \/ Commit(r)
    BY <2>2 DEF Insert, Reopen, UpdateProject, Commit
  <2>3. CASE Decide(r) \/ Complete(r) \/ MarkCompleted(r)
    BY <2>3 DEF Decide, Complete, MarkCompleted
  <2>4. QED
    BY <1>2, <2>1, <2>2, <2>3 DEF Serve
<1>3. ASSUME NEW r \in Requests, Crash(r)
      PROVE  /\ UNCHANGED <<state, complete>>
             /\ \A q \in Requests : pc'[q] \notin {"decide", "complete", "write"}
  BY <1>3 DEF Crash, owner
<1>4. CASE OwnerActs
  <2> USE DEF UnchangedByOwner
  <2>1. CASE FinishRedundancy
    BY <2>1 DEF FinishRedundancy, NewState
  <2>2. CASE SelectComplete
    BY <2>2 DEF SelectComplete
  <2>3. CASE StartReset \/ DeleteRuns \/ DeleteResults \/ OwnerCrash
    BY <2>3 DEF StartReset, DeleteRuns, DeleteResults, OwnerCrash
  <2>4. CASE StartRedundancy \/ ReopenExported \/ UpdateRedundancy
    BY <2>4 DEF StartRedundancy, ReopenExported, UpdateRedundancy
  <2>5. QED
    BY <1>4, <2>1, <2>2, <2>3, <2>4 DEF OwnerActs
<1>5. CASE Export
  BY <1>5 DEF Export, owner
<1>6. CASE UNCHANGED vars
  BY <1>6 DEF vars, owner
<1>7. QED
  BY <1>1, <1>2, <1>3, <1>4, <1>5, <1>6 DEF Next, Rest

\* Golden tasks never complete, whoever submits, and whatever redundancy the
\* owner asks for meanwhile.
THEOREM GoldTheorem == Spec => []GoldStaysOpen
<1>1. Init => GoldInv
  BY DEF Init, GoldInv
<1>2. GoldInv => GoldStaysOpen
  BY DEF GoldInv, GoldStaysOpen
<1>3. QED
  BY <1>1, <1>2, GoldInvStep, TypeCorrect, PTL DEF Spec

-----------------------------------------------------------------------------
(* One last version of the result.                                         *)

\* A transaction that has inserted a result keeps the task row, and every
\* result of the table is among those it has superseded.
DraftInv ==
  \A r \in Requests : draft[r] # NoDraft =>
    /\ taskLock = r
    /\ results \subseteq draft[r].old

LEMMA LastOfCommit ==
  ASSUME TypeOK, DraftInv, OneLastVersion, NEW r \in Requests, Commit(r)
  PROVE  OneLastVersion'
<1>1. CASE draft[r] = NoDraft
  BY <1>1 DEF Commit, OneLastVersion
<1>2. CASE draft[r] # NoDraft
  <2> DEFINE new == [by |-> r, answers |-> draft[r].answers, last |-> TRUE]
  <2>1. ASSUME NEW x \in Superseded(draft[r].old) PROVE ~x.last
    <3>1. results \ draft[r].old = {}
      BY <1>2 DEF DraftInv
    <3>2. PICK y \in results : x = [y EXCEPT !.last = FALSE]
      BY <3>1 DEF Superseded
    <3>3. y \in ResultRows
      BY DEF TypeOK
    <3>4. QED
      BY <3>2, <3>3 DEF ResultRows
  <2>2. results' = Superseded(draft[r].old) \cup {new}
    BY <1>2 DEF Commit
  <2>3. QED
    BY <2>1, <2>2 DEF OneLastVersion
<1>3. QED
  BY <1>1, <1>2

\* The repair of update_task_state may only add a result when no transaction has
\* inserted one.
RepairsAlone == FinishRedundancy /\ NeedsResult => \A r \in Requests : draft[r] = NoDraft

LEMMA DraftInvStep ==
  ASSUME TypeOK, DraftInv, OneLastVersion, [Next]_vars, RepairsAlone
  PROVE  DraftInv' /\ OneLastVersion'
<1> USE DEF DraftInv, TypeOK, Goto, task
<1>0. ASSUME UNCHANGED <<results, draft, taskLock>>
      PROVE  DraftInv' /\ OneLastVersion'
  BY <1>0 DEF OneLastVersion
<1>1. ASSUME NEW u \in Users, Schedule(u)
      PROVE  UNCHANGED <<results, draft, taskLock>>
  BY <1>1 DEF Schedule, Query, AcquireLock, LockEnds, rowLocks
<1>2. ASSUME NEW r \in Requests, CanPost(r) \/ Serve(r)
      PROVE  DraftInv' /\ OneLastVersion'
  <2>1. CASE CanPost(r) \/ CheckCount(r) \/ Authorize(r) \/ Decide(r) \/ Mark(r)
    BY <1>0, <2>1 DEF CanPost, CheckCount, Authorize, Decide, Mark, Unchecked, rowLocks
  <2>2. CASE Insert(r) \/ UpdateProject(r) \/ MarkCompleted(r)
    BY <1>0, <2>2 DEF Insert, UpdateProject, MarkCompleted, rowLocks
  <2>3. CASE Complete(r)
    <3>1. \A q \in Requests : draft[q] = NoDraft
      BY <2>3, TaskConstants DEF Complete
    <3>2. QED
      BY <2>3, <3>1 DEF Complete, OneLastVersion
  <2>4. CASE Reopen(r)
    BY <2>4, TaskConstants DEF Reopen, OneLastVersion
  <2>5. CASE Commit(r)
    <3>1. ASSUME NEW q \in Requests, draft'[q] # NoDraft
          PROVE  taskLock' = q /\ results' \subseteq draft'[q].old
      <4>1. q # r /\ draft'[q] = draft[q]
        BY <2>5, <3>1 DEF Commit
      <4>2. taskLock = q /\ draft[r] = NoDraft
        BY <3>1, <4>1
      <4>3. QED
        BY <2>5, <3>1, <4>1, <4>2 DEF Commit
    <3>2. QED
      BY <2>5, <3>1, LastOfCommit
  <2>6. QED
    BY <1>2, <2>1, <2>2, <2>3, <2>4, <2>5 DEF Serve
<1>3. ASSUME NEW r \in Requests, Crash(r)
      PROVE  DraftInv' /\ OneLastVersion'
  BY <1>3 DEF Crash, OneLastVersion
<1>4. CASE OwnerActs
  <2> USE DEF UnchangedByOwner
  <2>1. CASE FinishRedundancy
    <3>1. CASE NeedsResult
      <4>1. results = {}
        BY <3>1 DEF NeedsResult
      <4>2. \A r \in Requests : draft[r] = NoDraft
        BY <2>1, <3>1 DEF RepairsAlone
      <4>3. results' = {[by |-> Owner, answers |-> runs, last |-> TRUE]}
        BY <2>1, <3>1, <4>1 DEF FinishRedundancy
      <4>4. QED
        BY <2>1, <4>2, <4>3 DEF FinishRedundancy, OneLastVersion
    <3>2. CASE ~NeedsResult
      BY <2>1, <3>2, TaskConstants DEF FinishRedundancy, OneLastVersion
    <3>3. QED
      BY <3>1, <3>2
  <2>2. CASE StartRedundancy \/ SelectComplete \/ StartReset \/ DeleteRuns
    BY <1>0, <2>2 DEF StartRedundancy, SelectComplete, StartReset, DeleteRuns
  <2>3. CASE ReopenExported \/ UpdateRedundancy
    BY <2>3, TaskConstants DEF ReopenExported, UpdateRedundancy, OneLastVersion
  <2>4. CASE DeleteResults \/ OwnerCrash
    BY <2>4, TaskConstants DEF DeleteResults, OwnerCrash, OneLastVersion
  <2>5. QED
    BY <1>4, <2>1, <2>2, <2>3, <2>4 DEF OwnerActs
<1>5. CASE Export \/ UNCHANGED vars
  BY <1>0, <1>5 DEF Export, vars, rowLocks
<1>6. QED
  BY <1>0, <1>1, <1>2, <1>3, <1>4, <1>5 DEF Next, Rest

LEMMA RepairUnderLock ==
  ASSUME DraftInv, FinishRedundancy, complete
  PROVE  \A r \in Requests : draft[r] = NoDraft
BY TaskConstants DEF DraftInv, FinishRedundancy

\* At most one result is the last version: create_result and the repair of
\* update_task_state both write results under the lock of the task row.  The
\* premise matters: the repair writes without that lock when the owner's
\* filters do not select the task.
THEOREM LastVersionTheorem == ASSUME Matched PROVE Spec => []OneLastVersion
<1>1. Init => DraftInv /\ OneLastVersion
  BY DEF Init, DraftInv, OneLastVersion
<1>2. DraftInv => RepairsAlone
  BY RepairUnderLock DEF RepairsAlone, NeedsResult, NewState
<1>3. TypeOK /\ DraftInv /\ OneLastVersion /\ [Next]_vars => (DraftInv /\ OneLastVersion)'
  BY <1>2, DraftInvStep
<1>4. QED
  BY <1>1, <1>3, TypeCorrect, PTL DEF Spec

-----------------------------------------------------------------------------
(* An owner who works on other tasks.                                      *)

\* The owner's redundancy changes select other tasks, and nothing is reset.
OwnerElsewhere == (Redundancies = {} \/ Matched = FALSE) /\ Resets = FALSE

\* Of a change for other tasks, this task only sees the repair of completed
\* tasks, which counted enough answers.
OwnerInv ==
  /\ ownerPc \in {"idle", "select", "finish"}
  /\ ownerPc # "idle" => Matched = FALSE
  /\ complete => Answered(runs, n)

LEMMA MoreAnswers ==
  ASSUME NEW A \in SUBSET Requests, NEW B \in SUBSET Requests, A \subseteq B,
         NEW required \in Nat, Answered(A, required)
  PROVE  Answered(B, required)
<1>1. IsFiniteSet(B) /\ Cardinality(A) \in Nat /\ Cardinality(B) \in Nat
  BY AnsweredFinite
<1>2. Cardinality(A) <= Cardinality(B)
  BY <1>1, FS_Subset
<1>3. QED
  BY <1>1, <1>2 DEF Answered

LEMMA OwnerInvStep ==
  ASSUME OwnerElsewhere, TypeOK, OwnerInv, [Next]_vars
  PROVE  OwnerInv'
<1> USE DEF OwnerInv, task, owner, UnchangedByOwner
<1>1. CASE OwnerActs
  <2>1. CASE StartRedundancy
    BY <2>1 DEF StartRedundancy, OwnerElsewhere, Answered
  <2>2. CASE SelectComplete
    BY <2>2 DEF SelectComplete, OwnerElsewhere, Answered
  <2>3. CASE FinishRedundancy
    BY <2>3 DEF FinishRedundancy
  <2>4. CASE OwnerCrash
    BY <2>4 DEF OwnerCrash
  <2>5. CASE ReopenExported \/ UpdateRedundancy \/ StartReset \/ DeleteRuns \/ DeleteResults
    BY <2>5 DEF ReopenExported, UpdateRedundancy, StartReset, DeleteRuns, DeleteResults,
                OwnerElsewhere
  <2>6. QED
    BY <1>1, <2>1, <2>2, <2>3, <2>4, <2>5 DEF OwnerActs
<1>2. ASSUME NEW r \in Requests, Commit(r) PROVE OwnerInv'
  <2>1. runs' = runs \cup {r} /\ n' = n /\ UNCHANGED owner
    BY <1>2 DEF Commit
  <2>2. runs \in SUBSET Requests /\ runs' \in SUBSET Requests /\ runs \subseteq runs' /\ n \in Nat
    BY <2>1 DEF TypeOK
  <2>3. Answered(runs, n) => Answered(runs', n')
    BY <2>1, <2>2, MoreAnswers
  <2>4. QED
    BY <2>1, <2>3
<1>3. ASSUME UNCHANGED <<runs, n, owner>> PROVE OwnerInv'
  BY <1>3 DEF Answered
<1>4. ASSUME NEW u \in Users, Schedule(u) PROVE OwnerInv'
  BY <1>3, <1>4 DEF Schedule, Query, AcquireLock, LockEnds
<1>5. ASSUME NEW r \in Requests, CanPost(r) \/ Serve(r) \/ Crash(r), ~Commit(r) PROVE OwnerInv'
  BY <1>3, <1>5 DEF Serve, CanPost, CheckCount, Authorize, Insert, Decide, Complete, Reopen,
                    UpdateProject, Mark, MarkCompleted, Crash, Unchecked
<1>6. CASE Export \/ UNCHANGED vars
  BY <1>3, <1>6 DEF Export, vars
<1>7. QED
  BY <1>1, <1>2, <1>4, <1>5, <1>6 DEF Next, Rest

LEMMA OwnerInvariant == ASSUME OwnerElsewhere PROVE Spec => []OwnerInv
<1>1. Init => OwnerInv
  BY DEF Init, OwnerInv
<1>2. TypeOK /\ OwnerInv /\ [Next]_vars => OwnerInv'
  BY OwnerInvStep
<1>3. QED
  BY <1>1, <1>2, TypeCorrect, PTL DEF Spec

\* What is left of the owner's steps.
LEMMA OwnerEffect ==
  ASSUME OwnerElsewhere, TypeOK, OwnerInv, OwnerActs
  PROVE  /\ UNCHANGED <<runs, n, locks, offer, pc>>
         /\ state' = state \/ (state' = "completed" /\ Answered(runs, n))
         /\ taskLock' = taskLock \/ taskLock' = Nobody
<1> USE DEF OwnerInv, task, scheduler, UnchangedByOwner
<1>1. CASE StartRedundancy \/ SelectComplete \/ OwnerCrash
  BY <1>1 DEF StartRedundancy, SelectComplete, OwnerCrash
<1>2. CASE FinishRedundancy
  BY <1>2 DEF FinishRedundancy, NewState
<1>3. CASE ReopenExported \/ UpdateRedundancy \/ StartReset \/ DeleteRuns \/ DeleteResults
  BY <1>3 DEF ReopenExported, UpdateRedundancy, StartReset, DeleteRuns, DeleteResults,
              OwnerElsewhere
<1>4. QED
  BY <1>1, <1>2, <1>3 DEF OwnerActs

-----------------------------------------------------------------------------
(* A task is never over-answered while the locks hold.                     *)

\* The premises: every user sends one request, a lock outlives what it protects, and the
\* task is no golden one; for what changes with the redundancy, the owner works on other
\* tasks.
OneRequestEach == \A q, r \in Requests : UserOf[q] = UserOf[r] => q = r
LocksProtect   == OneRequestEach /\ Timely = TRUE /\ Kinds = {FALSE}
LocksHold      == LocksProtect /\ OwnerElsewhere

LEMMA NotGold == LocksProtect /\ TypeOK => ~gold
BY Zenon DEF LocksProtect, TypeOK

\* The redundancies that this task is ever given.
Asked == {InitialAnswers} \cup {w \in Redundancies : Matched}
\* Steps at which the owner has asked for one.
Asking == {"reopen", "update", "select", "finish"}
AskedInv == n \in Asked /\ (ownerPc \in Asking => wanted \in Redundancies)

Answerers == {UserOf[r] : r \in runs}
\* Users whose answer the release delay does not announce any more.
Spent == {u \in Answerers : locks[u] # "released"}
\* Steps between the release of the lock and the end of the transaction.
Released == {"decide", "complete", "reopen", "project", "commit"}

\* The lock of a user is visible while the answer is on its way.
PostInv ==
  \A r \in Requests :
    /\ pc[r] \in Posting => locks[UserOf[r]] # "none"
    /\ pc[r] \in Released => locks[UserOf[r]] = "released"
    /\ pc[r] \in Posting \cup {"idle"} => r \notin runs

\* The room a scheduler has read covers every answer that no lock stands for.
OfferInv(M) == \A u \in Users : offer[u] > 0 => offer[u] + Cardinality(Spent) <= M

\* Users with an answer or a lock never exceed what the task asks for.
Fit(M)   == Cardinality(LockedUsers \cup Answerers) <= M
CountInv == Fit(n)

\* When every user sends one request, there are as many users as runs.
LEMMA UsersOfRuns ==
  ASSUME OneRequestEach, NEW A \in SUBSET Requests
  PROVE  /\ {UserOf[r] : r \in A} \in SUBSET Users
         /\ Cardinality({UserOf[r] : r \in A}) = Cardinality(A)
<1> DEFINE T == {UserOf[r] : r \in A}
           f == [r \in A |-> UserOf[r]]
<1>1. f \in Bijection(A, T)
  <2>1. f \in [A -> T]
    OBVIOUS
  <2>2. \A q, r \in A : f[q] = f[r] => q = r
    BY DEF OneRequestEach
  <2>3. \A t \in T : \E r \in A : f[r] = t
    OBVIOUS
  <2>4. QED
    BY <2>1, <2>2, <2>3 DEF Bijection, Injection, Surjection, IsInjective
<1>2. IsFiniteSet(A)
  BY AnsweredFinite
<1>3. Cardinality(T) = Cardinality(A)
  BY <1>1, <1>2, FS_Bijection DEF ExistsBijection
<1>4. QED
  BY <1>3, TaskConstants

LEMMA FewerUsers ==
  ASSUME NEW A \in SUBSET Users, NEW B \in SUBSET Users, A \subseteq B
  PROVE  /\ IsFiniteSet(A) /\ Cardinality(A) \in Nat /\ Cardinality(B) \in Nat
         /\ Cardinality(A) <= Cardinality(B)
<1>1. IsFiniteSet(B)
  BY TaskConstants, FS_Subset
<1>2. QED
  BY <1>1, FS_Subset, FS_CardinalityType

\* The facts about the sets of users that every step below relies on.
LEMMA Facts ==
  ASSUME OneRequestEach, TypeOK
  PROVE  /\ Answerers \in SUBSET Users /\ LockedUsers \in SUBSET Users
         /\ Spent \in SUBSET Answerers
         /\ Cardinality(Answerers) = Cardinality(runs)
         /\ Cardinality(runs) \in Nat /\ n \in Nat /\ Room \in Nat
         /\ Cardinality(LockedUsers) \in Nat
         /\ Cardinality(Spent) \in Nat /\ Cardinality(Spent) <= Cardinality(runs)
<1>1. runs \in SUBSET Requests /\ n \in Nat
  BY DEF TypeOK
<1>2. Answerers \in SUBSET Users /\ Cardinality(Answerers) = Cardinality(runs)
  BY <1>1, UsersOfRuns DEF Answerers
<1>3. LockedUsers \in SUBSET Users /\ Spent \in SUBSET Answerers
  BY DEF LockedUsers, Spent
<1>4. Spent \in SUBSET Users
  BY <1>2, <1>3
<1>5. QED
  BY <1>1, <1>2, <1>3, <1>4, FewerUsers, AnsweredFinite, RoomType

\* What a scheduler reads leaves room for the answers there are.
LEMMA RoomFits ==
  ASSUME OneRequestEach, TypeOK, NEW M \in Nat, n <= M, Room > 0, NEW A \in SUBSET Answerers
  PROVE  Room + Cardinality(A) <= M
<1>1. Cardinality(A) <= Cardinality(runs) /\ Cardinality(A) \in Nat
  BY Facts, FewerUsers
<1>2. QED
  BY <1>1, Facts DEF Room

\* What a step must leave alone for the counts to stay as they are.
counted == <<runs, locks, offer>>

LEMMA CountsStay ==
  ASSUME NEW M \in Nat, OfferInv(M), Fit(M), UNCHANGED counted
  PROVE  OfferInv(M)' /\ Fit(M)'
<1>1. LockedUsers' = LockedUsers /\ Answerers' = Answerers /\ offer' = offer /\ locks' = locks
  BY DEF counted, LockedUsers, Answerers
<1>2. Spent' = Spent
  BY <1>1 DEF Spent
<1>3. QED
  BY <1>1, <1>2 DEF OfferInv, Fit

LEMMA QueryCounts ==
  ASSUME LocksProtect, TypeOK, NEW M \in Nat, n <= M, OfferInv(M), Fit(M),
         NEW u \in Users, Query(u)
  PROVE  OfferInv(M)' /\ Fit(M)'
<1>1. /\ LockedUsers' = LockedUsers /\ Answerers' = Answerers
      /\ locks' = locks /\ offer' = [offer EXCEPT ![u] = Room]
  BY DEF Query, LockedUsers, Answerers
<1>2. Spent' = Spent
  BY <1>1 DEF Spent
<1>3. Room > 0 => Room + Cardinality(Spent) <= M
  BY Facts, RoomFits DEF LocksProtect
<1>4. ASSUME NEW v \in Users, offer'[v] > 0
      PROVE  offer'[v] + Cardinality(Spent) <= M
  BY <1>1, <1>3, <1>4 DEF OfferInv, TypeOK
<1>5. QED
  BY <1>1, <1>2, <1>4 DEF OfferInv, Fit

\* The room that admits a lock covers the answers that no lock stands for, and the
\* locks before it stand for the others.
LEMMA AcquireCounts ==
  ASSUME LocksProtect, TypeOK, NEW M \in Nat, OfferInv(M), Fit(M),
         NEW u \in Users, AcquireLock(u)
  PROVE  OfferInv(M)' /\ Fit(M)'
<1>1. Answerers' = Answerers /\ offer' = [offer EXCEPT ![u] = NoOffer]
  BY DEF AcquireLock, Answerers
<1>2. \A v \in Users : locks'[v] = "released" <=> locks[v] = "released"
  BY DEF AcquireLock, TypeOK
<1>3. Spent' = Spent
  BY <1>1, <1>2, Facts DEF Spent, LocksProtect
<1>4. OfferInv(M)'
  BY <1>1, <1>3 DEF OfferInv, TypeOK, NoOffer
<1>5. CASE locks' = locks
  <2>1. LockedUsers' = LockedUsers
    BY <1>5 DEF LockedUsers
  <2>2. QED
    BY <1>1, <1>4, <2>1 DEF Fit
<1>6. CASE locks' # locks
  <2>1. /\ locks[u] = "none" /\ locks' = [locks EXCEPT ![u] = "held"]
        /\ Cardinality(LockedUsers) < offer[u] /\ offer[u] \in Int
    BY <1>6, NotGold DEF AcquireLock, TypeOK, NoOffer
  <2>2. LockedUsers' = LockedUsers \cup {u} /\ u \notin LockedUsers
    BY <2>1 DEF LockedUsers, TypeOK
  <2>3. /\ Answerers \in SUBSET Users /\ LockedUsers \in SUBSET Users /\ Spent \in SUBSET Users
        /\ Cardinality(LockedUsers) \in Nat /\ Cardinality(Spent) \in Nat
    BY Facts DEF LocksProtect
  <2>4. offer[u] + Cardinality(Spent) <= M
    BY <2>1, <2>3 DEF OfferInv
  <2>5. LockedUsers' \cup Answerers' \subseteq (LockedUsers \cup {u}) \cup Spent
    <3>1. \A v \in Answerers : v \in LockedUsers \cup Spent
      BY <2>3 DEF Spent, LockedUsers
    <3>2. QED
      BY <1>1, <2>2, <3>1
  <2>6. IsFiniteSet(LockedUsers) /\ IsFiniteSet(Spent)
    BY <2>3, FewerUsers
  <2>7. /\ IsFiniteSet(LockedUsers \cup {u})
        /\ Cardinality(LockedUsers \cup {u}) = Cardinality(LockedUsers) + 1
    BY <2>2, <2>6, FS_AddElement
  <2>8. Cardinality((LockedUsers \cup {u}) \cup Spent) <= Cardinality(LockedUsers) + 1 + Cardinality(Spent)
    <3>1. /\ Cardinality((LockedUsers \cup {u}) \cup Spent)
               = Cardinality(LockedUsers \cup {u}) + Cardinality(Spent)
                   - Cardinality((LockedUsers \cup {u}) \cap Spent)
          /\ Cardinality((LockedUsers \cup {u}) \cap Spent) \in Nat
      BY <2>6, <2>7, FS_Union, FS_Intersection, FS_CardinalityType
    <3>2. QED
      BY <2>3, <2>7, <3>1
  <2>9. /\ Cardinality(LockedUsers' \cup Answerers')
             <= Cardinality((LockedUsers \cup {u}) \cup Spent)
        /\ Cardinality(LockedUsers' \cup Answerers') \in Nat
        /\ Cardinality((LockedUsers \cup {u}) \cup Spent) \in Nat
    BY <1>1, <2>2, <2>3, <2>5, FewerUsers
  <2>10. QED
    BY <1>4, <2>1, <2>3, <2>4, <2>8, <2>9 DEF Fit
<1>7. QED
  BY <1>4, <1>5, <1>6

\* When a release delay ends, every scheduler has read the answer or was refused.
LEMMA EndsCounts ==
  ASSUME LocksProtect, TypeOK, NEW M \in Nat, n <= M, OfferInv(M), Fit(M),
         NEW u \in Users, LockEnds(u)
  PROVE  OfferInv(M)' /\ Fit(M)'
<1>1. /\ Answerers' = Answerers /\ offer' = offer
      /\ locks' = [locks EXCEPT ![u] = "none"] /\ locks[u] # "none" /\ Outlived(u)
  BY DEF LockEnds, Answerers, LocksProtect
<1>2. Answerers \in SUBSET Users /\ LockedUsers \in SUBSET Users /\ OneRequestEach
  BY Facts DEF LocksProtect
<1>3. Fit(M)'
  <2>1. LockedUsers' \subseteq LockedUsers
    BY <1>1 DEF LockedUsers, TypeOK
  <2>2. /\ Cardinality(LockedUsers' \cup Answerers') <= Cardinality(LockedUsers \cup Answerers)
        /\ Cardinality(LockedUsers' \cup Answerers') \in Nat
        /\ Cardinality(LockedUsers \cup Answerers) \in Nat
    BY <1>1, <1>2, <2>1, FewerUsers
  <2>3. QED
    BY <2>2 DEF Fit
<1>4. CASE locks[u] = "held"
  <2>1. \A v \in Users : locks'[v] = "released" <=> locks[v] = "released"
    BY <1>1, <1>4 DEF TypeOK
  <2>2. Spent' = Spent
    BY <1>1, <1>2, <2>1 DEF Spent
  <2>3. QED
    BY <1>1, <1>3, <2>2 DEF OfferInv
<1>5. CASE locks[u] = "released"
  <2>1. \A v \in Users : offer[v] \in {NoOffer, Room}
    BY <1>1, <1>5 DEF Outlived
  <2>2. Spent' \in SUBSET Answerers
    BY <1>1 DEF Spent
  <2>3. Room > 0 => Room + Cardinality(Spent') <= M
    BY <1>2, <2>2, RoomFits
  <2>4. QED
    BY <1>1, <1>3, <2>1, <2>3 DEF OfferInv, NoOffer
<1>6. QED
  BY <1>1, <1>4, <1>5 DEF TypeOK

\* From a lock to its release delay, of a user who may have an answer.
LEMMA InsertCounts ==
  ASSUME LocksProtect, TypeOK, PostInv, NEW M \in Nat, OfferInv(M), Fit(M),
         NEW r \in Requests, Insert(r)
  PROVE  OfferInv(M)' /\ Fit(M)'
<1>1. /\ locks' = [locks EXCEPT ![UserOf[r]] = "released"]
      /\ Answerers' = Answerers /\ offer' = offer /\ pc[r] = "insert"
  BY DEF Insert, Answerers
<1>2. UserOf[r] \in Users /\ locks[UserOf[r]] # "none"
  BY <1>1, TaskConstants DEF PostInv, Posting, Steps
<1>3. LockedUsers' = LockedUsers
  BY <1>1, <1>2 DEF LockedUsers, TypeOK
<1>4. /\ Answerers \in SUBSET Users /\ Spent \in SUBSET Users
      /\ offer \in [Users -> Nat \cup {NoOffer}]
  BY Facts DEF LocksProtect, TypeOK
<1>5. Spent' \subseteq Spent
  BY <1>1, <1>4 DEF Spent, TypeOK
<1>6. /\ Cardinality(Spent') <= Cardinality(Spent)
      /\ Cardinality(Spent') \in Nat /\ Cardinality(Spent) \in Nat
  BY <1>4, <1>5, FewerUsers
<1>7. QED
  BY <1>1, <1>3, <1>4, <1>6 DEF OfferInv, Fit, NoOffer

\* The answer that is committed is that of a user whose lock is visible still.
LEMMA CommitCounts ==
  ASSUME LocksProtect, TypeOK, PostInv, NEW M \in Nat, OfferInv(M), Fit(M),
         NEW r \in Requests, Commit(r)
  PROVE  OfferInv(M)' /\ Fit(M)'
<1>1. /\ runs' = runs \cup {r} /\ offer' = offer /\ locks' = locks /\ pc[r] = "commit"
  BY DEF Commit, scheduler
<1>2. UserOf[r] \in Users /\ locks[UserOf[r]] = "released"
  BY <1>1, TaskConstants DEF PostInv, Released
<1>3. Answerers' = Answerers \cup {UserOf[r]}
  BY <1>1 DEF Answerers
<1>4. LockedUsers' = LockedUsers /\ UserOf[r] \in LockedUsers
  BY <1>1, <1>2 DEF LockedUsers
<1>5. Spent' = Spent
  BY <1>1, <1>2, <1>3 DEF Spent
<1>6. LockedUsers' \cup Answerers' = LockedUsers \cup Answerers
  BY <1>3, <1>4
<1>7. QED
  BY <1>1, <1>5, <1>6 DEF OfferInv, Fit

\* The owner takes answers away, but touches neither locks nor offers nor requests.
LEMMA OwnerCounts ==
  ASSUME LocksProtect, TypeOK, PostInv, NEW M \in Nat, OfferInv(M), Fit(M), OwnerActs
  PROVE  PostInv' /\ OfferInv(M)' /\ Fit(M)'
<1>1. UNCHANGED <<locks, offer, pc>> /\ runs' \subseteq runs
  BY DEF OwnerActs, StartRedundancy, ReopenExported, UpdateRedundancy, SelectComplete,
         FinishRedundancy, StartReset, DeleteRuns, DeleteResults, OwnerCrash,
         UnchangedByOwner, scheduler
<1>2. LockedUsers' = LockedUsers /\ Answerers' \subseteq Answerers /\ Spent' \subseteq Spent
  BY <1>1 DEF LockedUsers, Answerers, Spent
<1>3. /\ Answerers \in SUBSET Users /\ LockedUsers \in SUBSET Users /\ Spent \in SUBSET Users
      /\ offer \in [Users -> Nat \cup {NoOffer}]
  BY Facts DEF LocksProtect, TypeOK
<1>4. /\ Cardinality(Spent') <= Cardinality(Spent)
      /\ Cardinality(Spent') \in Nat /\ Cardinality(Spent) \in Nat
  BY <1>2, <1>3, FewerUsers
<1>5. /\ Cardinality(LockedUsers' \cup Answerers') <= Cardinality(LockedUsers \cup Answerers)
      /\ Cardinality(LockedUsers' \cup Answerers') \in Nat
      /\ Cardinality(LockedUsers \cup Answerers) \in Nat
  BY <1>2, <1>3, FewerUsers
<1>6. OfferInv(M)' /\ Fit(M)'
  BY <1>1, <1>3, <1>4, <1>5 DEF OfferInv, Fit, NoOffer
<1>7. PostInv'
  BY <1>1 DEF PostInv
<1>8. QED
  BY <1>6, <1>7

\* A step of the requests that changes neither the runs nor the locks.
LEMMA PostStays ==
  ASSUME TypeOK, PostInv, NEW r \in Requests, NEW step \in Steps, Goto(r, step),
         UNCHANGED <<runs, locks>>,
         step \in Posting => locks[UserOf[r]] # "none",
         step \in Released => locks[UserOf[r]] = "released",
         step \in Posting => pc[r] \in Posting \cup {"idle"},
         step # "idle"
  PROVE  PostInv'
BY DEF PostInv, Goto, TypeOK, Posting, Released, Steps

LEMMA OverAnswerStep ==
  ASSUME LocksProtect, TypeOK, PostInv, NEW M \in Nat, n <= M, OfferInv(M), Fit(M), [Next]_vars
  PROVE  PostInv' /\ OfferInv(M)' /\ Fit(M)'
<1> USE DEF Unchecked, task, scheduler, owner
<1>1. ASSUME NEW u \in Users, Schedule(u)
      PROVE  PostInv' /\ OfferInv(M)' /\ Fit(M)'
  <2>1. CASE Query(u)
    <3>1. PostInv'
      BY <2>1 DEF Query, PostInv
    <3>2. QED
      BY <2>1, <3>1, QueryCounts
  <2>2. CASE AcquireLock(u)
    <3>1. \A v \in Users : locks[v] # "none" => locks'[v] = locks[v]
      BY <2>2 DEF AcquireLock, TypeOK
    <3>2. UNCHANGED <<runs, pc>>
      BY <2>2 DEF AcquireLock
    <3>3. PostInv'
      BY <3>1, <3>2, TaskConstants DEF PostInv
    <3>4. QED
      BY <2>2, <3>3, AcquireCounts
  <2>3. CASE LockEnds(u)
    <3>1. locks' = [locks EXCEPT ![u] = "none"] /\ UNCHANGED <<runs, pc>>
      BY <2>3 DEF LockEnds
    <3>2. \A r \in Requests : pc[r] \in Posting => UserOf[r] # u
      BY <2>3 DEF LockEnds, Outlived, LocksProtect
    <3>3. Released \subseteq Posting
      BY DEF Released, Posting, Steps
    <3>4. PostInv'
      BY <3>1, <3>2, <3>3, TaskConstants DEF PostInv, TypeOK
    <3>5. QED
      BY <2>3, <3>4, EndsCounts
  <2>4. QED
    BY <1>1, <2>1, <2>2, <2>3 DEF Schedule
<1>2. ASSUME NEW r \in Requests, CanPost(r) \/ Serve(r)
      PROVE  PostInv' /\ OfferInv(M)' /\ Fit(M)'
  <2> USE DEF Goto, Steps, Posting, Released
  <2>1. CASE CanPost(r)
    BY <2>1, CountsStay, PostStays DEF CanPost, counted
  <2>2. CASE CheckCount(r) \/ Authorize(r) \/ Mark(r)
    BY <2>2, CountsStay, PostStays DEF CheckCount, Authorize, Mark, counted, PostInv
  <2>3. CASE Decide(r) \/ UpdateProject(r) \/ MarkCompleted(r)
    BY <2>3, CountsStay, PostStays DEF Decide, UpdateProject, MarkCompleted, counted, PostInv
  <2>4. CASE Complete(r) \/ Reopen(r)
    BY <2>4, CountsStay, PostStays DEF Complete, Reopen, counted, PostInv
  <2>5. CASE Insert(r)
    <3>1. /\ locks' = [locks EXCEPT ![UserOf[r]] = "released"] /\ UNCHANGED runs
          /\ pc[r] = "insert" /\ pc' = [pc EXCEPT ![r] = "decide"]
      BY <2>5, NotGold DEF Insert
    <3>2. PostInv'
      BY <3>1, TaskConstants DEF PostInv, TypeOK
    <3>3. QED
      BY <2>5, <3>2, InsertCounts
  <2>6. CASE Commit(r)
    <3>1. runs' = runs \cup {r} /\ UNCHANGED locks /\ pc' = [pc EXCEPT ![r] = "mark"]
      BY <2>6 DEF Commit
    <3>2. PostInv'
      BY <3>1 DEF PostInv, TypeOK
    <3>3. QED
      BY <2>6, <3>2, CommitCounts
  <2>7. QED
    BY <1>2, <2>1, <2>2, <2>3, <2>4, <2>5, <2>6 DEF Serve
<1>3. ASSUME NEW r \in Requests, Crash(r)
      PROVE  PostInv' /\ OfferInv(M)' /\ Fit(M)'
  BY <1>3, CountsStay, PostStays DEF Crash, counted, Goto, Steps, Posting, Released
<1>4. CASE OwnerActs
  BY <1>4, OwnerCounts
<1>5. CASE Export \/ UNCHANGED vars
  BY <1>5, CountsStay DEF Export, vars, counted, PostInv
<1>6. QED
  BY <1>1, <1>2, <1>3, <1>4, <1>5 DEF Next, Rest

LEMMA AskedInvStep ==
  ASSUME TypeOK, AskedInv, [Next]_vars
  PROVE  AskedInv'
<1> USE DEF AskedInv, task, owner
<1>1. ASSUME UNCHANGED <<n, ownerPc, wanted>> PROVE AskedInv'
  BY <1>1 DEF Asked
<1>2. ASSUME NEW u \in Users, Schedule(u) PROVE AskedInv'
  BY <1>1, <1>2 DEF Schedule, Query, AcquireLock, LockEnds
<1>3. ASSUME NEW r \in Requests, CanPost(r) \/ Serve(r) \/ Crash(r) PROVE AskedInv'
  BY <1>1, <1>3 DEF Serve, CanPost, CheckCount, Authorize, Insert, Decide, Complete, Reopen,
                    UpdateProject, Commit, Mark, MarkCompleted, Crash, Unchecked
<1>4. CASE OwnerActs
  <2>1. CASE StartRedundancy \/ ReopenExported \/ UpdateRedundancy \/ SelectComplete
    BY <2>1 DEF StartRedundancy, ReopenExported, UpdateRedundancy, SelectComplete, Asked, Asking
  <2>2. CASE FinishRedundancy
    BY <2>2 DEF FinishRedundancy, Asked, Asking
  <2>3. CASE StartReset \/ DeleteRuns \/ DeleteResults \/ OwnerCrash
    BY <2>3 DEF StartReset, DeleteRuns, DeleteResults, OwnerCrash, Asked, Asking
  <2>4. QED
    BY <1>4, <2>1, <2>2, <2>3 DEF OwnerActs
<1>5. CASE Export \/ UNCHANGED vars
  BY <1>1, <1>5 DEF Export, vars
<1>6. QED
  BY <1>2, <1>3, <1>4, <1>5 DEF Next, Rest

\* A task is given no other redundancy than those the owner asked for.
LEMMA AskedInvariant == Spec => []AskedInv
<1>1. Init => AskedInv
  BY DEF Init, AskedInv, Asked, Asking
<1>2. QED
  BY <1>1, AskedInvStep, TypeCorrect, PTL DEF Spec

LEMMA FitInit ==
  ASSUME NEW M \in Nat, Init
  PROVE  PostInv /\ OfferInv(M) /\ Fit(M)
<1>1. LockedUsers \cup Answerers = {}
  BY DEF Init, LockedUsers, Answerers
<1>2. Cardinality(LockedUsers \cup Answerers) = 0
  BY <1>1, FS_EmptySet, Zenon
<1>3. PostInv
  BY TaskConstants DEF Init, PostInv, Posting, Released, Steps
<1>4. OfferInv(M)
  BY DEF Init, OfferInv, NoOffer
<1>5. QED
  BY <1>2, <1>3, <1>4 DEF Fit

LEMMA FitStep ==
  ASSUME LocksProtect, NEW M \in Nat, \A w \in Asked : w <= M,
         TypeOK, AskedInv, PostInv, OfferInv(M), Fit(M), [Next]_vars
  PROVE  PostInv' /\ OfferInv(M)' /\ Fit(M)'
<1>1. n <= M
  BY DEF AskedInv
<1>2. QED
  BY <1>1, OverAnswerStep

LEMMA RunsFit ==
  ASSUME OneRequestEach, TypeOK, NEW M \in Nat, Fit(M)
  PROVE  Cardinality(runs) <= M
<1>1. LockedUsers \cup Answerers \in SUBSET Users /\ Answerers \subseteq LockedUsers \cup Answerers
  BY Facts
<1>2. /\ Cardinality(Answerers) <= Cardinality(LockedUsers \cup Answerers)
      /\ Cardinality(LockedUsers \cup Answerers) \in Nat
  BY <1>1, Facts, FewerUsers
<1>3. QED
  BY <1>2, Facts DEF Fit

\* Whatever redundancies the owner asks for while answers arrive, raising and lowering
\* them, and whatever he resets, the task never has more answers than the largest of
\* them, as long as each worker sends one request and the locks outlive what they protect:
\* the schedulers that read more room than there is by now have read no more than that.
THEOREM AskedTheorem ==
  ASSUME LocksProtect, NEW M \in Nat, \A w \in Asked : w <= M
  PROVE  Spec => [](Cardinality(runs) <= M)
<1>1. Init => PostInv /\ OfferInv(M) /\ Fit(M)
  BY FitInit
<1>2. TypeOK /\ AskedInv /\ PostInv /\ OfferInv(M) /\ Fit(M) /\ [Next]_vars
        => PostInv' /\ OfferInv(M)' /\ Fit(M)'
  BY FitStep
<1>3. TypeOK /\ Fit(M) => Cardinality(runs) <= M
  BY RunsFit DEF LocksProtect
<1>4. QED
  BY <1>1, <1>2, <1>3, AskedInvariant, TypeCorrect, PTL DEF Spec

LEMMA FitsWhatItAsks ==
  ASSUME LocksProtect, Matched = FALSE \/ Redundancies = {}
  PROVE  Spec => [](TypeOK /\ PostInv /\ CountInv)
<1> DEFINE M == InitialAnswers
<1>1. M \in Nat /\ Asked = {M}
  BY TaskConstants DEF Asked
<1>2. Init => PostInv /\ OfferInv(M) /\ Fit(M)
  BY <1>1, FitInit
<1>3. TypeOK /\ AskedInv /\ PostInv /\ OfferInv(M) /\ Fit(M) /\ [Next]_vars
        => PostInv' /\ OfferInv(M)' /\ Fit(M)'
  <2>1. \A w \in Asked : w <= M
    BY <1>1
  <2> HIDE DEF M
  <2>2. QED
    BY <1>1, <2>1, FitStep
<1>4. AskedInv /\ Fit(M) => CountInv
  BY <1>1 DEF AskedInv, CountInv, Fit
<1> HIDE DEF M
<1>5. QED
  BY <1>2, <1>3, <1>4, AskedInvariant, TypeCorrect, PTL DEF Spec

LEMMA CountInvariant ==
  ASSUME LocksHold PROVE Spec => [](TypeOK /\ OwnerInv /\ PostInv /\ CountInv)
<1>1. Spec => []OwnerInv
  BY OwnerInvariant DEF LocksHold
<1>2. Spec => [](TypeOK /\ PostInv /\ CountInv)
  BY FitsWhatItAsks DEF LocksHold, OwnerElsewhere
<1>3. QED
  BY <1>1, <1>2, PTL

\* A task never collects more answers than it asks for, whatever number of workers and
\* schedulers interleave and whatever is reset, as long as each worker sends one request,
\* the owner changes the redundancy of other tasks and the locks outlive what they protect.
THEOREM OverAnswerTheorem ==
  ASSUME LocksProtect, Matched = FALSE \/ Redundancies = {}
  PROVE  Spec => []NotOverAnswered
<1>1. TypeOK /\ CountInv => NotOverAnswered
  BY RunsFit DEF CountInv, NotOverAnswered, LocksProtect, TypeOK
<1>2. Spec => [](TypeOK /\ PostInv /\ CountInv)
  BY FitsWhatItAsks
<1>3. QED
  BY <1>1, <1>2, PTL

-----------------------------------------------------------------------------
(* Completion, as long as the owner works on other tasks.                  *)

\* Whoever is about to complete the task has counted enough answers, his own
\* included; answers that come later only add to them.
CountedInv ==
  \A r \in Requests :
    /\ pc[r] = "complete" => Answered(runs \cup {r}, n)
    /\ pc[r] = "reopen" => gold
    /\ taskLock = r /\ ~gold => Answered(runs \cup {r}, n)
    /\ pc[r] = "write" => Answered(runs, n)

CompletedInv == CountedInv /\ CompletedMeansAnswered

LEMMA CompletedInvStep ==
  ASSUME OwnerElsewhere, TypeOK, OwnerInv, CompletedInv, [Next]_vars
  PROVE  CompletedInv'
<1>0. gold' = gold
  BY GoldStays
<1> USE <1>0 DEF CompletedInv, Unchecked, task, owner, rowLocks
<1>1. runs \in SUBSET Requests /\ n \in Nat
  BY DEF TypeOK
<1>2. ASSUME UNCHANGED <<runs, n, state, taskLock, pc>>
      PROVE  CompletedInv'
  BY <1>2 DEF CountedInv, CompletedMeansAnswered, Answered
<1>3. ASSUME NEW u \in Users, Schedule(u)
      PROVE  CompletedInv'
  BY <1>2, <1>3 DEF Schedule, Query, AcquireLock, LockEnds
<1>4. ASSUME NEW r \in Requests, CanPost(r) \/ Serve(r)
      PROVE  CompletedInv'
  <2> USE DEF Goto
  <2>1. CASE CanPost(r) \/ CheckCount(r) \/ Authorize(r)
    BY <2>1 DEF CanPost, CheckCount, Authorize, CountedInv, CompletedMeansAnswered, Answered, TypeOK
  <2>2. CASE Decide(r)
    <3>1. /\ pc' = [pc EXCEPT ![r] = pc'[r]] /\ pc'[r] \notin {"reopen", "write"}
          /\ pc'[r] = "complete" => Answered(runs \cup {r}, n)
          /\ UNCHANGED <<runs, n, state, taskLock>>
      BY <2>2 DEF Decide, TypeOK
    <3>2. QED
      BY <3>1 DEF CountedInv, CompletedMeansAnswered, Answered, TypeOK
  <2>3. CASE Mark(r)
    BY <2>3 DEF Mark, CountedInv, CompletedMeansAnswered, Answered, TypeOK
  <2>4. CASE Insert(r)
    <3>1. /\ pc' = [pc EXCEPT ![r] = pc'[r]] /\ pc'[r] \notin {"complete", "write"}
          /\ pc'[r] = "reopen" => gold
      BY <2>4 DEF Insert, TypeOK
    <3>2. QED
      BY <2>4, <3>1 DEF Insert, CountedInv, CompletedMeansAnswered, Answered, TypeOK
  <2>5. CASE UpdateProject(r)
    BY <2>5 DEF UpdateProject, CountedInv, CompletedMeansAnswered, Answered, TypeOK
  <2>6. CASE Complete(r)
    BY <2>6, TaskConstants DEF Complete, CountedInv, CompletedMeansAnswered, Answered, TypeOK
  <2>7. CASE Reopen(r)
    BY <2>7, TaskConstants DEF Reopen, CountedInv, CompletedMeansAnswered, Answered, TypeOK
  <2>8. CASE MarkCompleted(r)
    <3>1. /\ pc[r] = "write" /\ pc' = [pc EXCEPT ![r] = "done"]
          /\ UNCHANGED <<runs, n, taskLock>>
      BY <2>8 DEF MarkCompleted
    <3>2. CompletedMeansAnswered'
      BY <3>1 DEF CountedInv, CompletedMeansAnswered, Answered
    <3>3. CountedInv'
      BY <3>1 DEF CountedInv, Answered, TypeOK
    <3>4. QED
      BY <3>2, <3>3
  <2>9. CASE Commit(r)
    <3>1. /\ runs' = runs \cup {r} /\ n' = n
          /\ state' = IF taskLock = r /\ ~gold THEN "completed" ELSE state
          /\ taskLock' = IF taskLock = r THEN Nobody ELSE taskLock
          /\ pc' = [pc EXCEPT ![r] = "mark"]
      BY <2>9 DEF Commit
    <3>2. CompletedMeansAnswered'
      <4>1. CASE taskLock = r /\ ~gold
        BY <3>1, <4>1 DEF CountedInv, CompletedMeansAnswered, Answered
      <4>2. CASE ~(taskLock = r /\ ~gold)
        <5>1. state' = state /\ runs' \in SUBSET Requests /\ runs \subseteq runs'
          BY <1>1, <3>1, <4>2
        <5>2. QED
          BY <1>1, <3>1, <5>1, MoreAnswers DEF CompletedMeansAnswered, Answered
      <4>3. QED
        BY <4>1, <4>2
    <3>3. ASSUME NEW q \in Requests
          PROVE  /\ pc'[q] = "complete" => Answered(runs' \cup {q}, n')
                 /\ pc'[q] = "reopen" => gold
                 /\ taskLock' = q /\ ~gold => Answered(runs' \cup {q}, n')
                 /\ pc'[q] = "write" => Answered(runs', n')
      <4>1. /\ runs \cup {q} \in SUBSET Requests /\ runs' \in SUBSET Requests
            /\ runs' \cup {q} \in SUBSET Requests
            /\ runs \cup {q} \subseteq runs' \cup {q} /\ runs \subseteq runs'
        BY <1>1, <3>1
      <4>2. /\ Answered(runs \cup {q}, n) => Answered(runs' \cup {q}, n)
            /\ Answered(runs, n) => Answered(runs', n)
        BY <1>1, <4>1, MoreAnswers
      <4>3. /\ pc'[q] \in {"complete", "reopen", "write"} => pc[q] = pc'[q]
            /\ taskLock' = q => taskLock = q
        BY <3>1, TaskConstants DEF TypeOK
      <4>4. QED
        BY <3>1, <4>2, <4>3 DEF CountedInv
    <3>4. QED
      BY <3>1, <3>2, <3>3 DEF CountedInv
  <2>10. QED
    BY <1>4, <2>1, <2>2, <2>3, <2>4, <2>5, <2>6, <2>7, <2>8, <2>9 DEF Serve
<1>5. ASSUME NEW r \in Requests, Crash(r)
      PROVE  CompletedInv'
  BY <1>5, TaskConstants DEF Crash, Goto, CountedInv, CompletedMeansAnswered, Answered, TypeOK
<1>6. CASE Export \/ UNCHANGED vars
  BY <1>2, <1>6 DEF Export, vars
<1>7. CASE OwnerActs
  BY <1>7, OwnerEffect, TaskConstants DEF CountedInv, CompletedMeansAnswered, Answered
<1>8. QED
  BY <1>3, <1>4, <1>5, <1>6, <1>7 DEF Next, Rest

LEMMA CompletedInvariant == ASSUME OwnerElsewhere PROVE Spec => []CompletedInv
<1>1. Init => CompletedInv
  BY TaskConstants DEF Init, CompletedInv, CountedInv, CompletedMeansAnswered
<1>2. QED
  BY <1>1, CompletedInvStep, TypeCorrect, OwnerInvariant, PTL DEF Spec

\* A completed task has its answers, although the count that completes it is
\* taken before the commit and other transactions come in between.
THEOREM CompletedTheorem == ASSUME OwnerElsewhere PROVE Spec => []CompletedMeansAnswered
<1>1. CompletedInv => CompletedMeansAnswered
  BY DEF CompletedInv
<1>2. QED
  BY <1>1, CompletedInvariant, PTL

\* While a task with all its answers is not completed, the last request to
\* commit has its second completion test before it.
PendingInv ==
  ~gold /\ Answered(runs, n) =>
    state = "completed" \/ \E r \in Requests : pc[r] \in {"mark", "write"}

LEMMA PendingInvStep ==
  ASSUME OwnerElsewhere, Crashes = FALSE, TypeOK, OwnerInv, PendingInv, [Next]_vars
  PROVE  PendingInv'
<1>0. gold' = gold
  BY GoldStays
<1> USE <1>0 DEF PendingInv, Unchecked, task, owner, rowLocks
<1>1. ASSUME UNCHANGED <<runs, n, state, pc>>
      PROVE  PendingInv'
  BY <1>1 DEF Answered
<1>2. ASSUME NEW u \in Users, Schedule(u)
      PROVE  PendingInv'
  BY <1>1, <1>2 DEF Schedule, Query, AcquireLock, LockEnds
<1>3. ASSUME NEW r \in Requests, CanPost(r) \/ Serve(r)
      PROVE  PendingInv'
  <2>1. ASSUME NEW step \in Steps, Goto(r, step), pc[r] \notin {"mark", "write"},
               UNCHANGED <<runs, n, state>>
        PROVE  PendingInv'
    BY <2>1 DEF Goto, Answered, TypeOK
  <2>2. CASE CanPost(r) \/ CheckCount(r) \/ Authorize(r) \/ Decide(r)
    BY <2>1, <2>2 DEF CanPost, CheckCount, Authorize, Decide, Steps
  <2>3. CASE Insert(r) \/ Complete(r) \/ Reopen(r) \/ UpdateProject(r)
    BY <2>1, <2>3 DEF Insert, Complete, Reopen, UpdateProject, Steps
  <2>4. CASE Commit(r)
    <3>1. pc'[r] = "mark"
      BY <2>4 DEF Commit, Goto, TypeOK
    <3>2. QED
      BY <3>1
  <2>5. CASE Mark(r)
    BY <2>5 DEF Mark, Goto, Answered, TypeOK
  <2>6. CASE MarkCompleted(r)
    BY <2>6 DEF MarkCompleted
  <2>7. QED
    BY <1>3, <2>2, <2>3, <2>4, <2>5, <2>6 DEF Serve
<1>4. ASSUME NEW r \in Requests, Crash(r)
      PROVE  PendingInv'
  BY <1>4 DEF Crash
<1>5. CASE Export \/ UNCHANGED vars
  BY <1>1, <1>5 DEF Export, vars
<1>6. CASE OwnerActs
  BY <1>6, OwnerEffect DEF Answered
<1>7. QED
  BY <1>2, <1>3, <1>4, <1>5, <1>6 DEF Next, Rest

\* Once every request is over, a task with all its answers is completed: two
\* transactions that miss each other's answer are followed by two tests that
\* do not.  It takes workers that do not die between the commit and the test.
THEOREM AnsweredTheorem ==
  ASSUME OwnerElsewhere, Crashes = FALSE PROVE Spec => []AnsweredIsCompleted
<1>1. Init => PendingInv
  BY TaskConstants, FS_EmptySet DEF Init, PendingInv, Answered
<1>2. TypeOK /\ OwnerInv /\ PendingInv /\ [Next]_vars => PendingInv'
  BY PendingInvStep
<1>3. PendingInv => AnsweredIsCompleted
  BY DEF PendingInv, AnsweredIsCompleted, AtRest
<1>4. QED
  BY <1>1, <1>2, <1>3, TypeCorrect, OwnerInvariant, PTL DEF Spec

-----------------------------------------------------------------------------
(* What follows from the locks: one announcement, and exports that miss    *)
(* nothing.                                                                *)

\* The answers and any requests on their way fit into the redundancy.
LEMMA AllFit ==
  ASSUME LocksHold, TypeOK, PostInv, CountInv, NEW P \in SUBSET Requests,
         \A r \in P : r \in runs \/ pc[r] \in Posting
  PROVE  Cardinality(runs \cup P) <= n
<1> DEFINE A == runs \cup P
           T == {UserOf[r] : r \in A}
<1>1. A \in SUBSET Requests /\ Cardinality(A) \in Nat
  BY AnsweredFinite DEF TypeOK
<1>2. Cardinality(T) = Cardinality(A)
  BY <1>1, UsersOfRuns DEF LocksHold, LocksProtect
<1>3. T \subseteq LockedUsers \cup Answerers
  BY TaskConstants DEF PostInv, LockedUsers, Answerers
<1>4. LockedUsers \cup Answerers \in SUBSET Users
  BY Facts DEF LocksHold, LocksProtect
<1>5. /\ Cardinality(T) <= Cardinality(LockedUsers \cup Answerers)
      /\ Cardinality(LockedUsers \cup Answerers) \in Nat
  BY <1>3, <1>4, FewerUsers
<1>6. n \in Nat
  BY DEF TypeOK
<1> HIDE DEF A, T
<1>7. QED
  BY <1>1, <1>2, <1>5, <1>6 DEF CountInv, Fit, A

LEMMA OneMore ==
  ASSUME NEW A \in SUBSET Requests, NEW r \in Requests, r \notin A
  PROVE  Cardinality(A \cup {r}) = Cardinality(A) + 1 /\ Cardinality(A) \in Nat
BY AnsweredFinite, FS_AddElement

\* A task that has been exported is completed, and has no room for another answer.
ExportInv == exported => state = "completed" /\ runs \subseteq delivered

LEMMA ExportInvStep ==
  ASSUME LocksHold, TypeOK, OwnerInv, PostInv, CountInv, CompletedInv, ExportInv, [Next]_vars
  PROVE  ExportInv'
<1> USE DEF ExportInv, Unchecked, task, owner, rowLocks
<1>1. ASSUME UNCHANGED <<runs, state, exported, delivered>> PROVE ExportInv'
  BY <1>1
<1>2. ASSUME NEW u \in Users, Schedule(u) PROVE ExportInv'
  BY <1>1, <1>2 DEF Schedule, Query, AcquireLock, LockEnds
<1>3. ASSUME NEW r \in Requests, CanPost(r) \/ Serve(r) PROVE ExportInv'
  <2>1. CASE Commit(r)
    <3>1. pc[r] = "commit" /\ pc[r] \in Posting /\ r \notin runs
      BY <2>1 DEF Commit, PostInv, Posting, Steps
    <3>2. Cardinality(runs \cup {r}) <= n
      BY <3>1, AllFit
    <3>3. Cardinality(runs \cup {r}) = Cardinality(runs) + 1 /\ Cardinality(runs) \in Nat
      BY <3>1, OneMore DEF TypeOK
    <3>4. state # "completed"
      BY <3>2, <3>3 DEF CompletedInv, CompletedMeansAnswered, TypeOK
    <3>5. ~exported
      BY <3>4
    <3>6. ~exported'
      BY <2>1, <3>5, Zenon DEF Commit
    <3>7. QED
      BY <3>6
  <2>2. CASE MarkCompleted(r)
    BY <2>2 DEF MarkCompleted
  <2>3. CASE CanPost(r) \/ CheckCount(r) \/ Authorize(r) \/ Insert(r) \/ Decide(r)
    BY <1>1, <2>3 DEF CanPost, CheckCount, Authorize, Insert, Decide
  <2>4. CASE Complete(r) \/ Reopen(r) \/ UpdateProject(r) \/ Mark(r)
    BY <1>1, <2>4 DEF Complete, Reopen, UpdateProject, Mark
  <2>5. QED
    BY <1>3, <2>1, <2>2, <2>3, <2>4 DEF Serve
<1>4. ASSUME NEW r \in Requests, Crash(r) PROVE ExportInv'
  BY <1>1, <1>4 DEF Crash
<1>5. CASE OwnerActs
  <2>1. exported' => exported
    <3>1. CASE FinishRedundancy
      BY <3>1, Zenon DEF FinishRedundancy
    <3>2. CASE OwnerActs /\ ~FinishRedundancy /\ ~DeleteRuns
      BY <3>2 DEF OwnerActs, StartRedundancy, ReopenExported, UpdateRedundancy, SelectComplete,
                  StartReset, DeleteResults, OwnerCrash
    <3>3. ~DeleteRuns
      BY DEF DeleteRuns, OwnerInv
    <3>4. QED
      BY <1>5, <3>1, <3>2, <3>3
  <2>2. UNCHANGED <<runs, delivered>> /\ (state = "completed" => state' = "completed")
    <3>1. UNCHANGED delivered
      BY <1>5 DEF OwnerActs, StartRedundancy, ReopenExported, UpdateRedundancy, SelectComplete,
                  FinishRedundancy, StartReset, DeleteRuns, DeleteResults, OwnerCrash,
                  UnchangedByOwner
    <3>2. QED
      BY <1>5, <3>1, OwnerEffect DEF LocksHold
  <2>3. QED
    BY <2>1, <2>2
<1>6. CASE Export
  <2>1. state = "completed" /\ state' = state /\ delivered' = runs /\ runs' = runs
    BY <1>6, NotGold DEF Export, LocksHold
  <2>2. QED
    BY <2>1
<1>7. CASE UNCHANGED vars
  BY <1>1, <1>7 DEF vars
<1>8. QED
  BY <1>2, <1>3, <1>4, <1>5, <1>6, <1>7 DEF Next, Rest

\* A consumer that takes the tasks that are not marked exported misses no answer.
THEOREM ExportTheorem == ASSUME LocksHold PROVE Spec => []ExportCovers
<1>1. Init => ExportInv
  <2>1. Init => ~exported
    BY Zenon DEF Init, LocksHold, LocksProtect
  <2>2. QED
    BY <2>1 DEF ExportInv
<1>2. ExportInv => ExportCovers
  BY DEF ExportInv, ExportCovers
<1>3. Spec => []CompletedInv
  BY CompletedInvariant DEF LocksHold
<1>4. QED
  BY <1>1, <1>2, <1>3, CountInvariant, ExportInvStep, PTL DEF Spec

\* Whoever has announced the completion, or is about to, answers last.
Announces(r) == r \in webhooks \/ pc[r] = "complete"
AnnounceInv ==
  \A r \in Requests : Announces(r) =>
    /\ r \in runs \/ pc[r] \in {"complete", "project", "commit"}
    /\ Answered(runs \cup {r}, n)
    /\ \A q \in Requests : Announces(q) => q = r

LEMMA AnnounceInvStep ==
  ASSUME LocksHold, Crashes = FALSE, TypeOK, OwnerInv, PostInv, CountInv, AnnounceInv,
         [Next]_vars
  PROVE  AnnounceInv'
<1> USE DEF Unchecked, task, owner, rowLocks, Goto
<1>1. ASSUME UNCHANGED <<runs, n, webhooks, pc>> PROVE AnnounceInv'
  BY <1>1 DEF AnnounceInv, Announces, Answered
<1>2. ASSUME NEW u \in Users, Schedule(u) PROVE AnnounceInv'
  BY <1>1, <1>2 DEF Schedule, Query, AcquireLock, LockEnds
<1>3. ASSUME NEW r \in Requests, CanPost(r) \/ Serve(r) PROVE AnnounceInv'
  <2>1. ASSUME UNCHANGED <<runs, n, webhooks>>, NEW step \in Steps,
               pc' = [pc EXCEPT ![r] = step], step # "complete",
               pc[r] \in {"complete", "project", "commit"} => step \in {"project", "commit"}
        PROVE  AnnounceInv'
    <3>1. \A q \in Requests : pc'[q] = IF q = r THEN step ELSE pc[q]
      BY <2>1 DEF TypeOK
    <3>2. \A q \in Requests : Announces(q)' => Announces(q)
      BY <2>1, <3>1 DEF Announces
    <3>3. ASSUME NEW q \in Requests, Announces(q)'
          PROVE  /\ q \in runs' \/ pc'[q] \in {"complete", "project", "commit"}
                 /\ Answered(runs' \cup {q}, n')
      BY <2>1, <3>1, <3>2, <3>3 DEF AnnounceInv, Answered
    <3>4. QED
      BY <3>2, <3>3 DEF AnnounceInv
  <2>2. CASE CanPost(r) \/ CheckCount(r) \/ Authorize(r) \/ Insert(r)
    BY <2>1, <2>2 DEF CanPost, CheckCount, Authorize, Insert, Steps
  <2>3. CASE Reopen(r) \/ UpdateProject(r) \/ Mark(r) \/ MarkCompleted(r)
    BY <2>1, <2>3 DEF Reopen, UpdateProject, Mark, MarkCompleted, Steps
  <2>4. CASE Decide(r)
    <3>1. /\ UNCHANGED <<runs, n, webhooks>> /\ pc[r] = "decide"
          /\ pc' = [pc EXCEPT ![r] = pc'[r]] /\ pc'[r] \in {"complete", "project"}
          /\ pc'[r] = "complete" => Answered(runs \cup {r}, n)
      BY <2>4 DEF Decide, TypeOK
    <3>2. CASE pc'[r] = "project"
      BY <2>1, <3>1, <3>2 DEF Steps
    <3>3. CASE pc'[r] = "complete"
      <4>1. ASSUME NEW q \in Requests, q # r, Announces(q) PROVE FALSE
        <5>1. q \in runs \/ pc[q] \in Posting
          BY <4>1 DEF AnnounceInv, Posting, Steps
        <5>2. pc[r] \in Posting /\ r \notin runs
          BY <3>1 DEF Posting, Steps, PostInv
        <5>3. runs \cup {q, r} = (runs \cup {q}) \cup {r} /\ runs \cup {q} \in SUBSET Requests
          BY DEF TypeOK
        <5>4. Cardinality((runs \cup {q}) \cup {r}) <= n
          BY <5>1, <5>2, <5>3, AllFit
        <5>5. /\ Cardinality((runs \cup {q}) \cup {r}) = Cardinality(runs \cup {q}) + 1
              /\ Cardinality(runs \cup {q}) \in Nat
          BY <4>1, <5>2, <5>3, OneMore
        <5>6. Cardinality(runs \cup {q}) >= n
          BY <4>1 DEF AnnounceInv, Answered
        <5>7. QED
          BY <5>4, <5>5, <5>6 DEF TypeOK
      <4>2. ASSUME NEW q \in Requests, Announces(q)' PROVE q = r
        BY <3>1, <4>1, <4>2 DEF Announces, TypeOK
      <4>3. Answered(runs' \cup {r}, n')
        BY <3>1, <3>3 DEF Answered
      <4>4. QED
        BY <3>3, <4>2, <4>3 DEF AnnounceInv
    <3>4. QED
      BY <3>1, <3>2, <3>3
  <2>5. CASE Complete(r)
    <3>1. /\ UNCHANGED <<runs, n>> /\ pc[r] = "complete" /\ pc' = [pc EXCEPT ![r] = "project"]
          /\ webhooks' \subseteq webhooks \cup {r}
      BY <2>5 DEF Complete
    <3>2. ASSUME NEW q \in Requests, Announces(q)' PROVE Announces(q)
      BY <3>1, <3>2 DEF Announces, TypeOK
    <3>3. \A q \in Requests : pc'[q] = pc[q] \/ (q = r /\ pc'[q] = "project")
      BY <3>1 DEF TypeOK
    <3>4. ASSUME NEW q \in Requests, Announces(q)'
          PROVE  /\ q \in runs' \/ pc'[q] \in {"complete", "project", "commit"}
                 /\ Answered(runs' \cup {q}, n')
      BY <3>1, <3>2, <3>3, <3>4 DEF AnnounceInv, Answered
    <3>5. QED
      BY <3>2, <3>4 DEF AnnounceInv
  <2>6. CASE Commit(r)
    <3>1. /\ runs' = runs \cup {r} /\ n' = n /\ webhooks' = webhooks
          /\ pc[r] = "commit" /\ pc' = [pc EXCEPT ![r] = "mark"]
      BY <2>6 DEF Commit
    <3>2. ASSUME NEW q \in Requests, Announces(q)' PROVE Announces(q) /\ Answered(runs' \cup {q}, n')
      <4>1. Announces(q)
        BY <3>1, <3>2 DEF Announces, TypeOK
      <4>2. /\ runs \cup {q} \in SUBSET Requests /\ runs' \cup {q} \in SUBSET Requests
            /\ runs \cup {q} \subseteq runs' \cup {q} /\ n \in Nat
        BY <3>1 DEF TypeOK
      <4>3. Answered(runs \cup {q}, n)
        BY <4>1 DEF AnnounceInv
      <4>4. QED
        BY <3>1, <4>1, <4>2, <4>3, MoreAnswers
    <3>3. \A q \in Requests : pc'[q] = pc[q] \/ (q = r /\ q \in runs')
      BY <3>1 DEF TypeOK
    <3>4. ASSUME NEW q \in Requests, Announces(q)'
          PROVE  /\ q \in runs' \/ pc'[q] \in {"complete", "project", "commit"}
                 /\ Answered(runs' \cup {q}, n')
      <4>1. q \in runs \/ pc[q] \in {"complete", "project", "commit"}
        BY <3>2, <3>4 DEF AnnounceInv
      <4>2. QED
        BY <3>1, <3>2, <3>3, <3>4, <4>1
    <3>5. QED
      BY <3>2, <3>4 DEF AnnounceInv
  <2>7. QED
    BY <1>3, <2>2, <2>3, <2>4, <2>5, <2>6 DEF Serve
<1>4. ASSUME NEW r \in Requests, Crash(r) PROVE AnnounceInv'
  BY <1>4 DEF Crash
<1>5. CASE OwnerActs
  <2>1. UNCHANGED webhooks
    BY <1>5 DEF OwnerActs, StartRedundancy, ReopenExported, UpdateRedundancy, SelectComplete,
                FinishRedundancy, StartReset, DeleteRuns, DeleteResults, OwnerCrash,
                UnchangedByOwner
  <2>2. QED
    BY <1>1, <1>5, <2>1, OwnerEffect DEF LocksHold
<1>6. CASE Export \/ UNCHANGED vars
  BY <1>1, <1>6 DEF Export, vars
<1>7. QED
  BY <1>2, <1>3, <1>4, <1>5, <1>6 DEF Next, Rest

\* The completion of a task is announced to the webhook at most once, whatever requests
\* store the last answers side by side, while the locks hold and nobody dies.
THEOREM AnnounceTheorem ==
  ASSUME LocksHold, Crashes = FALSE PROVE Spec => []AnnouncedOnce
<1>1. Init => AnnounceInv
  BY DEF Init, AnnounceInv, Announces
<1>2. TypeOK /\ AnnounceInv => AnnouncedOnce
  <2> SUFFICES ASSUME TypeOK, AnnounceInv PROVE AnnouncedOnce
    OBVIOUS
  <2>1. CASE webhooks = {}
    BY <2>1, FS_EmptySet DEF AnnouncedOnce
  <2>2. CASE webhooks # {}
    <3>1. PICK r \in webhooks : TRUE
      BY <2>2
    <3>2. webhooks = {r}
      BY <3>1 DEF AnnounceInv, Announces, TypeOK
    <3>3. Cardinality({r}) = 1
      BY FS_Singleton
    <3>4. QED
      BY <3>2, <3>3 DEF AnnouncedOnce
  <2>3. QED
    BY <2>1, <2>2
<1>3. QED
  BY <1>1, <1>2, CountInvariant, AnnounceInvStep, PTL DEF Spec

-----------------------------------------------------------------------------
(* The row locks.                                                          *)

\* Whoever keeps the row of the project only has to commit, and a transaction
\* that keeps the row of the task waits for nothing but the row of the project.
LocksInOrder ==
  /\ projectLock # Nobody => pc[projectLock] = "commit"
  /\ taskLock \in Requests => pc[taskLock] \in {"project", "commit"}
  /\ taskLock = Owner => ownerPc \in {"update", "select", "finish"}

LEMMA LocksInOrderStep ==
  ASSUME TypeOK, LocksInOrder, [Next]_vars
  PROVE  LocksInOrder'
<1> USE TaskConstants DEF LocksInOrder, TypeOK, Goto
<1>1. ASSUME UNCHANGED <<rowLocks, pc, ownerPc>> PROVE LocksInOrder'
  BY <1>1 DEF rowLocks
<1>2. ASSUME NEW u \in Users, Schedule(u) PROVE UNCHANGED <<rowLocks, pc, ownerPc>>
  BY <1>2 DEF Schedule, Query, AcquireLock, LockEnds, owner
<1>3. ASSUME NEW r \in Requests, CanPost(r) \/ Serve(r) PROVE LocksInOrder'
  <2> USE DEF owner, rowLocks
  <2>1. ASSUME UNCHANGED <<taskLock, projectLock, ownerPc>>, pc[r] \notin {"project", "commit"},
               pc' = [pc EXCEPT ![r] = pc'[r]]
        PROVE  LocksInOrder'
    BY <2>1
  <2>2. CASE CanPost(r) \/ CheckCount(r) \/ Authorize(r) \/ Decide(r) \/ Mark(r)
    BY <2>1, <2>2 DEF CanPost, CheckCount, Authorize, Decide, Mark, Unchecked
  <2>3. CASE Insert(r) \/ MarkCompleted(r)
    BY <2>1, <2>3 DEF Insert, MarkCompleted
  <2>4. CASE Complete(r) \/ Reopen(r)
    BY <2>4 DEF Complete, Reopen
  <2>5. CASE UpdateProject(r)
    BY <2>5 DEF UpdateProject
  <2>6. CASE Commit(r)
    <3>1. /\ taskLock' = IF taskLock = r THEN Nobody ELSE taskLock
          /\ projectLock' = Nobody /\ ownerPc' = ownerPc
          /\ pc' = [pc EXCEPT ![r] = "mark"]
      BY <2>6 DEF Commit
    <3>2. QED
      BY <3>1
  <2>7. QED
    BY <1>3, <2>2, <2>3, <2>4, <2>5, <2>6 DEF Serve
<1>4. ASSUME NEW r \in Requests, Crash(r) PROVE LocksInOrder'
  BY <1>4 DEF Crash, owner
<1>5. CASE OwnerActs
  <2> USE DEF UnchangedByOwner
  <2>1. CASE StartRedundancy \/ SelectComplete \/ StartReset \/ DeleteRuns \/ DeleteResults
    BY <2>1 DEF StartRedundancy, SelectComplete, StartReset, DeleteRuns, DeleteResults
  <2>2. CASE ReopenExported \/ UpdateRedundancy
    BY <2>2 DEF ReopenExported, UpdateRedundancy
  <2>3. CASE FinishRedundancy \/ OwnerCrash
    BY <2>3 DEF FinishRedundancy, OwnerCrash
  <2>4. QED
    BY <1>5, <2>1, <2>2, <2>3 DEF OwnerActs
<1>6. CASE Export \/ UNCHANGED vars
  BY <1>1, <1>6 DEF Export, vars, owner
<1>7. QED
  BY <1>1, <1>2, <1>3, <1>4, <1>5, <1>6 DEF Next, Rest

LEMMA LockOrder == Spec => []LocksInOrder
<1>1. Init => LocksInOrder
  BY TaskConstants DEF Init, LocksInOrder
<1>2. QED
  BY <1>1, LocksInOrderStep, TypeCorrect, PTL DEF Spec

\* Not everybody waits for a row that somebody else has updated, whatever requests store
\* answers, changes of redundancy and resets come together, and whoever dies.
THEOREM NoDeadlockTheorem == Spec => []NoDeadlock
<1>1. TypeOK /\ LocksInOrder => NoDeadlock
  <2> SUFFICES ASSUME TypeOK, LocksInOrder PROVE NoDeadlock
    OBVIOUS
  <2>1. CASE \E r \in Requests : pc[r] = "commit"
    BY <2>1 DEF NoDeadlock, Waiting
  <2>2. CASE projectLock = Nobody /\ \E r \in Requests : pc[r] = "project"
    BY <2>2 DEF NoDeadlock, Waiting
  <2>3. CASE projectLock = Nobody /\ \A r \in Requests : pc[r] \notin {"project", "commit"}
    <3>1. taskLock \in {Owner, Nobody}
      BY <2>3 DEF TypeOK, LocksInOrder
    <3>2. CASE taskLock = Owner
      BY <3>2, TaskConstants DEF LocksInOrder, NoDeadlock, OwnerWaits
    <3>3. CASE taskLock = Nobody
      BY <2>3, <3>3 DEF NoDeadlock, AtRest, Waiting, OwnerWaits
    <3>4. QED
      BY <3>1, <3>2, <3>3
  <2>4. QED
    BY <2>1, <2>2, <2>3 DEF TypeOK, LocksInOrder
<1>2. QED
  BY <1>1, LockOrder, TypeCorrect, PTL

-----------------------------------------------------------------------------
(* One last version, although the repair does not lock the row.            *)

\* While a transaction completes the task its answer is missing, so that nobody
\* has completed the task before.
LEMMA RepairsAloneElsewhere ==
  ASSUME LocksHold, TypeOK, OwnerInv, PostInv, CountInv, CompletedMeansAnswered, LocksInOrder, DraftInv
  PROVE  RepairsAlone
<1> SUFFICES ASSUME FinishRedundancy, NeedsResult, ~complete,
                    NEW r \in Requests, draft[r] # NoDraft
             PROVE  FALSE
  BY RepairUnderLock DEF RepairsAlone
<1>1. ownerPc = "finish" /\ Matched = FALSE
  BY DEF FinishRedundancy, OwnerInv
<1>2. state = "completed"
  BY <1>1 DEF NeedsResult, NewState
<1>3. Cardinality(runs) >= n
  BY <1>2 DEF CompletedMeansAnswered
<1>4. pc[r] \in {"project", "commit"}
  BY DEF DraftInv, LocksInOrder
<1>5. pc[r] \in Posting /\ r \notin runs
  BY <1>4 DEF PostInv, Posting, Steps
<1>6. runs \in SUBSET Requests /\ n \in Nat
  BY DEF TypeOK
<1>7. Cardinality(runs \cup {r}) <= n
  BY <1>5, AllFit
<1>8. QED
  BY <1>3, <1>5, <1>6, <1>7, OneMore

\* At most one result is the last version while the owner works on other tasks: his
\* repair looks for completed tasks without a result and takes no lock, but a task with
\* a result on its way is not completed yet.
THEOREM LastVersionElsewhere == ASSUME LocksHold PROVE Spec => []OneLastVersion
<1>1. Init => DraftInv /\ OneLastVersion
  BY DEF Init, DraftInv, OneLastVersion
<1>2. /\ TypeOK /\ OwnerInv /\ PostInv /\ CountInv /\ CompletedMeansAnswered /\ LocksInOrder
      /\ DraftInv /\ OneLastVersion /\ [Next]_vars
      => (DraftInv /\ OneLastVersion)'
  BY RepairsAloneElsewhere, DraftInvStep
<1>3. Spec => []CompletedMeansAnswered
  BY CompletedTheorem DEF LocksHold
<1>4. QED
  BY <1>1, <1>2, <1>3, CountInvariant, LockOrder, PTL DEF Spec

-----------------------------------------------------------------------------
(* The locks of the task are a semaphore.                                  *)

Held == {u \in Users : locks[u] = "held"}

\* No scheduler has read more room than the task has answers to be given.
OfferBound == \A u \in Users : offer[u] <= n

LEMMA RedundancyStays ==
  ASSUME OwnerElsewhere, TypeOK, OwnerInv, [Next]_vars
  PROVE  n' = n
<1> USE DEF task
<1>1. ASSUME NEW u \in Users, Schedule(u) PROVE n' = n
  BY <1>1 DEF Schedule, Query, AcquireLock, LockEnds
<1>2. ASSUME NEW r \in Requests, CanPost(r) \/ Serve(r) \/ Crash(r) PROVE n' = n
  BY <1>2 DEF Serve, CanPost, CheckCount, Authorize, Insert, Decide, Complete, Reopen,
              UpdateProject, Commit, Mark, MarkCompleted, Crash, Unchecked
<1>3. CASE OwnerActs
  BY <1>3, OwnerEffect
<1>4. CASE Export \/ UNCHANGED vars
  BY <1>4 DEF Export, vars
<1>5. QED
  BY <1>1, <1>2, <1>3, <1>4 DEF Next, Rest

\* Steps other than these four leave the locks and the offers alone.
LEMMA LocksStay ==
  ASSUME OwnerElsewhere, TypeOK, OwnerInv, [Next]_vars,
         \A u \in Users : ~Query(u) /\ ~AcquireLock(u) /\ ~LockEnds(u),
         \A r \in Requests : ~Insert(r)
  PROVE  UNCHANGED scheduler
<1> USE DEF scheduler
<1>1. ASSUME NEW r \in Requests, CanPost(r) \/ Serve(r) \/ Crash(r) PROVE UNCHANGED scheduler
  BY <1>1 DEF Serve, CanPost, CheckCount, Authorize, Decide, Complete, Reopen,
              UpdateProject, Commit, Mark, MarkCompleted, Crash, Unchecked
<1>2. CASE OwnerActs
  BY <1>2, OwnerEffect
<1>3. CASE Export \/ UNCHANGED vars
  BY <1>3 DEF Export, vars
<1>4. QED
  BY <1>1, <1>2, <1>3 DEF Next, Rest, Schedule

LEMMA OfferBoundStep ==
  ASSUME OwnerElsewhere, TypeOK, OwnerInv, OfferBound, [Next]_vars
  PROVE  OfferBound'
<1> USE DEF OfferBound, NoOffer
<1>1. n' = n /\ n \in Nat /\ offer \in [Users -> Nat \cup {NoOffer}]
  BY RedundancyStays DEF TypeOK
<1>2. ASSUME NEW u \in Users, Query(u) PROVE OfferBound'
  <2>1. offer' = [offer EXCEPT ![u] = Room]
    BY <1>2 DEF Query
  <2>2. Room <= n
    BY <1>1, AnsweredFinite DEF Room, TypeOK
  <2>3. QED
    BY <1>1, <2>1, <2>2
<1>3. ASSUME NEW u \in Users, AcquireLock(u) PROVE OfferBound'
  <2>1. offer' = [offer EXCEPT ![u] = NoOffer]
    BY <1>3 DEF AcquireLock
  <2>2. QED
    BY <1>1, <2>1
<1>4. CASE offer' = offer
  BY <1>1, <1>4
<1>5. QED
  BY <1>2, <1>3, <1>4, LocksStay DEF LockEnds, Insert, scheduler

LEMMA LockTableStep ==
  ASSUME OwnerElsewhere, Kinds = {FALSE}, TypeOK, OwnerInv, OfferBound, [Next]_vars
  PROVE  (LockTable!Next /\ n' = n) \/ (Held' = Held /\ n' = n)
<1>1. n' = n /\ n \in Nat
  BY RedundancyStays DEF TypeOK
<1>2. ASSUME Held' \subseteq Held, Held' # Held PROVE LockTable!Next
  <2>1. Held \ Held' \in SUBSET Held /\ Held \ Held' # {} /\ Held' = Held \ (Held \ Held')
    BY <1>2
  <2>2. LockTable!Drop
    BY <2>1 DEF LockTable!Drop, Held
  <2>3. QED
    BY <1>1, <2>2 DEF LockTable!Next
<1>3. ASSUME NEW u \in Users, LockEnds(u) PROVE Held' \subseteq Held
  BY <1>3 DEF LockEnds, Held, TypeOK
<1>4. ASSUME NEW r \in Requests, Insert(r) PROVE Held' \subseteq Held
  BY <1>4, TaskConstants DEF Insert, Held, TypeOK
<1>5. ASSUME NEW u \in Users, AcquireLock(u), Held' # Held PROVE LockTable!Next
  <2>1. /\ locks[u] = "none" /\ Cardinality(LockedUsers) < offer[u]
        /\ locks' = [locks EXCEPT ![u] = "held"]
    BY <1>5 DEF AcquireLock, Held, TypeOK
  <2>2. u \notin Held /\ Held' = Held \cup {u}
    BY <2>1 DEF Held, TypeOK
  <2>3. Cardinality(Held) < n
    <3>1. Held \in SUBSET LockedUsers /\ LockedUsers \in SUBSET Users
      BY DEF Held, LockedUsers
    <3>2. IsFiniteSet(LockedUsers)
      BY <3>1, TaskConstants, FS_Subset
    <3>3. /\ Cardinality(Held) <= Cardinality(LockedUsers)
          /\ Cardinality(Held) \in Nat /\ Cardinality(LockedUsers) \in Nat
      BY <3>1, <3>2, FS_Subset, FS_CardinalityType
    <3>4. offer[u] <= n /\ offer[u] \in Int
      BY DEF OfferBound, TypeOK, NoOffer
    <3>5. QED
      BY <1>1, <2>1, <3>3, <3>4
  <2>4. LockTable!Cardinality(Held) = Cardinality(Held)
    BY DEF Cardinality, LockTable!Cardinality
  <2>5. LockTable!Take(u)
    BY <2>2, <2>3, <2>4 DEF LockTable!Take, Held
  <2>6. QED
    BY <1>1, <2>5 DEF LockTable!Next
<1>6. ASSUME UNCHANGED locks PROVE Held' = Held
  BY <1>6 DEF Held
<1>7. QED
  BY <1>1, <1>2, <1>3, <1>4, <1>5, <1>6, LocksStay DEF scheduler, Query

\* As many users hold the task as it asks for answers, at most, and a lock is taken only
\* when one is left, whether or not the locks outlive what they protect and the workers
\* their requests: what acquire_lock compares with room that a query has read before, and
\* what the listener releases, keep what LockManager promises.
THEOREM LocksTheorem == ASSUME OwnerElsewhere, Kinds = {FALSE} PROVE Spec => LocksAreSemaphore
<1>1. Init => LockTable!Init /\ OfferBound
  BY TaskConstants DEF Init, LockTable!Init, OfferBound, NoOffer
<1>2. TypeOK /\ OwnerInv /\ OfferBound /\ [Next]_vars => OfferBound'
  BY OfferBoundStep
<1>3. TypeOK /\ OwnerInv /\ OfferBound /\ [Next]_vars => [LockTable!Next]_<<Held, n>>
  BY LockTableStep
<1>4. Held = {u \in Users : locks[u] = "held"}
  BY DEF Held
<1>5. QED
  BY <1>1, <1>2, <1>3, <1>4, TypeCorrect, OwnerInvariant, PTL
     DEF Spec, LocksAreSemaphore, LockTable!Spec, Held

-----------------------------------------------------------------------------
(* The answers are collected as the project expects.                       *)

LEMMA SameCardinality ==
  ASSUME NEW A PROVE AbstractCollection!Cardinality(A) = Cardinality(A)
BY DEF Cardinality, AbstractCollection!Cardinality

\* Of all the steps of a request, only its commit is seen, and perhaps the write of the
\* second completion test.
LEMMA CommitCollects ==
  ASSUME LocksHold, TypeOK, PostInv, CountInv, CompletedInv, NEW r \in Requests, Commit(r)
  PROVE  AbstractCollection!Collect(r)
<1>1. r \notin runs /\ pc[r] \in Posting
  BY DEF Commit, PostInv, Posting, Steps
<1>2. runs \in SUBSET Requests /\ n \in Nat
  BY DEF TypeOK
<1>3. Cardinality(runs) \in Nat /\ Cardinality(runs) < n
  <2>1. Cardinality(runs \cup {r}) <= n
    BY <1>1, AllFit
  <2>2. QED
    BY <1>1, <1>2, <2>1, OneMore
<1>4. state # "completed"
  BY <1>2, <1>3 DEF CompletedInv, CompletedMeansAnswered
<1>5. state' = "completed" => Answered(runs \cup {r}, n)
  BY <1>4, NotGold DEF Commit, CompletedInv, CountedInv
<1>6. /\ runs' = runs \cup {r} /\ n' = n /\ delivered' = delivered
  BY DEF Commit
<1>7. QED
  BY <1>1, <1>2, <1>3, <1>4, <1>5, <1>6, SameCardinality
     DEF AbstractCollection!Collect, AbstractCollection!Enough, Answered

LEMMA CollectionStep ==
  ASSUME LocksHold, TypeOK, OwnerInv, PostInv, CountInv, CompletedInv, [Next]_vars
  PROVE  AbstractCollection!Next \/ UNCHANGED <<runs, n, state, delivered>>
<1> USE DEF task, owner, Unchecked
<1>1. ASSUME n' = n, runs' = runs, delivered' = delivered, state' = "completed", Answered(runs, n)
      PROVE  AbstractCollection!Next
  BY <1>1, SameCardinality
     DEF Answered, AbstractCollection!Next, AbstractCollection!Complete, AbstractCollection!Enough
<1>2. ASSUME NEW r \in Requests, Commit(r) PROVE AbstractCollection!Next
  BY <1>2, CommitCollects DEF AbstractCollection!Next
<1>3. ASSUME NEW r \in Requests, MarkCompleted(r) PROVE AbstractCollection!Next
  BY <1>1, <1>3 DEF MarkCompleted, CompletedInv, CountedInv
<1>4. ASSUME NEW r \in Requests, CanPost(r) \/ Serve(r) \/ Crash(r), ~Commit(r), ~MarkCompleted(r)
      PROVE  UNCHANGED <<runs, n, state, delivered>>
  BY <1>4 DEF Serve, CanPost, CheckCount, Authorize, Insert, Decide, Complete, Reopen,
              UpdateProject, Mark, Crash
<1>5. ASSUME NEW u \in Users, Schedule(u) PROVE UNCHANGED <<runs, n, state, delivered>>
  BY <1>5 DEF Schedule, Query, AcquireLock, LockEnds
<1>6. CASE OwnerActs
  <2>1. delivered' = delivered
    BY <1>6 DEF OwnerActs, UnchangedByOwner, StartRedundancy, ReopenExported, UpdateRedundancy,
                SelectComplete, FinishRedundancy, StartReset, DeleteRuns, DeleteResults, OwnerCrash
  <2>2. /\ runs' = runs /\ n' = n
        /\ state' = state \/ (state' = "completed" /\ Answered(runs, n))
    BY <1>6, OwnerEffect DEF LocksHold
  <2>3. QED
    BY <1>1, <2>1, <2>2
<1>7. CASE Export
  <2>1. state = "completed"
    BY <1>7, NotGold DEF Export, LocksHold
  <2>2. AbstractCollection!Deliver
    BY <1>7, <2>1 DEF Export, AbstractCollection!Deliver
  <2>3. QED
    BY <2>2 DEF AbstractCollection!Next
<1>8. CASE UNCHANGED vars
  BY <1>8 DEF vars
<1>9. QED
  BY <1>2, <1>3, <1>4, <1>5, <1>6, <1>7, <1>8 DEF Next, Rest

\* While the locks outlive what they protect, the transactions that store the answers, the
\* completion tests and the exports implement the collection: each answer is added once,
\* none too many, none goes, the task is completed once and for all with all of them, and
\* a consumer is given all that there will be, whatever workers die on the way.
THEOREM CollectionTheorem == ASSUME LocksHold PROVE Spec => ImplementsCollection
<1>1. Init => AbstractCollection!Init
  BY TaskConstants DEF Init, AbstractCollection!Init
<1>2. /\ TypeOK /\ OwnerInv /\ PostInv /\ CountInv /\ CompletedInv /\ [Next]_vars
      => [AbstractCollection!Next]_<<runs, n, state = "completed", delivered>>
  BY CollectionStep
<1>3. Spec => []CompletedInv
  BY CompletedInvariant DEF LocksHold
<1>4. QED
  BY <1>1, <1>2, <1>3, CountInvariant, PTL
     DEF Spec, ImplementsCollection, AbstractCollection!Spec, AbstractCollection!vars
==============================================================================
