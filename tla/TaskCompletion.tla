---------------------------- MODULE TaskCompletion ----------------------------
(***************************************************************************)
(* How the answers to one task are collected and how the task completes:   *)
(* the scheduler (pybossa/sched.py) hands the task out under Redis locks,  *)
(* POST /api/taskrun (pybossa/api/task_run.py) checks and stores an answer *)
(* in one PostgreSQL transaction whose flush runs the listeners of         *)
(* pybossa/model/event_listeners.py, and pybossa/model/completion_event.py *)
(* repeats the completion test after the commit.  The project's owner may  *)
(* change the redundancy or delete the answers, and a consumer exports     *)
(* completed tasks, at any time.                                           *)
(*                                                                         *)
(* The database is at READ COMMITTED: a statement sees what was committed  *)
(* before it and the writes of its own transaction, and an UPDATE waits    *)
(* for the row lock that another transaction keeps until it ends.          *)
(***************************************************************************)
EXTENDS Integers, FiniteSets

CONSTANTS
  Users,          \* workers who answer
  Requests,       \* POST requests, each of one task run
  UserOf,         \* the user who sends each request
  InitialAnswers, \* task.n_answers at the beginning
  Redundancies,   \* values the owner may give to n_answers
  Matched,        \* FALSE: the owner's filters never select this task
  Resets,         \* TRUE: the owner may publish with force_reset
  Crashes,        \* TRUE: web workers may die
  Kinds,          \* values that task.calibration may have: TRUE for a golden task
  Published,      \* project.published
  Timely,         \* TRUE: a lock outlives what it protects
  Owner, Nobody   \* holders of the row locks that are no request

ASSUME TaskConstants ==
  /\ IsFiniteSet(Requests) /\ IsFiniteSet(Users)
  /\ UserOf \in [Requests -> Users]
  /\ InitialAnswers \in Nat \ {0}
  /\ Redundancies \subseteq Nat \ {0}
  /\ {Matched, Resets, Crashes, Published, Timely} \subseteq BOOLEAN
  /\ Kinds \subseteq BOOLEAN
  /\ Owner \notin Requests /\ Nobody \notin Requests /\ Owner # Nobody

VARIABLES
  runs,         \* committed task runs
  n,            \* task.n_answers
  state,        \* task.state
  exported,     \* task.exported
  gold,         \* task.calibration = 1
  results,      \* committed rows of table result
  taskLock,     \* transaction that has updated the task row
  projectLock,  \* transaction that has updated the project row
  locks,        \* lock of each user on the task: none, held, or in its release delay
  offer,        \* room each user's scheduler read from the database, or NoOffer
  pc,           \* next step of each request
  draft,        \* result row each transaction has inserted, and those it superseded
  webhooks,     \* requests that enqueued a webhook
  ownerPc,      \* next step of the owner's operation
  wanted,       \* redundancy the owner asked for
  reopened,     \* the owner's transaction has set exported = False
  complete,     \* the owner's temporary table complete_tasks has the task
  doomed,       \* task runs the owner's transaction has deleted
  delivered     \* history: answers the consumer has exported

task      == <<n, state, exported, gold>>
rowLocks  == <<taskLock, projectLock>>
scheduler == <<locks, offer>>
owner     == <<ownerPc, wanted, reopened, complete, doomed>>
vars      == <<runs, task, results, rowLocks, scheduler, pc, draft, webhooks, owner, delivered>>

NoOffer == -1
Steps == {"idle", "count", "authorize", "insert", "decide", "complete", "reopen",
          "project", "commit", "mark", "write", "done"}
\* A request between can_post and the end of its transaction.
Posting == Steps \ {"idle", "mark", "write", "done"}
OwnerSteps == {"idle", "reopen", "update", "select", "finish", "deleteRuns", "deleteResults"}
ResultRows == [by : Requests \cup {Owner}, answers : SUBSET Requests, last : BOOLEAN]
NoDraft == [answers |-> {}, old |-> {}]

RunsOf(u) == {r \in runs : UserOf[r] = u}
\* Mutant of Answered: the answer being stored is counted twice.
AlmostAnswered(answers, required) == Cardinality(answers) + 1 >= required

Answered(answers, required) == Cardinality(answers) >= required
\* Mutant of Room: the locks are subtracted here as well as in acquire_lock.
RoomLessLocks == n - Cardinality(runs) - Cardinality({u \in Users : locks[u] # "none"})

Room == IF Cardinality(runs) < n THEN n - Cardinality(runs) ELSE 0
LockedUsers == {u \in Users : locks[u] # "none"}

\* Every variable has its type.
TypeOK ==
  /\ runs \subseteq Requests
  /\ n \in Nat
  /\ state \in {"ongoing", "completed"}
  /\ exported \in BOOLEAN /\ gold \in Kinds
  /\ results \subseteq ResultRows
  /\ taskLock \in Requests \cup {Owner, Nobody}
  /\ projectLock \in Requests \cup {Nobody}
  /\ locks \in [Users -> {"none", "held", "released"}]
  /\ offer \in [Users -> Nat \cup {NoOffer}]
  /\ pc \in [Requests -> Steps]
  /\ draft \in [Requests -> [answers : SUBSET Requests, old : SUBSET ResultRows]]
  /\ webhooks \subseteq Requests
  /\ ownerPc \in OwnerSteps
  /\ wanted \in Nat
  /\ reopened \in BOOLEAN /\ complete \in BOOLEAN
  /\ doomed \subseteq Requests
  /\ delivered \subseteq Requests

\* Golden tasks are born exported (task_creator_helper).
Init ==
  /\ runs = {} /\ n = InitialAnswers /\ state = "ongoing"
  /\ gold \in Kinds /\ exported = gold
  /\ results = {}
  /\ taskLock = Nobody /\ projectLock = Nobody
  /\ locks = [u \in Users |-> "none"] /\ offer = [u \in Users |-> NoOffer]
  /\ pc = [r \in Requests |-> "idle"]
  /\ draft = [r \in Requests |-> NoDraft]
  /\ webhooks = {}
  /\ ownerPc = "idle" /\ wanted = 0 /\ reopened = FALSE /\ complete = FALSE
  /\ doomed = {} /\ delivered = {}

Goto(r, step) == pc' = [pc EXCEPT ![r] = step]

-----------------------------------------------------------------------------
(* The scheduler and the lock of a user on the task.                       *)

\* The query of locked_task_sql; a user who holds the lock is handed the task
\* without it.
Query(u) ==
  /\ offer[u] = NoOffer /\ locks[u] # "held"
  /\ state # "completed" /\ RunsOf(u) = {}
  /\ offer' = [offer EXCEPT ![u] = Room]
  /\ UNCHANGED <<runs, task, results, rowLocks, locks, pc, draft, webhooks, owner, delivered>>

\* Mutant of AcquireLock: the number of locks may reach what is left, and one more.
AcquireLockAtMost(u) ==
  /\ offer[u] # NoOffer
  /\ locks' = IF locks[u] = "none" /\ (gold \/ Cardinality(LockedUsers) <= offer[u])
              THEN [locks EXCEPT ![u] = "held"] ELSE locks
  /\ offer' = [offer EXCEPT ![u] = NoOffer]
  /\ UNCHANGED <<runs, task, results, rowLocks, pc, draft, webhooks, owner, delivered>>

\* acquire_lock in the loop over the rows: the limit is what the query left.
AcquireLock(u) ==
  /\ offer[u] # NoOffer
  /\ locks' = IF locks[u] = "none" /\ (gold \/ Cardinality(LockedUsers) < offer[u])
              THEN [locks EXCEPT ![u] = "held"] ELSE locks
  /\ offer' = [offer EXCEPT ![u] = NoOffer]
  /\ UNCHANGED <<runs, task, results, rowLocks, pc, draft, webhooks, owner, delivered>>

\* The lock outlives the request it admitted, and its release delay outlives
\* the schedulers whose query has not seen the answer.
Outlived(u) ==
  /\ \A r \in Requests : UserOf[r] = u => pc[r] \notin Posting
  /\ locks[u] = "released" => \A v \in Users : offer[v] \in {NoOffer, Room}

LockEnds(u) ==
  /\ locks[u] # "none"
  /\ Timely => Outlived(u)
  /\ locks' = [locks EXCEPT ![u] = "none"]
  /\ UNCHANGED <<runs, task, results, rowLocks, offer, pc, draft, webhooks, owner, delivered>>

-----------------------------------------------------------------------------
(* POST /api/taskrun.                                                      *)

Unchecked == <<runs, task, results, rowLocks, scheduler, draft, webhooks, owner, delivered>>

\* check_can_post: the user must have a lock; otherwise 403, and nothing changes.
CanPost(r) ==
  /\ pc[r] = "idle" /\ locks[UserOf[r]] # "none"
  /\ Goto(r, "count")
  /\ UNCHANGED Unchecked

\* _check_task_not_over_answered
CheckCount(r) ==
  /\ pc[r] = "count"
  /\ Goto(r, IF ~gold /\ Answered(runs, n) THEN "done" ELSE "authorize")
  /\ UNCHANGED Unchecked

\* TaskRunAuth._create: no committed run of the same user.
Authorize(r) ==
  /\ pc[r] = "authorize"
  /\ Goto(r, IF RunsOf(UserOf[r]) = {} THEN "insert" ELSE "done")
  /\ UNCHANGED Unchecked

\* Mutant of Insert: the lock is released at once, without its delay.
InsertWithoutDelay(r) ==
  /\ pc[r] = "insert"
  /\ locks' = [locks EXCEPT ![UserOf[r]] = "none"]
  /\ Goto(r, IF ~gold THEN "decide" ELSE IF exported /\ Published THEN "reopen" ELSE "project")
  /\ UNCHANGED <<runs, task, results, rowLocks, offer, draft, webhooks, owner, delivered>>

\* The INSERT of the run; on_taskrun_submit first releases the lock in Redis.
Insert(r) ==
  /\ pc[r] = "insert"
  /\ locks' = [locks EXCEPT ![UserOf[r]] = "released"]
  /\ Goto(r, IF ~gold THEN "decide" ELSE IF exported /\ Published THEN "reopen" ELSE "project")
  /\ UNCHANGED <<runs, task, results, rowLocks, offer, draft, webhooks, owner, delivered>>

\* is_task_completed, of the listeners: the count includes the new run.
Decide(r) ==
  /\ pc[r] = "decide"
  /\ Goto(r, IF Answered(runs \cup {r}, n) THEN "complete" ELSE "project")
  /\ UNCHANGED Unchecked

\* update_task_state, then create_result and push_webhook if published.
Complete(r) ==
  /\ pc[r] = "complete" /\ taskLock = Nobody
  /\ taskLock' = r
  /\ IF Published
     THEN /\ draft' = [draft EXCEPT ![r] = [answers |-> runs \cup {r}, old |-> results]]
          /\ webhooks' = webhooks \cup {r}
     ELSE UNCHANGED <<draft, webhooks>>
  /\ Goto(r, "project")
  /\ UNCHANGED <<runs, task, results, projectLock, scheduler, owner, delivered>>

\* The golden branch: exported = False if the task was read as exported.
Reopen(r) ==
  /\ pc[r] = "reopen" /\ taskLock = Nobody
  /\ taskLock' = r
  /\ Goto(r, "project")
  /\ UNCHANGED <<runs, task, results, projectLock, scheduler, draft, webhooks, owner, delivered>>

\* update_project, the listener that follows.
UpdateProject(r) ==
  /\ pc[r] = "project" /\ projectLock = Nobody
  /\ projectLock' = r
  /\ Goto(r, "commit")
  /\ UNCHANGED <<runs, task, results, taskLock, scheduler, draft, webhooks, owner, delivered>>

\* Mutant of Superseded: the results keep last_version.
NoneSuperseded(old) == results

Superseded(old) == (results \ old) \cup {[x EXCEPT !.last = FALSE] : x \in results \cap old}

Commit(r) ==
  /\ pc[r] = "commit"
  /\ runs' = runs \cup {r}
  /\ state' = IF taskLock = r /\ ~gold THEN "completed" ELSE state
  /\ exported' = (exported /\ taskLock # r)
  /\ results' = IF draft[r] = NoDraft THEN results
                ELSE Superseded(draft[r].old)
                       \cup {[by |-> r, answers |-> draft[r].answers, last |-> TRUE]}
  /\ draft' = [draft EXCEPT ![r] = NoDraft]
  /\ taskLock' = IF taskLock = r THEN Nobody ELSE taskLock
  /\ projectLock' = Nobody
  /\ Goto(r, "mark")
  /\ UNCHANGED <<n, gold, scheduler, webhooks, owner, delivered>>

\* Mutants of Mark: no second completion test; no exception for golden tasks.
MarkNever(r) == pc[r] = "mark" /\ Goto(r, "done") /\ UNCHANGED Unchecked
MarkGold(r) ==
  /\ pc[r] = "mark"
  /\ Goto(r, IF Answered(runs, n) THEN "write" ELSE "done")
  /\ UNCHANGED Unchecked

\* mark_if_complete reads the task and the count again ...
Mark(r) ==
  /\ pc[r] = "mark"
  /\ Goto(r, IF ~gold /\ Answered(runs, n) THEN "write" ELSE "done")
  /\ UNCHANGED Unchecked

\* ... and update_task_state, of completion_event, writes the state alone.
MarkCompleted(r) ==
  /\ pc[r] = "write" /\ taskLock = Nobody
  /\ state' = "completed"
  /\ Goto(r, "done")
  /\ UNCHANGED <<runs, n, exported, gold, results, rowLocks, scheduler, draft, webhooks, owner, delivered>>

\* Mutant of Crash: the transaction stays open.
CrashWithoutRollback(r) ==
  /\ Crashes /\ pc[r] \notin {"idle", "done"}
  /\ draft' = [draft EXCEPT ![r] = NoDraft]
  /\ Goto(r, "done")
  /\ UNCHANGED <<runs, task, results, rowLocks, scheduler, webhooks, owner, delivered>>

\* The web worker dies: PostgreSQL rolls its transaction back.
Crash(r) ==
  /\ Crashes /\ pc[r] \notin {"idle", "done"}
  /\ taskLock' = IF taskLock = r THEN Nobody ELSE taskLock
  /\ projectLock' = IF projectLock = r THEN Nobody ELSE projectLock
  /\ draft' = [draft EXCEPT ![r] = NoDraft]
  /\ Goto(r, "done")
  /\ UNCHANGED <<runs, task, results, scheduler, webhooks, owner, delivered>>

-----------------------------------------------------------------------------
(* update_tasks_redundancy: one transaction of five statements.            *)

UnchangedByOwner == <<projectLock, scheduler, pc, draft, webhooks, delivered>>

\* update_task_exported_status selects a completed task that will need more.
StartRedundancy ==
  /\ ownerPc = "idle"
  /\ wanted' \in Redundancies
  /\ ownerPc' = IF ~Matched THEN "select"
                ELSE IF state = "completed" /\ n < wanted' THEN "reopen" ELSE "update"
  /\ UNCHANGED <<runs, task, results, taskLock, reopened, complete, doomed, UnchangedByOwner>>

ReopenExported ==
  /\ ownerPc = "reopen" /\ taskLock = Nobody
  /\ taskLock' = Owner /\ reopened' = TRUE
  /\ ownerPc' = "update"
  /\ UNCHANGED <<runs, task, results, wanted, complete, doomed, UnchangedByOwner>>

\* UPDATE task SET n_answers = ..., state = 'ongoing'
UpdateRedundancy ==
  /\ ownerPc = "update" /\ taskLock \in {Nobody, Owner}
  /\ taskLock' = Owner
  /\ ownerPc' = "select"
  /\ UNCHANGED <<runs, task, results, wanted, reopened, complete, doomed, UnchangedByOwner>>

\* update_task_state fills complete_tasks, as this transaction sees n_answers ...
SelectComplete ==
  /\ ownerPc = "select"
  /\ complete' = (~gold /\ Answered(runs, IF Matched THEN wanted ELSE n))
  /\ ownerPc' = "finish"
  /\ UNCHANGED <<runs, task, results, taskLock, wanted, reopened, doomed, UnchangedByOwner>>

NewState == IF complete THEN "completed" ELSE IF Matched THEN "ongoing" ELSE state

NeedsResult == NewState = "completed" /\ runs # {} /\ results = {}

\* ... marks its tasks completed, adds a result to each completed task that has
\* none, and commits.
FinishRedundancy ==
  /\ ownerPc = "finish"
  /\ complete => taskLock \in {Nobody, Owner}
  /\ n' = IF Matched THEN wanted ELSE n
  /\ state' = NewState
  /\ exported' = (exported /\ ~reopened)
  /\ results' = IF NeedsResult
                THEN results \cup {[by |-> Owner, answers |-> runs, last |-> TRUE]} ELSE results
  /\ taskLock' = IF taskLock = Owner THEN Nobody ELSE taskLock
  /\ ownerPc' = "idle" /\ wanted' = 0 /\ reopened' = FALSE /\ complete' = FALSE
  /\ UNCHANGED <<runs, gold, doomed, UnchangedByOwner>>

(* publish with force_reset: delete_taskruns_from_project, then, in a      *)
(* transaction of its own, delete_results_from_project.                    *)

StartReset ==
  /\ Resets /\ ownerPc = "idle"
  /\ doomed' = runs
  /\ ownerPc' = "deleteRuns"
  /\ UNCHANGED <<runs, task, results, taskLock, wanted, reopened, complete, UnchangedByOwner>>

DeleteRuns ==
  /\ ownerPc = "deleteRuns" /\ taskLock = Nobody
  /\ runs' = runs \ doomed /\ doomed' = {}
  /\ state' = "ongoing" /\ exported' = gold
  /\ ownerPc' = "deleteResults"
  /\ UNCHANGED <<n, gold, results, taskLock, wanted, reopened, complete, UnchangedByOwner>>

DeleteResults ==
  /\ ownerPc = "deleteResults"
  /\ results' = {}
  /\ ownerPc' = "idle"
  /\ UNCHANGED <<runs, task, taskLock, wanted, reopened, complete, doomed, UnchangedByOwner>>

\* The worker that serves the owner dies; its transaction is rolled back.
OwnerCrash ==
  /\ Crashes /\ ownerPc # "idle"
  /\ taskLock' = IF taskLock = Owner THEN Nobody ELSE taskLock
  /\ ownerPc' = "idle" /\ wanted' = 0 /\ reopened' = FALSE /\ complete' = FALSE
  /\ doomed' = {}
  /\ UNCHANGED <<runs, task, results, UnchangedByOwner>>

\* Mutant of Export: the consumer asks for tasks in any state.
ExportAny ==
  /\ ~exported /\ taskLock = Nobody /\ projectLock = Nobody
  /\ exported' = TRUE /\ delivered' = runs
  /\ UNCHANGED <<runs, n, state, gold, results, rowLocks, scheduler, pc, draft, webhooks, owner>>

\* A consumer fetches the answers and sets exported = True through the API.
Export ==
  /\ ~exported
  /\ state = "completed" \/ (gold /\ runs # {})
  /\ taskLock = Nobody /\ projectLock = Nobody
  /\ exported' = TRUE /\ delivered' = runs
  /\ UNCHANGED <<runs, n, state, gold, results, rowLocks, scheduler, pc, draft, webhooks, owner>>

\* No request is being served: the system rests, it is not deadlocked.
Rest ==
  /\ \A r \in Requests : pc[r] \in {"idle", "done"}
  /\ ownerPc = "idle"
  /\ UNCHANGED vars

Schedule(u) == Query(u) \/ AcquireLock(u) \/ LockEnds(u)

Serve(r) ==
  \/ CheckCount(r) \/ Authorize(r) \/ Insert(r) \/ Decide(r) \/ Complete(r) \/ Reopen(r)
  \/ UpdateProject(r) \/ Commit(r) \/ Mark(r) \/ MarkCompleted(r)

OwnerActs ==
  \/ StartRedundancy \/ ReopenExported \/ UpdateRedundancy \/ SelectComplete \/ FinishRedundancy
  \/ StartReset \/ DeleteRuns \/ DeleteResults \/ OwnerCrash

Next ==
  \/ \E u \in Users : Schedule(u)
  \/ \E r \in Requests : CanPost(r) \/ Serve(r) \/ Crash(r)
  \/ OwnerActs \/ Export \/ Rest

Spec == Init /\ [][Next]_vars

\* A worker goes on with the request it serves.
FairSpec == Spec /\ \A r \in Requests : WF_vars(Serve(r))

-----------------------------------------------------------------------------
(* Properties.                                                             *)

\* A task never collects more answers than it asks for, although its answers
\* are counted by transactions that do not see each other's: the locks, which
\* the scheduler counts with the answers, keep the others out.
NotOverAnswered == Cardinality(runs) <= n

\* A task is completed only when it has its answers (docstring of
\* on_taskrun_submit: "Update the task.state when n_answers condition is met").
CompletedMeansAnswered == state = "completed" => Cardinality(runs) >= n

\* A task whose last answers are committed side by side is still completed.
AnsweredCompletes == Answered(runs, n) ~> state = "completed"

AtRest == ownerPc = "idle" /\ \A r \in Requests : pc[r] \in {"idle", "done"}

\* Once nothing is in progress a task with all its answers is completed
\* (docstrings of on_taskrun_submit and update_tasks_redundancy).
AnsweredIsCompleted == (AtRest /\ ~gold /\ Answered(runs, n)) => state = "completed"

\* A completed task has a last result that names as many answers as it asks for.
CompletedHasResult ==
  (state = "completed" /\ Published) => \E x \in results : x.last /\ Answered(x.answers, n)

\* At most one result of the task is the last version, whatever transactions
\* create results side by side.
OneLastVersion == \A x, y \in results : x.last /\ y.last => x = y

\* The completion of a task is announced to the project's webhook only once.
AnnouncedOnce == Cardinality(webhooks) <= 1

\* A consumer that takes the tasks that are not marked exported misses no
\* answer: whatever arrives after an export clears the mark.
ExportCovers == (~gold /\ exported) => runs \subseteq delivered

\* "golden tasks never complete", by any of the three completion tests.
GoldStaysOpen == gold => state # "completed"

\* Who waits for a row that another transaction has updated.
Waiting(r) ==
  \/ pc[r] \in {"complete", "reopen", "write"} /\ taskLock # Nobody
  \/ pc[r] = "project" /\ projectLock # Nobody
OwnerWaits ==
  \/ ownerPc \in {"reopen", "deleteRuns"} /\ taskLock # Nobody
  \/ /\ ownerPc = "update" \/ (ownerPc = "finish" /\ complete)
     /\ taskLock \notin {Nobody, Owner}

\* The listeners update the row of the task, or not, and then that of its project; the
\* owner updates the task several times: whatever is in progress, and whoever has died,
\* not everybody waits for somebody else.
NoDeadlock ==
  \/ AtRest
  \/ ownerPc # "idle" /\ ~OwnerWaits
  \/ \E r \in Requests : pc[r] \notin {"idle", "done"} /\ ~Waiting(r)

\* As long as the owner works on other tasks, the locks of a task are a semaphore with a
\* unit for each answer it asks for, and schedulers that count them with room they have
\* read before never take one too many.
LockTable == INSTANCE Semaphore WITH
  Clients  <- Users,
  holders  <- {u \in Users : locks[u] = "held"},
  capacity <- n
LocksAreSemaphore == LockTable!Spec

\* Under the same condition the answers of the task are collected as the project expects,
\* although every step of every request sees only a part of them.
AbstractCollection == INSTANCE Collection WITH
  Answers   <- Requests,
  answers   <- runs,
  required  <- n,
  completed <- state = "completed",
  given     <- delivered
ImplementsCollection == AbstractCollection!Spec
==============================================================================
