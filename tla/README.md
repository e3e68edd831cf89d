# PYBOSSA, specified in TLA+

PYBOSSA hands out tasks to people, collects a number of answers to each, and
says when a task is complete.  This directory specifies the parts of it where
several actors meet: the Redis locks and the scheduler's other tables, the
collection of answers, the quiz that admits users to a project, the cache of
query results, the settings of a project with their audit log, and the copying
of projects between instances.  TLC checks the specifications on small
instances, and TLAPS proves the most important properties for all of them.

## The system

| component | state | operations | who else touches it |
| --- | --- | --- | --- |
| lock manager (`redis_lock.py`) | one Redis hash per resource (field = client, value = expiration), its TTL, a mutex key | `acquire_lock`, `has_lock`, `release_lock`, `get_locks` | every web worker, at once |
| scheduler (`sched.py`, `redis_lock.py`) | per user: hash of tasks, reservations of categories, membership in the hash of active users; reads the database (a replica) | `new_task`, `can_post`, cancelling, submitting, giving up a category, signing out | the lock manager, the database, other tabs of the user |
| answers and completion (`api/task_run.py`, `auth/taskrun.py`, `model/event_listeners.py`, `model/completion_event.py`) | rows of `task`, `task_run`, `result`, `project`; webhook queue | POST /api/taskrun: checks, one transaction with listeners, a second completion test | scheduler (locks), owner, consumers of results |
| redundancy, reset, export (`repositories/*`, `view/projects.py`, `api/task.py`) | the same rows | `update_tasks_redundancy`, publish with reset, PUT of `exported` | answers being collected |
| quiz (`model/user.py`, `api/*`, `view/projects.py`) | `user.info['quiz']`, `project.info['quiz']` | GET newtask, `update_quiz`, the owner's form | requests of the same user in other tabs, the owner |
| caches (`cache/__init__.py`) | Redis values, an L2 copy, a refresh mutex, the set of keys of a group | memoize, delete, refresh | every cached query, every writer |
| project settings and audit log (`view/projects.py`, `api/project.py`, `auditlogger.py`, `repositories/project_repository.py`, `jobs.py`) | one row of `project`, most settings in its column `info`; rows of `auditlog` | some thirty forms and pages, PUT /api/project, two jobs | several owners, administrators, jobs |
| synchronisation (`syncer/`, `view/projects.py`) | a copy of the other instance's project in Redis | sync, undo | the other instance: its API, its owners |
| contributions guard (`contributions_guard.py`) | stamps with a TTL per user and task | `stamp`, `check`, `retrieve` | scheduler and answers |
| rate limit (`ratelimit/`) | one Redis counter per window | increment on request | every API call |
| jobs, importers, exporters, views, accounts | database, files, e-mail | single requests or scheduled queries | - |

`PROJECT.json` lists all components with their status.

What is hard about it: every request is served by a worker that may stall or
die anywhere; locks, reservations and caches are sequences of Redis commands with
clocks and TTLs; the database runs at READ COMMITTED, so two transactions do not
see each other's answers; the scheduler reads a replica; the lock is released
before the answer it stands for is committed; owners change the redundancy while
answers arrive; JSON documents are read, changed and written back whole, and a
session writes whatever it holds at any commit; calls of another instance are
refused or get lost half-way through a synchronisation.

What makes each component correct:

- lock manager: never more lock holders than the limit, refusals only for locks
  that stand, no lock lost before its time;
- scheduler's tables: lock, index, reservation and list of active users agree; a
  category is one user's;
- answers: never more than asked for, complete if and only if answered, one
  last result, one webhook, no answer missed by a consumer; golden tasks stay
  open; transactions do not all wait for each other's rows;
- quiz: every verdict has its answers, a quiz ends, no answer is lost, a failure
  stands until the owner lifts it;
- caches: an invalidation is final, every cached key can be found again, calls
  return;
- project: a request changes what it was to change and stores what its form says,
  the log tells what the project is, the owner remains an owner;
- synchronisation: a copy touches only what it is to pass on, an undo brings back
  what was there, a project is born in its category.

## Modules

`LockManager` models `LockManager` of `redis_lock.py`, one Redis command (or
pipeline) per action.

- `expiry` is the hash, `hashTTL` its TTL, `mutex`/`mutexUntil` the key of
  `redis.lock.Lock`, `lease` the client's own view of a granted lock (history),
  `pc` and the other per-worker variables are the locals of a call in progress.
- `acquire_lock` is `StartAcquire` -> `ListExpired` -> `Purge` (both halves of
  `_release_expired_locks`) -> `AlreadyThere` or `NotThere` -> `TakeMutex` or
  `GiveUp` -> `CheckLocked` -> `Count` -> `Grant` -> `Unlock`; without a limit
  `GrantUnlimited`.  `has_lock` is `StartHasLock` -> `HasLockExists` -> `HasLockGet`.
  `Release`, `KeepLock` (the loop that releases a user's locks leaves those of
  other projects alone), `SeeLock` (`get_locks`) and `Crash` complete it.
- `Tick` moves the clock, and with it Redis drops the keys that are due.  A call
  lasts at most `MaxRequest`, a worker stalls inside the mutex at most `MaxStall`.
- `unlimited` is chosen once: callers without a limit use keys of their own.

`Semaphore` is what the lock promises: a set of holders, each added only while
there is room.  `LockManager` implements it (`ImplementsSemaphore`).

`TaskCompletion` models one task: schedulers, POST requests, owner and consumer.

- Scheduling: `Query` is the SQL of `locked_task_sql`, with the room that the
  query computes; `AcquireLock` is the call of `acquire_lock` that follows, at the
  level of `Semaphore`: an atomic test against the limit, which is what
  `LockManager` is shown to provide.  `LockEnds` is expiration or the end of the
  release delay.
- POST /api/taskrun: `CanPost`, `CheckCount`, `Authorize`, `Insert` (the listener
  releases the lock), `Decide` (`is_task_completed`), `Complete`
  (`update_task_state`, `create_result`, `push_webhook`) or `Reopen` for golden tasks,
  `UpdateProject`, `Commit`, then `Mark` and `MarkCompleted` of `completion_event`.
- Row locks: `taskLock` and `projectLock` are held from the UPDATE to the end of the
  transaction; uncommitted changes are in `draft` until `Commit` or `Crash`.
- Owner: `StartRedundancy` .. `FinishRedundancy` are the statements of one
  transaction; `StartReset`, `DeleteRuns`, `DeleteResults` are the two transactions of
  a reset.  `Export` is a consumer that fetches answers and sets `exported`.

`Collection` is what all this amounts to as long as the redundancy stays: answers are
added one by one, until there are as many as asked for; the last one, or a later step,
completes the task; a consumer is given the answers of a completed task.  Its three
steps are atomic, know of no lock and no transaction, and never take anything back.
`TaskCompletion` implements it (`ImplementsCollection`); its locks implement `Semaphore`
(`LocksAreSemaphore`), with a unit for every answer that the task asks for.

`Scheduling` models the tables of a project that reserves its tasks by category:
what one assignment writes in four places.  It takes `acquire_lock` as one step,
as `TaskCompletion` does, and leaves the number of answers to that module.

- `lock[u][t]` is the field in the hash of the task's users, `index[u][t]` the one in
  the hash of the user's tasks, `resv[u][t]` a reservation key, `active` the hash of
  active users; each holds what is left of it ("held" for longer than the code's
  thresholds of 5 s and 10 s, "ending", "stale" for an index entry that is due and
  not yet purged).  `RunDown`, `RunOut`, `DropIndex`, `ReservationEnds` and `ActiveEnds`
  let them run out.
- `TaskLock(t)` is `Semaphore` with one unit for the users who hold task t for long, so that
  the three modules that have locks promise the same of them.
- GET newtask is `AskOwn` (the reservations of the user and the rows of his query), or
  `AskInVain` -> `GiveUp` (if he has any) -> `AskOthers` (the reservations of the others
  and the rows of that query), and then `TakeLock` or `NextRow` -> `IndexLock` ->
  `Reserve` -> `Register`; `LockDirectly` is `lock_task_for_user`.
- `Cancel`, `Submit`, `ReleaseCategory` and `Signout` release: `LookForOthers` ->
  `Unregister` (if the user has no other task) -> `ReleaseLock`, then `ReadLocked` ->
  `ExpireReservations` for the category, and `Commit` for the answer.  `Die` ends any
  request.
- A session of `Sessions` is a tab, `By` its user: a user has any number of them.
- `unseen`, `parted` and `missed` (history) say which reservations a request could not
  see, which assignments were taken apart by a death or by clocks, and on which of them
  another tab of the same user was about to act when they entered his hash, having read
  the hash before.

`Quiz` models the quiz of one user in one project.

- `row` is the quiz in the database, `copy` what each request has read,
  `ownerCopy` what the owner's request has read, `config` the project's settings.
- GET newtask is `AskTask` (read) and `SaveQuiz` (the unconditional
  `user_repo.update`); POST is `Answer` (the commit), `ReadQuiz` and `GradeAnswer`
  (`update_quiz`); the form is `SaveSettings`, `ReadUser`, `WriteUser` or, if the release
  of locks raises, `ResetFails`.
- `QuizOf`, `Graded`, `Verdict` and `MayEnd` are the methods of `User`.  `given` (history)
  counts the answers stored while the quiz was in progress.
- With `overlap = FALSE` requests take turns; with `TRUE` they interleave.

`TwoLevelCache` models one cached value, one Redis command per action.

- `fn` is the way the function is decorated and invalidated: `memoize` with a group,
  `memoize_with_l2_cache` with a group, or the latter without one, whose keys are
  found by a scan.  `l1`, `l2` are the two keys, `group` the members of the set,
  `mutex` and `mutexLeft` the refresh mutex; a value is the version of the database
  that it was computed from.
- A call is `HitL1`, or `MissL1`/`ForceRefresh` -> `ReadL2` -> `TakeMutex` -> `Compute` ->
  `StoreL1` -> `StoreL2` -> `JoinL1` -> `JoinL2` -> `Release`; without the mutex it is
  `ServeL2` or `StartPolling` -> `PollHit` or `WaitedOut`.  `ComputeFails` and `Crash` leave
  the mutex to its TTL.  `Tick` moves the timers, and waits for no one's command.
- The writer is `Write`, then `DeleteKey`, `DeleteL1`/`DeleteL2`,
  `ReadMembers`/`DeleteMembers` or `Scan`/`DeleteScanned`, or nothing (`Leave`).
- `floor`, `need`, `clean`, `unprotected` and `torn` are history, `steady` excludes
  failures.

`CachedValue` is what a caller may expect: a value not older than the last
invalidation that had taken effect when the call began.  `TwoLevelCache`
implements it (`ImplementsCachedValue`); an invalidation overtaken by an older
refresh takes no effect there, which is what the code does.

`ProjectDocument` models the row of one project under twenty-seven handlers.

- `row` is the row, `trail` the last value in the log of each audited setting.  A
  request has a plan, `todo`: its commits after the first read, each a save by the
  repository, an entry (of values given, read again, or found by comparison with
  `base`) or an edit in between; `given` is what its form says.
- A session is `copy` (nothing when it has expired) and `dirty`, the columns to be
  written; `Commit` writes those columns, whichever repository commits, and expires
  the copy.  All settings are one column, `info`: `overlooked` (history) says which of
  them others have changed since the session read them.
- `SaveProject` is `save` and `update` of the repository.  Their verification of the data
  classification sets `info['data_access']` (`Classified`), so every save writes all
  the settings as its session holds them: publishing, featuring, a transfer, a new secret
  key or a coowner takes back what another request has saved since.  A commit of a log
  entry writes what is dirty and no more.  After the commit of an entry the presenter's
  form reads the row anew, to set the classification in that.
- `Serve` begins a request, `SaveProject`, `EnterLog`, `EditProject` and `EditFails` carry
  out the plan, `Crash` ends it.  Each handler is one action named after it that
  says which fields it sets and in which order it saves and logs.

`FormDocument` is what those who keep a project may expect: a form that is handed in sets
the fields that it says, all at once and no other, and the log tells them.  As long as
requests take turns and none dies `ProjectDocument` implements it (`ImplementsForms`): the
project is `base`, the row as the request under way has found it, until the request's last
step.

`ProjectSync` models the synchronisation of one project with its target.

- `source` and `target` are the projects of the same short name, `names` the
  categories at the target, `copy` the key in Redis; `mine`, `got`, `cat` and `failed`
  are what a request has read, fetched and met with.
- sync is `Sync` -> `GetTarget` -> `GetCategory` -> (`GetCategoryAgain` -> `PostCategory`) ->
  `Create`, or `CacheTarget` -> `Put`; undo is `UndoSync` -> `ReadCopy` -> `PutBack` ->
  `DeleteCopy`.  Every call may be refused, or fail after it had its effect;
  `Abort` is a death, an exception or a lost reply.  `CopyExpires` is the TTL of a week.
- `EditSource`, `EditTarget` and `EnableSync` are the owners of both sides.
- `replaced` and `told` (history) are what the last sync replaced and what the
  target's settings were set to at the target.

The `MC` modules instantiate them; `LockManager_proofs`, `TaskCompletion_proofs`,
`Quiz_proofs`, `TwoLevelCache_proofs`, `Scheduling_proofs`, `ProjectDocument_proofs` and
`ProjectSync_proofs` hold the theorems.  Operators introduced as "Mutant of X" are
wrong versions of X, used to see that the properties notice.

## Runs

| run | instance | shows |
| --- | --- | --- |
| `lock_limit` | 2 workers, 2 clients, limit 1 or none, crashes, clock to 9 | the mutex excludes, refusals are justified, the hash outlives its locks, and the whole is a semaphore of that limit |
| `lock_purge_race` (violation) | 2 workers, 1 client | the stale deletion of an expired field removes a new lock |
| `task_submit` | 3 users, 2 answers, owner on other tasks, locks that last | no extra answer, completion exactly when answered, one webhook, exports miss nothing, eventually completed, and all of it an implementation of `Collection` |
| `task_owner` | 2 users, 1 answer, golden or not, redundancy 1 or 2, resets, crashes, lapsing locks | never two last results; no completion test completes a golden task; no deadlock among row locks |
| `task_no_result` (violation) | 2 users, 2 answers | answers committed side by side complete a task without a result |
| `quiz` | 2 tabs, owner, 3 answers, 2 saves, 3 settings, overlapping or not | verdicts are justified, a quiz ends, turns lose no answer |
| `quiz_stands` (violation) | 2 tabs, overlapping | GET newtask overwrites a failure |
| `two_level_cache` | 2 callers, a writer, 3 kinds of functions | invalidations hold unless overtaken, the levels stay in order, groups cover their keys, calls return |
| `scheduling` | 2 users, one of them with two tabs, 2 tasks, 2 categories, 3 requests | the four tables agree, a user's reservation and his entry among the active users are taken away only by another of his tabs that had read his locks before, categories are shared only by requests that could not see each other |
| `scheduling_tabs` (violation) | 1 user with three tabs, 2 tasks, 4 requests | a task locked in one tab loses its reservation and its place in the list of locked tasks to two others |
| `project_document` | 2 overlapping requests of 27 handlers, 3 requests in all, crashes | who may change what, forms are stored (it implements `FormDocument`), the log tells the settings, the owner stays an owner |
| `project_sync` | 2 requests, 3 in all, 2 edits, 2 categories, every failure | a sync touches two settings, an undo restores, a project is born in its category |

Bounds, and why they are enough.

Lock: two clients for a limit of one are the least that can exceed it, and two
workers the least that race.  `Duration` 3, `ReleaseDelay` 2, `MutexTTL` 2,
`BlockingTimeout` 1 keep the order of the code's values (an hour, 5 s, 3 s, a
shorter wait); `MaxStall` 1 keeps a worker within the mutex's TTL, `MaxRequest` 2
within the lock's duration; `MaxTime` 9 lets a lock be granted, expire, be purged
and granted again.  At `MaxTime` the model rests (`Horizon`) once no call is open; a
call that is open then can only finish.

Tasks: three users for two answers have one too many; two answers are the least
whose transactions can miss each other; redundancies 1 and 2 can be raised,
lowered and kept.  `InitialAnswers` is 1 in `task_owner` so that completion, repair
and reset can meet with two requests.  `task_owner` has a VIEW without `webhooks` and
`delivered`, which no guard and no property of that run reads.

Quiz: settings of 3 questions with 2 to pass (short circuit), of 2 with 1 (all
questions) and of 1 with 0 to pass cover both completion modes, pass and fail and
the free-form quiz; `MaxAnswers` 3 exhausts each, `MaxSaves` 2 lets settings change
twice.  Deadlock is not checked in `MCQuiz`: a failed user is handed nothing, and
with the answers and saves used up the model has nothing left to do.

Cache: two callers race for the mutex, one of them waits; one write is the least
that can be missed, and callers begin again without bound.  `MutexTTL` 1 lets a
mutex expire under its owner and under one who waits.  Timers are relative, so
time has no bound.  About 1.3 million states.  Deadlock is not checked: once the
versions are used up, nobody needs to call.

Scheduling: two users are the least that share a category, two tabs the least that act on
old readings of each other's locks, two tasks the least where one is released and the
other kept; tasks may be in the same category or not.  Three requests are an
assignment of each user and a release, or two assignments of one user and a release,
in one tab or in two, whose commands interleave.  `MaxParted` 1 lets failures take
one assignment apart, after which nothing is claimed of it.  About 1.5 million states.
Deadlock is not checked: with the requests used up, and all entries expired,
nothing is left to happen.  `scheduling_tabs` has three tabs and four requests, since a
tab that takes the reservation away on an old reading of the locks and one that takes the
user off the list are two, and the task that they had locked before comes first.  With
two tabs, either of the two is lost: that is what `missed` stands for in `scheduling`.

Project document: two values tell a setting that was changed from one that was
not; three requests are two that overlap and one between them or after; the
number of requests makes handlers meet in pairs, and a handler's effect depends
on the row and its own session only.  `PutFields` is one setting and one column,
since a PUT treats all settings alike.  About 2.8 million states.

Synchronisation: three values, so that source, target and absence can differ; one
edited setting is passed on and one is kept back, the others stay as they were
and fall under the theorems; three requests are a sync, a refused or failed sync
and an undo; two edits are one of each side, or one and an enabling.  The default
and another category cover "exists", "is created" and "falls back".  About 2.8
million states.

Symmetry is used for workers, clients, users, requests and tasks where no
definition tells them apart, and not where a liveness property is checked.

Fairness.  `FairSpec` of `TaskCompletion` assumes weak fairness of `Serve(r)` for every
request: a worker that is alive goes on with its request, and PostgreSQL grants
a row lock that is free.  Nothing is assumed of users, owners, schedulers or of
the end of locks.  `task_submit` needs no more for `AnsweredCompletes`; it lets no
worker die, since a worker that dies before `mark_if_complete` leaves the task
ongoing (below).  `TwoLevelCache` assumes weak fairness of the steps of a call, and
that time passes for those who wait: `Tick` is strongly fair, because it is disabled
while a poll could succeed.  It assumes nothing of writers, expirations or new
calls, and `EveryCallReturns` holds although refreshes fail and die.

`Timely` is the assumption under which the collection of answers is right: a
lock is not lost while the POST that it admitted is in progress, and the release
delay lasts until every scheduler that read the database before the commit has
asked for its lock.  With the code's values this means POSTs shorter than the
task's timeout and a query with replication lag shorter than 5 s.

## Proofs

All seven proof modules are checked from nothing; a leaf is proved by Z3 or Zenon,
the temporal steps by LS4.  Leaves are kept small: every module is also proved with
less than a third of the time that a run allows for each leaf.  The theorems hold for every value of the constants,
the bounds of the runs included.

`LockManager_proofs`, from `LockConstants`:

- `TypeCorrect`;
- `MutexExclusion` (if `StallBelowTTL`): `MutexInv` adds that a worker in the critical
  section owns the mutex and has been there for less than its TTL, so the key
  cannot expire under it;
- `LimitTheorem` (if `StallBelowTTL`): `LimitInv` adds `RoomInv`, that the count a worker
  has read still leaves room (nobody else can grant), and `BranchInv`, that
  unlimited calls do not mix with limited ones;
- `Refinement` (if `StallBelowTTL`): every step is a step of `Semaphore` or stutters;
- `HashTheorem`: every grant renews the TTL for longer than any field lasts;
- `RefusalTheorem` (if `CallsBelowDuration`): `FreshInv` says that a field which the call
  has passed by had not expired when the call began, or is about to be purged;
- `LeaseTheorem` (if `PurgesExpired`, a condition on the behaviour and not on the
  constants): `LeaseInv` says that a field holds the expiration last granted.  It is
  the converse of the run `lock_purge_race`: the stale purge shown there is the only way
  to lose a lock.  TLC confirms that purges happen under the condition.

`TaskCompletion_proofs`, from `TaskConstants`:

- `TypeCorrect`;
- `GoldTheorem`, with no premise: `GoldInv` says that a golden task never reaches the
  branches that complete;
- `LastVersionTheorem` (if the owner's filters select the task): `DraftInv` says that
  a transaction with a draft holds the task row and that it superseded every
  last result there is.  A repair by an owner whose filters do not select the task
  writes results without the row lock;
- `LastVersionElsewhere` (if `LocksHold`) is about that repair: it looks for completed
  tasks without a result, and `RepairsAlone` says that no transaction has a result on its
  way then, because its answer would be one too many for a completed task;
- `AskedTheorem` (if `LocksProtect`): whatever the owner raises, lowers or resets while answers
  arrive, there are never more of them than M, if he never asks for more than M.  Users
  with an answer or a lock, held or in its release delay, are at most M (`Fit`): the
  room a scheduler carries, however old, covers the answers that no release delay
  announces any more (`OfferInv`), and the locks it is compared with stand for the others;
- `OverAnswerTheorem` (if `LocksProtect` and the redundancy of this task stays): M is then n.
  With a redundancy that changes the answers may exceed n, if only because the owner lowers it;
- `CompletedTheorem` and `AnsweredTheorem` (if `OwnerElsewhere`, the latter without
  crashes): whoever is about to complete the task has counted its answers
  (`CountedInv`), and some request still has its second test ahead while an answered
  task is ongoing (`PendingInv`);
- `ExportTheorem` (if `LocksHold`, which excludes golden tasks): an exported task is
  complete and has no room for another answer (`ExportInv`), so a fetch misses none;
- `AnnounceTheorem` (the same, without crashes): whoever announces the completion, or is
  about to, has the last answer (`AnnounceInv`), and there is one such;
- `NoDeadlockTheorem`, with no premise: `LocksInOrder` says that the row of the project is
  taken last and only by who has nothing but the commit before him, and that whoever
  has the row of the task waits for no other row;
- `LocksTheorem` (if the owner works elsewhere and the task is not golden, whether or not
  `Timely`): the room that a scheduler carries is at most n (`OfferBound`), and it counts
  at least the holders;
- `CollectionTheorem` (if `LocksHold`): every step is a step of `Collection` or stutters.  A
  commit is `Collect`, since the answers and the requests on their way fit into n
  (`AllFit`) and a completed task has no room (`CompletedInv`); the write of the second
  completion test and the owner's repair are `Complete` or stutter; an export is
  `Deliver`.

`LocksProtect` is: every user sends one request, `Timely`, and the task is not golden.
`OwnerElsewhere` is: the owner works on other tasks.  `LocksHold` is both, and
`MCTaskSubmit.cfg` is an instance of it, with or without crashes.

`Scheduling_proofs`, from `SchedulingConstants`:

- `TypeCorrect`;
- `TablesTheorem`, `KeptTheorem` and `ListedTheorem`, with no premise, so for any number of
  tabs of a user: `InStepInv` says that lock and index entry were written by the same
  request and run down together; `ReleasedInv` and `LookedInv` that what a release did
  not find among the user's locks, or what it looked for in vain, is not locked until it
  is done, or is in `missed`; `GivenUpInv` that the reservations which a request is
  about to give up are of tasks that have their answer; `KeptInv` and `ListedInv` that a lock outlives neither its reservation
  nor its owner's entry in the hash of active users, except under the request that is at
  work on them, or in `missed`.  What one step of any request may change of an assignment
  is said once, in `MovesStep` and `ChangesStep`.  Without `missed` both fail with two
  tabs: a tab that gives up a task reads the user's locks (`sched.py` 526) before it scans his
  reservations and ends those that it did not find there (530), one that releases the last looks
  for others (664) before it unregisters the user (667), and another tab locks and
  reserves in between.  An assignment enters `missed` only by being written to the hash
  at that moment, and leaves it by being written again;
- `TaskLockTheorem`, for any tabs: whoever comes to hold a task found its hash empty, so
  that each step is one of `Semaphore` or stutters;
- `SharedTheorem`, for any tabs: `SeenInv` says that every category that a request is about
  to reserve was free of others' reservations when it read them, or is in `unseen`.

`Quiz_proofs`, from `QuizConstants`, with no premise but for the last:

- `TypeCorrect`, with `HasRead`: a request writes only what it has read;
- `VerdictTheorem` and `EndTheorem`: since any old copy may overwrite the row, `Inv`
  states `Sound` and `Bounded` of the row and of every copy, and that a copy to be
  graded is in progress;
- `CountTheorem`: `CountInv` says that without overlap one request is active, its copy
  is what the row holds, and the answer it grades is the only one not counted;
- `StandsTheorem` (if requests take turns): with the same invariant, no request goes on
  with a quiz it has read as failed (`OpenCopies`).  What `quiz_stands` shows takes requests
  that overlap.

`TwoLevelCache_proofs`, from `CacheConstants`:

- `TypeCorrect`, with `MutexAlive`: a mutex that is taken has time to live;
- `GroupCoversTheKeys`, `LevelsInOrder` and `NobodyWaitsInVain`: `GroupInv` names where
  the caller is that stored a key and has not registered it; `OrderInv` says that at
  most one caller updates, the owner of the mutex, and what it is about to store is not
  older than either level; `WaitersInv` that, if nothing fails, whoever polls has an owner of the mutex
  to wait for whose time is not up;
- `Refinement`: every step is a step of `CachedValue` or stutters.  Its invariant is that
  both levels, what callers have read and what they are about to store are as new as
  each of them may rely on.

`ProjectDocument_proofs`, from `DocumentConstants`, with no premise: the lemma `Handlers`
gives the shape of the plans of all twenty-seven handlers, so that the steps are
proved once;

- `TypeCorrect`;
- `AccountedTheorem`: `RestInv` and `CopyInv` say that a session's copy differs from the
  row only in what the request is to set and what others have changed since.  Since
  every save writes all the settings, what the copy holds of the others' matters in each of
  the handlers, and what they have changed is taken back;
- `TrailTheorem` and `OwnerTheorem`: in turns (`TurnInv`) the one session
  holds the row, or has flagged what differs; `GivenInv`, `TrailInv` and `OwnerInv` follow
  the form's values, the entries and the owner through the rest of the plan;
- `FormsTheorem`: with the same invariant, the first step of a request is `HandIn`, its
  last `Store` and every other stutters; `TurnsRefine` concludes that a behaviour in turns
  and without deaths is one of `FormDocument`.

`ProjectSync_proofs`, from `SyncConstants` and `NoProjectIsNone`, with no premise:

- `TypeCorrect`, with `ShapeInv`: what a request has at each of its steps, and that only an
  enabled target is copied to Redis;
- `OwnTheorem`: `OwnInv` says of the target, of the copy and of all that was fetched that
  their own settings were set at the target, so that it does not matter whose copy
  is put back when;
- `CategoryTheorem`: `CategoryInv` says that a payload has the project's category or a call
  was refused;
- `UndoTheorem`: `OneInv`, `GotInv` and `CopyInv`: a sync leaves the target not enabled, and a
  sync of a target that is not enabled does not reach the copy.  The flag protects
  the copy.

Only model-checked: the liveness properties `AnsweredCompletes` and `EveryCallReturns`,
since they need fairness, and the instances outside the premises. `task_owner` is a case
of `LastVersionTheorem`, `GoldTheorem` and `NoDeadlockTheorem`. `AskedTheorem` says what
a change of redundancy or a reset of the task itself leaves of `NotOverAnswered`; of the
other properties they leave nothing that a theorem states, and the list below shows why. Proved and not checked by a run of this project: `LimitTheorem`
(which `ImplementsSemaphore` covers), `AskedTheorem`, `LocksTheorem`, `TaskLockTheorem`
(TLC does not take an instance with a parameter as a property), and `LeaseTheorem` and
`StandsTheorem`, whose properties the violation runs refute without their premises.
Nothing here is recursive, and no induction over data is used.

## Where code and documentation disagree

The violation runs show, with the lines in `PROJECT.json` "findings": a purge that deletes
a lock granted since it listed the expired ones (`redis_lock.py:269`); a task completed
without a result (`model/event_listeners.py:239`); a failed quiz reopened by GET newtask
(`api/__init__.py:365`); a task locked in one tab, whose reservation is ended and whose
user is taken off the list of active users by two others (`sched.py:526`, 664), although
"If a task is locked by the user(in other tab), then the category lock should not be
released" (`sched.py:532`) and the listing of locked tasks "Returns a list of locked tasks
for a given project." (`redis_lock.py:77`).  The last takes three tabs because it claims
the least, that one of both is left; two suffice to lose either.

Observed while modelling, and kept without a run.

Locks and answers:

- a worker that stalls longer than the mutex TTL lets another one in
  (`redis_lock.py:198`); the premise `StallBelowTTL` excludes it;
- `release_lock` leaves the TTL of the hash, which may drop the released field before
  its 5 s are over (`redis_lock.py:238`), although it is kept "so that concurrent
  requests will still see the lock";
- asking again within the release delay returns True for the remains of the old
  lock (`redis_lock.py:183`);
- `has_lock` raises if the field disappears between `hexists` and `hget`
  (`redis_lock.py:222`, an outcome of `HasLockGet`);
- the purge of expired reservations reads and then deletes (`redis_lock.py:279`), like the
  purge of locks;
- a redundancy lowered while an answer is being committed leaves the answered task
  ongoing: the owner's transaction does not see the answer, and `mark_if_complete` does
  not see the redundancy (`repositories/task_repository.py:425`), although the docstring
  says "Update the n_answer of every task from a project and their state." (372);
- a redundancy raised between the second completion test and its UPDATE completes a
  task that lacks answers (`model/completion_event.py:10`);
- a crash between the commit and `mark_if_complete` leaves an answered task ongoing
  (`api/task_run.py:183`); a crash before `update_quiz` leaves an answer ungraded;
- an answer to a golden task exported between the listener's read and the commit
  leaves the mark of the export (`model/event_listeners.py:233`);
- a user who submits twice at the same time is counted twice (`auth/taskrun.py:53`);
- a normal task that is answered while a quiz is in progress is graded wrong, since
  it has no gold answers (`api/task_run.py:284`);
- signing out writes expired index entries back (`sched.py:726`), and
  `release_user_locks_for_project` stops at a task that has been deleted (`sched.py:646`);
- the last request within a rate limit is refused (`ratelimit/__init__.py:68`), and
  `contributions_guard.py:101` calls a method `setEx` that does not exist.

Caches:

- a deletion by pattern deletes the refresh mutex as well (`cache/__init__.py:404`);
- a falsy output counts as if it had not been computed, and the old bytes of the
  second level are returned (`cache/__init__.py:314`);
- a function that raises leaves the mutex to its TTL (`cache/__init__.py:282`);
- `site_stats.py:466` maps `delete_cache_group` lazily and never runs it.

Project settings:

- an entry before the save commits the change before the repository has validated it
  (`view/projects.py:683`);
- the entry of a notification has the same old and new value, since the nested
  document was changed in place (`view/projects.py:2941`); sync toggles do not show in
  the difference for the same reason;
- `import_tasks` passes True as the user name of an entry (`jobs.py:403`);
- publishing reads the project again after its commit, so an unpublishing in between
  skips the reset and is entered wrongly (`view/projects.py:3194`); the differences that
  `update` enters may be another request's;
- ownership transferred while the list of owners is edited leaves an owner who is not
  among the owners: `OwnerAmongOwners` is about turns;
- entries of enrichments and annotations have the attribute 'project'
  (`view/projects.py:4186`, 4240).

Synchronisation:

- an undo is to put the target back "to it's original state"
  (`syncer/__init__.py:120`), but a PUT only fills up the settings
  (`api/project.py:155`): a setting that was absent stays, and the payload has no
  category (`syncer/project_syncer.py:65`);
- an undo deletes the copy even if its PUT was refused, or a copy that another sync has
  just stored (`syncer/project_syncer.py:68`), and a response that is not ok is falsy,
  so the view says "There is nothing to revert." (`view/projects.py:3647`);
- a GET that is refused counts as "there is none" (`syncer/__init__.py:94`): a project
  that exists is created and answered 415, a category that exists is created, and if
  that is refused too the project gets the default one, silently;
- a category found by the second GET only makes `sync` return None, on which the caller
  raises (`syncer/category_syncer.py:37`, `syncer/project_syncer.py:131`);
- a category is created at the target even if the sync turns out not to be enabled;
- `_merge_pass_through_keys` pops the presenter from the session's own project, which
  only the absence of a commit keeps (`syncer/project_syncer.py:106`);
- what an owner edits at the target between the GET and the PUT is overwritten.

## What is abstracted

Answers: one task, one project.  `can_post` is one action although `check_can_post` runs in
two places of the request; the two reads of `is_task_completed` are one; UPDATE and
SELECTs of `create_result` are one step under the row lock.  A user who holds a lock
is handed the task again, which changes nothing.  The branch of the redundancy
update for tasks with file URLs is left out.  Foreign keys take KEY SHARE locks,
which conflict with none of the updates.  The consumer's GET of the answers and its PUT of
`exported` are one step of `Export`: an answer in between would be exported without being
delivered, which `ExportCovers` does not tell.  `Insert` reads `exported` from the row; the
listener has it from the session's own task (`model/event_listeners.py:233`), which may be
older and matters to golden tasks only.  Stamps of the contributions guard,
notifications, feed and statistics are not part of a request.

Quiz: one user and one project.  `user.info` is not empty (with an empty document the
snapshot is not saved), the user is not an owner and the project is published; which
task the scheduler picks leaves the quiz alone, so an answer is right or wrong by
choice; other parts of `user.info` that are written back in the same way
(preferences, bookmarks) are not modelled.

Scheduling: one project, one timeout, one answer per task, an instance that is not
private.  A request reads the reservations and its query at once, in one step for the
user's own and in another for the others'; the reservations to end are scanned
as they are ended, after the locks are read, since `scan_keys` is an iterator
(`redis_lock.py:345`); the purge of expired reservations is one step; users about to leave the hash of
active users count as gone; the fields of a category have one order (the code sorts
them in some places, `sched.py` 352 and 569); the replica of Redis is the master.
Preferences, worker filters and the order of tasks choose among rows.

Cache: the replica is the master; a key may expire at any moment.

Project: one project; form fields that a handler sets together are one; the validations
of `repository.save` are taken to succeed, and what they set in place in `info` besides
the access level (`_verify_annotation_config`) is not told apart; several entries of a difference, and the
reading of an entry's values and its INSERT, are one step.  The keys within `sync`,
webhooks, the category and guidelines, deletion, cloning and `contacted` are left out.
Settings not in `Audited`: progress reminders and `published` are changed by jobs that
make no entry; the owners by a transfer and by `_creator_is_owner`; the entry of assigned
users is not what is stored; annotation settings are changed in place; thumbnails,
passwords, secret keys, transfers, project and external configurations make no
entries.

Synchronisation: the target is not deleted, and the key used may read it; whether it may
change it is a refusal.  A call is atomic at the target, whose requests overlap in
`ProjectDocument`.  Permissions of the page, e-mails to the owners, the reference keys of
GitHub and the annotation settings are left out; "timeout" stands for all other settings.

## Not modelled

Most of the repository is not state shared by actors: views that render pages and validate
forms, SQL queries and their formatting, importers and exporters, e-mail, statistics,
plain CRUD of rows that no other component reads while it is changed, authorisation
rules that are predicates of one object.  The reasons are given by component in
`PROJECT.json`, and the share of lines that the modules cover stays small for that reason.

## Plan

Done: `LockManager` with `Semaphore`; `TaskCompletion` on top of a semaphore, with `Collection`; `Quiz`;
`TwoLevelCache` with `CachedValue`; `Scheduling`; `ProjectDocument` with
`FormDocument`; `ProjectSync`.

Next, in this order:

1. A timed composition of scheduler, lock manager and the stamps of `ContributionsGuard`,
   in which `Timely` is derived from durations, lag and timeouts.
2. Several projects with different timeouts in `Scheduling` (`sched.py` 508), and the loop
   of `release_user_locks_for_project` over deleted tasks.
3. `user.info` as a document that preferences, bookmarks and the quiz share, on the lines of
   `ProjectDocument`.
4. The deletion of accounts and projects by jobs that are queued while requests go on.
5. `RateLimit` (`ratelimit/__init__.py` 51-68), a counter per window, and the sending of
   webhooks again.

Theorems to add: what a golden task's exports miss, and when; `Timely` follows from bounds on
time; a user's locks survive the releases of other projects if all timeouts are the same.
