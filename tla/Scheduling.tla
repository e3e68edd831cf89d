----------------------------- MODULE Scheduling -----------------------------
(***************************************************************************)
(* pybossa/sched.py for one project of the task_queue scheduler that       *)
(* reserves tasks by category, where every task needs one answer.  An      *)
(* assignment is written in four places, by separate commands of Redis:    *)
(* the hash of a task's users (the lock), the hash of a user's tasks (its  *)
(* index), the reservation keys and the hash of active users.  The model   *)
(* runs the requests that write and undo it, command by command.           *)
(*                                                                         *)
(* Time is what is left of an entry: "held" is more than the 5 s (release, *)
(* cancel) and 10 s (locked_scheduler) the code compares with, "ending" is *)
(* less.  An entry runs down whenever it likes, but the lock and the index *)
(* entry that one request wrote run down together.  acquire_lock is one    *)
(* step: module LockManager is about its parts.                            *)
(***************************************************************************)
EXTENDS Naturals, FiniteSets

CONSTANTS
  Users, Tasks, Categories,
  Sessions,   \* browser tabs: each sends one request at a time
  By,         \* the user of each tab
  MaxRequests,  \* bound on the requests of all tabs
  MaxParted   \* bound on the assignments that failures take apart

ASSUME SchedulingConstants ==
  /\ By \in [Sessions -> Users]
  /\ MaxRequests \in Nat /\ MaxParted \in Nat

VARIABLES
  category,   \* category of each task
  sent,       \* number of requests so far
  done,       \* tasks that have their answer in the database
  lock,       \* lock[u][t]: field u of the hash of t's users
  index,      \* index[u][t]: field t of the hash of u's tasks
  resv,       \* resv[u][t]: u's reservation of t's category through t
  active,     \* users in the hash of active users, for more than 5 s to come
  pc,         \* next command of each session's request
  why,        \* what a request that releases is for
  at,         \* the tasks that the request takes or releases
  rows,       \* rows of the query that were not tried yet, or keys to give up
  seen,       \* the user's locks, as the request read them
  unseen,     \* history: categories reserved by others, as it did not see
  parted,     \* history: <<u, t>> whose four entries were not written together
  missed      \* history: <<u, t, step>>, where u's other tab was about to take
              \* this step on what it had read before t was in his hash

tables  == <<lock, index, resv, active>>
request == <<pc, why, at, rows, seen>>
history == <<unseen, parted, missed>>
vars    == <<category, sent, done, tables, request, history>>

Steps == {"idle", "giveup", "others", "try", "index", "reserve", "register",
          "look", "unregister", "release", "locked", "expire", "commit"}
Reasons == {"cancel", "submit", "signout"}

TypeOK ==
  /\ category \in [Tasks -> Categories]
  /\ done \in SUBSET Tasks /\ sent \in 0..MaxRequests
  /\ lock \in [Users -> [Tasks -> {"none", "ending", "held"}]]
  \* "stale": expired, but not yet deleted from the hash
  /\ index \in [Users -> [Tasks -> {"none", "stale", "ending", "held"}]]
  /\ resv \in [Users -> [Tasks -> {"none", "ending", "set"}]]
  /\ active \in SUBSET Users
  /\ pc \in [Sessions -> Steps]
  /\ why \in [Sessions -> Reasons]
  /\ at \in [Sessions -> SUBSET Tasks]
  /\ rows \in [Sessions -> SUBSET Tasks]
  /\ seen \in [Sessions -> SUBSET Tasks]
  /\ unseen \in [Sessions -> SUBSET Categories]
  /\ parted \in SUBSET (Users \X Tasks)
  /\ missed \in SUBSET (Users \X Tasks \X {"unregister", "expire"})

Init ==
  /\ category \in [Tasks -> Categories]
  /\ sent = 0 /\ done = {} /\ active = {} /\ parted = {} /\ missed = {}
  /\ lock = [u \in Users |-> [t \in Tasks |-> "none"]]
  /\ index = [u \in Users |-> [t \in Tasks |-> "none"]]
  /\ resv = [u \in Users |-> [t \in Tasks |-> "none"]]
  /\ pc = [s \in Sessions |-> "idle"]
  /\ why = [s \in Sessions |-> "cancel"]
  /\ at = [s \in Sessions |-> {}] /\ rows = [s \in Sessions |-> {}]
  /\ seen = [s \in Sessions |-> {}] /\ unseen = [s \in Sessions |-> {}]

Goto(s, step) == pc' = [pc EXCEPT ![s] = step]

Begin(s) ==
  /\ pc[s] = "idle" /\ sent < MaxRequests
  /\ sent' = sent + 1

\* The request is over; its variables are gone.
Finish(s) ==
  /\ Goto(s, "idle")
  /\ why' = [why EXCEPT ![s] = "cancel"]
  /\ at' = [at EXCEPT ![s] = {}]
  /\ rows' = [rows EXCEPT ![s] = {}]
  /\ seen' = [seen EXCEPT ![s] = {}]
  /\ unseen' = [unseen EXCEPT ![s] = {}]

-----------------------------------------------------------------------------
(* GET newtask.                                                            *)

CategoriesOf(tasks) == {category[t] : t \in tasks}

\* The tasks whose category the user has reserved himself.
Own(s) == {t \in Tasks : resv[By[s]][t] # "none"}

\* Mutant: reservations about to end are passed over.
ReservedForLong(s) ==
  {category[t] : t \in {x \in Tasks :
     \E u \in Users \ {By[s]} : resv[u][x] = "set"}}

\* The categories that other users have reserved.
ReservedByOthers(s) ==
  {category[t] : t \in {x \in Tasks :
     \E u \in Users \ {By[s]} : resv[u][x] # "none"}}

\* EXPIRE on the keys of a user's reservations.
Shorten(u, tasks) ==
  resv' = [resv EXCEPT ![u] = [t \in Tasks |->
    IF t \in tasks /\ resv[u][t] # "none" THEN "ending" ELSE resv[u][t]]]

\* A task the user holds comes back at once, unless the page asks for its
\* saved answers in some position.
Searches(s, savedPosition) ==
  /\ Begin(s)
  /\ savedPosition \/ \A t \in Tasks : index[By[s]][t] # "held"

Found(s, tasks) ==
  /\ tasks # {}
  /\ rows' = [rows EXCEPT ![s] = tasks]
  /\ Goto(s, "try")
  /\ UNCHANGED <<why, at, seen>>

\* The tasks in the user's own categories, whoever else has reserved them.
OwnTasks(s) == {t \in Tasks \ done : category[t] \in CategoriesOf(Own(s))}

AskOwn(s, savedPosition) ==
  /\ Searches(s, savedPosition)
  /\ Found(s, OwnTasks(s))
  /\ unseen' = [unseen EXCEPT ![s] = ReservedByOthers(s)]
  /\ UNCHANGED <<category, done, tables, parted, missed>>

\* If there are none, the user gives up the reservations that were read, if any ...
AskInVain(s, savedPosition) ==
  /\ Searches(s, savedPosition)
  /\ OwnTasks(s) = {}
  /\ rows' = [rows EXCEPT ![s] = Own(s)]
  /\ Goto(s, IF Own(s) = {} THEN "others" ELSE "giveup")
  /\ UNCHANGED <<category, done, tables, why, at, seen, history>>

GiveUp(s) ==
  /\ pc[s] = "giveup"
  /\ Shorten(By[s], rows[s])
  /\ rows' = [rows EXCEPT ![s] = {}]
  /\ Goto(s, "others")
  /\ UNCHANGED <<category, sent, done, lock, index, active, why, at, seen,
                 history>>

\* ... and gets a task in a category that nobody else has reserved.
FreeTasks(s) == {t \in Tasks \ done : category[t] \notin ReservedByOthers(s)}

AskOthers(s) ==
  /\ pc[s] = "others"
  /\ \/ Found(s, FreeTasks(s)) /\ UNCHANGED unseen
     \/ FreeTasks(s) = {} /\ Finish(s)
  /\ UNCHANGED <<category, sent, done, tables, parted, missed>>

\* acquire_lock on the task: whoever is in the hash has it, for as long as
\* his entry says; anybody else only if the hash is empty.
Admits(t, u) ==
  \/ lock[u][t] # "none"
  \/ \A v \in Users : lock[v][t] = "none"

LockFor(t, u) ==
  lock' = [lock EXCEPT ![u][t] = IF @ = "none" THEN "held" ELSE @]

TakeLock(s, t) ==
  /\ pc[s] = "try" /\ t \in rows[s]
  /\ Admits(t, By[s])
  /\ LockFor(t, By[s])
  /\ at' = [at EXCEPT ![s] = {t}]
  /\ rows' = [rows EXCEPT ![s] = {}]
  /\ Goto(s, "index")
  /\ UNCHANGED <<category, sent, done, index, resv, active, why, seen,
                 history>>

NextRow(s, t) ==
  /\ pc[s] = "try" /\ t \in rows[s]
  /\ ~Admits(t, By[s])
  /\ \/ /\ rows[s] = {t}
        /\ Finish(s)
     \/ /\ rows[s] # {t}
        /\ rows' = [rows EXCEPT ![s] = @ \ {t}]
        /\ UNCHANGED <<pc, why, at, seen, unseen>>
  /\ UNCHANGED <<category, sent, done, tables, parted, missed>>

\* A task picked from the list of tasks is locked whoever has reserved its
\* category: a reservation is missed as if it were made after the reading.
LockDirectly(s, t) ==
  /\ Begin(s) /\ t \notin done
  /\ Admits(t, By[s])
  /\ LockFor(t, By[s])
  /\ at' = [at EXCEPT ![s] = {t}]
  /\ unseen' = [unseen EXCEPT ![s] = ReservedByOthers(s)]
  /\ Goto(s, "index")
  /\ UNCHANGED <<category, done, index, resv, active, why, rows, seen,
                 parted, missed>>

\* Mutant: an entry that the user's hash still has is renewed.
IndexedAnew(entry, isNew) ==
  IF isNew THEN "held" ELSE IF entry = "stale" THEN "none" ELSE entry

\* acquire_lock on the user's hash, which first loses what has expired.
Indexed(entry, isNew) ==
  IF entry = "ending" \/ entry = "held" THEN entry
  ELSE IF isNew THEN "held" ELSE "none"

\* Mutant: every reservation of the category goes.
ToExpireAll(s) == {t \in Tasks : category[t] \in CategoriesOf(at[s])}

\* The reservations to end: of the released task and, unless an answer was
\* submitted, of those in its category that were not among the user's locks.
ToExpire(s) ==
  IF why[s] = "submit" THEN at[s]
  ELSE {t \in Tasks : /\ category[t] \in CategoriesOf(at[s])
                      /\ t \in at[s] \/ t \notin seen[s]}

\* The user's other tab r is about to take this step on what it has read of his
\* locks, as though it were not for t.
Misses(r, t, step) ==
  \/ step = "unregister" /\ pc[r] = "unregister"
  \/ /\ step = "expire"
     /\ \/ pc[r] = "expire" /\ t \in ToExpire(r)
        \/ pc[r] = "locked" /\ t \in at[r]

IndexLock(s) ==
  /\ pc[s] = "index"
  /\ index' = [index EXCEPT ![By[s]] =
       [t \in Tasks |-> Indexed(index[By[s]][t], t \in at[s])]]
  /\ missed' = {m \in missed : m[1] # By[s] \/ m[2] \notin at[s]}
       \cup {m \in {By[s]} \X at[s] \X {"unregister", "expire"} :
              \E r \in Sessions : By[r] = By[s] /\ Misses(r, m[2], m[3])}
  /\ Goto(s, "reserve")
  /\ UNCHANGED <<category, sent, done, lock, resv, active, why, at, rows, seen,
                 unseen, parted>>

\* SET of the reservation key, whoever has reserved the category.
Reserve(s) ==
  /\ pc[s] = "reserve"
  /\ resv' = [resv EXCEPT ![By[s]] =
       [t \in Tasks |-> IF t \in at[s] THEN "set" ELSE resv[By[s]][t]]]
  /\ unseen' = [r \in Sessions |->
       IF r = s THEN {}
       ELSE IF By[r] # By[s] /\ pc[r] \in {"try", "index", "reserve"}
         THEN unseen[r] \cup CategoriesOf(at[s]) ELSE unseen[r]]
  /\ Goto(s, "register")
  /\ UNCHANGED <<category, sent, done, lock, index, active, why, at, rows, seen,
                 parted, missed>>

Register(s) ==
  /\ pc[s] = "register"
  /\ active' = active \cup {By[s]}
  /\ Finish(s)
  /\ UNCHANGED <<category, sent, done, lock, index, resv, parted, missed>>

-----------------------------------------------------------------------------
(* Cancelling, submitting, giving up the categories, signing out.          *)

\* The four entries of these assignments come apart.
Part(pairs) ==
  /\ parted' = parted \cup pairs
  /\ Cardinality(parted') <= MaxParted

BeginRelease(s, tasks, reason, step) ==
  /\ Begin(s)
  /\ at' = [at EXCEPT ![s] = tasks]
  /\ why' = [why EXCEPT ![s] = reason]
  /\ Goto(s, step)
  /\ UNCHANGED <<category, done, tables, rows, seen, unseen, missed>>

Cancel(s, t) ==
  /\ lock[By[s]][t] # "none"
  /\ BeginRelease(s, {t}, "cancel", "look")
  /\ UNCHANGED parted

\* can_post and the count of the answers.
Submit(s, t) ==
  /\ lock[By[s]][t] # "none" /\ t \notin done
  /\ BeginRelease(s, {t}, "submit", "look")
  /\ UNCHANGED parted

\* POST release_category_locks keeps the lock and drops the reservation.
ReleaseCategory(s, t) ==
  /\ BeginRelease(s, {t}, "cancel", "locked")
  /\ Part({<<By[s], t>>})

\* The user's hash is read again for every task in it, before the pipeline has
\* run: with two tasks, neither is ever the last.
Signout(s) ==
  LET all == {t \in Tasks : index[By[s]][t] # "none"} IN
  /\ all # {}
  /\ BeginRelease(s, all, "signout",
       IF Cardinality(all) = 1 THEN "look" ELSE "release")
  /\ UNCHANGED parted

\* Mutant: the user's other tasks are not looked at.
RemainingNone(s) == {}

\* release_lock: has the user another task of the project?
Remaining(s) == {t \in Tasks \ at[s] : index[By[s]][t] # "none"}

LookForOthers(s) ==
  /\ pc[s] = "look"
  /\ Goto(s, IF Remaining(s) = {} THEN "unregister" ELSE "release")
  /\ UNCHANGED <<category, sent, done, tables, why, at, rows, seen, history>>

Unregister(s) ==
  /\ pc[s] = "unregister"
  /\ active' = active \ {By[s]}
  /\ Goto(s, "release")
  /\ UNCHANGED <<category, sent, done, lock, index, resv, why, at, rows, seen,
                 history>>

\* The pipeline sets both entries to 5 s, whether they are there or not.
AfterRelease(s) ==
  \/ /\ why[s] # "signout"
     /\ Goto(s, IF why[s] = "cancel" THEN "locked" ELSE "expire")
     /\ UNCHANGED <<why, at, rows, seen, unseen>>
  \/ /\ why[s] = "signout"
     /\ Finish(s)

ReleaseLock(s) ==
  /\ pc[s] = "release"
  /\ lock' = [lock EXCEPT ![By[s]] =
       [t \in Tasks |-> IF t \in at[s] THEN "ending" ELSE lock[By[s]][t]]]
  /\ index' = [index EXCEPT ![By[s]] =
       [t \in Tasks |-> IF t \in at[s] THEN "ending" ELSE index[By[s]][t]]]
  /\ parted' = parted \ ({By[s]} \X at[s])
  /\ AfterRelease(s)
  /\ UNCHANGED <<category, sent, done, resv, active, missed>>

\* The tasks that the user has locked, so as to keep their reservations ...
ReadLocked(s) ==
  /\ pc[s] = "locked"
  /\ seen' = [seen EXCEPT ![s] = {t \in Tasks : index[By[s]][t] = "held"}]
  /\ Goto(s, "expire")
  /\ UNCHANGED <<category, sent, done, tables, why, at, rows, history>>

\* ... and the keys, which are scanned only now.
ExpireReservations(s) ==
  /\ pc[s] = "expire"
  /\ Shorten(By[s], ToExpire(s))
  /\ \/ /\ why[s] = "submit"
        /\ Goto(s, "commit")
        /\ UNCHANGED <<why, at, rows, seen, unseen>>
     \/ /\ why[s] # "submit"
        /\ Finish(s)
  /\ UNCHANGED <<category, sent, done, lock, index, active, parted, missed>>

Commit(s) ==
  /\ pc[s] = "commit"
  /\ done' = done \cup at[s]
  /\ Finish(s)
  /\ UNCHANGED <<category, sent, tables, parted, missed>>

-----------------------------------------------------------------------------
(* Time and failures.                                                      *)

\* A request is writing or undoing this assignment.
Busy(u, t) == \E s \in Sessions : By[s] = u /\ t \in at[s]

\* The assignment is being written, and has got as far as these steps.
During(u, t, steps) ==
  \E s \in Sessions : By[s] = u /\ t \in at[s] /\ pc[s] \in steps

\* Which of the two entries time passes for.
Clocks == {{"lock"}, {"index"}, {"lock", "index"}}
Together(u, t, which) ==
  /\ which = {"lock", "index"} \/ <<u, t>> \in parted
  /\ Part({x \in {<<u, t>>} : During(u, t, {"index"})})

\* Less than 10 s are left.
RunDown(u, t, which) ==
  /\ \/ "lock" \in which /\ lock[u][t] = "held"
     \/ "index" \in which /\ index[u][t] = "held"
  /\ Together(u, t, which)
  /\ lock' = [lock EXCEPT ![u][t] =
       IF "lock" \in which /\ @ = "held" THEN "ending" ELSE @]
  /\ index' = [index EXCEPT ![u][t] =
       IF "index" \in which /\ @ = "held" THEN "ending" ELSE @]
  /\ UNCHANGED <<category, sent, done, resv, active, request, unseen,
                 missed>>

\* Mutant: the expired lock is left in the hash of the task.
RunOutToStale(u, t, which) ==
  /\ lock[u][t] = "ending"
  /\ Together(u, t, which)
  /\ lock' = [lock EXCEPT ![u][t] = "stale"]
  /\ UNCHANGED <<category, sent, done, index, resv, active, request, unseen,
                 missed>>

\* The entry has expired.  The lock is deleted before it is next looked at;
\* the index entry stays in the hash.
RunOut(u, t, which) ==
  /\ \/ "lock" \in which /\ lock[u][t] = "ending"
     \/ "index" \in which /\ index[u][t] = "ending"
  /\ Together(u, t, which)
  /\ lock' = [lock EXCEPT ![u][t] =
       IF "lock" \in which /\ @ = "ending" THEN "none" ELSE @]
  /\ index' = [index EXCEPT ![u][t] =
       IF "index" \in which /\ @ = "ending" THEN "stale" ELSE @]
  /\ UNCHANGED <<category, sent, done, resv, active, request, unseen,
                 missed>>

\* The hash of a user's tasks outlives the last of its entries.
DropIndex(u) ==
  /\ \E t \in Tasks : index[u][t] = "stale"
  /\ \A t \in Tasks : index[u][t] \in {"none", "stale"}
  /\ index' = [index EXCEPT ![u] = [t \in Tasks |-> "none"]]
  /\ UNCHANGED <<category, sent, done, lock, resv, active, request, history>>

\* Written after the lock and for at least as long, a reservation and a
\* registration outlive it.
Outlived(u, t, steps) ==
  lock[u][t] # "held" \/ <<u, t>> \in parted \/ During(u, t, steps)

ReservationEnds(u, t) ==
  /\ \/ resv[u][t] = "ending"
     \/ resv[u][t] = "set" /\ Outlived(u, t, {"index", "reserve"})
  /\ resv' = [resv EXCEPT ![u][t] = "none"]
  /\ UNCHANGED <<category, sent, done, lock, index, active, request, history>>

ActiveEnds(u) ==
  /\ u \in active
  /\ \A t \in Tasks : Outlived(u, t, {"index", "reserve", "register"})
  /\ active' = active \ {u}
  /\ UNCHANGED <<category, sent, done, lock, index, resv, request, history>>

\* The worker that serves the request dies, perhaps with a part of the entries
\* written.
Die(s) ==
  /\ pc[s] # "idle"
  /\ Part({x \in {By[s]} \X at[s] :
            pc[s] \in {"index", "reserve", "register", "release"}})
  /\ Finish(s)
  /\ UNCHANGED <<category, sent, done, tables, missed>>

Serve(s) ==
  \/ \E savedPosition \in BOOLEAN :
       AskOwn(s, savedPosition) \/ AskInVain(s, savedPosition)
  \/ GiveUp(s) \/ AskOthers(s)
  \/ IndexLock(s) \/ Reserve(s) \/ Register(s)
  \/ LookForOthers(s) \/ Unregister(s) \/ ReleaseLock(s)
  \/ ReadLocked(s) \/ ExpireReservations(s) \/ Commit(s)
  \/ Signout(s) \/ Die(s)
  \/ \E t \in Tasks :
       \/ TakeLock(s, t) \/ NextRow(s, t) \/ LockDirectly(s, t)
       \/ Cancel(s, t) \/ Submit(s, t) \/ ReleaseCategory(s, t)

TimePasses ==
  \E u \in Users :
    \/ DropIndex(u) \/ ActiveEnds(u)
    \/ \E t \in Tasks :
         \/ ReservationEnds(u, t)
         \/ \E which \in Clocks : RunDown(u, t, which) \/ RunOut(u, t, which)

Next == TimePasses \/ \E s \in Sessions : Serve(s)

Spec == Init /\ [][Next]_vars

-----------------------------------------------------------------------------
(* Properties.                                                             *)

\* No request is at work on the assignment, and none died over it, ran out of
\* time between the lock and its index entry, or gave up the category alone.
Whole(u, t) == <<u, t>> \notin parted /\ ~Busy(u, t)

\* The task that new_task finds in the user's hash and presents again
\* (sched.py:169-175) is one that can_post lets him answer (sched.py:110-122),
\* and a task he could answer for long is found: however requests of all
\* users, releases and expirations follow each other.
TablesAgree ==
  \A u \in Users, t \in Tasks :
    Whole(u, t) => (index[u][t] = "held" <=> lock[u][t] = "held")

\* "If a task is locked by the user(in other tab), then the category lock
\* should not be released" (sched.py:532): cancelling or submitting another
\* task, or finding one's categories exhausted, leaves it reserved while it has
\* no answer, unless the other tab had read the user's locks before and was
\* about to end the reservations of those it did not find.
KeptUnlessMissed ==
  \A u \in Users, t \in Tasks \ done :
    Whole(u, t) /\ lock[u][t] = "held" /\ <<u, t, "expire">> \notin missed
      => resv[u][t] = "set"

\* get_locked_tasks_project looks for locks only at the active users
\* (redis_lock.py:76-129): nobody leaves that list while he has a task, unless
\* the other tab had looked for his tasks before and found none.
ListedUnlessMissed ==
  \A u \in Users, t \in Tasks :
    Whole(u, t) /\ lock[u][t] = "held" /\ <<u, t, "unregister">> \notin missed
      => u \in active

\* What the comment (sched.py:532) and "Returns a list of locked tasks for a given
\* project" (redis_lock.py:77) say of a task locked in any tab, at the least one of
\* them: it is reserved, or listed.  Two requests that had read the user's locks
\* before take both from a task that nobody gave back.
HeldIsKnown ==
  \A u \in Users, t \in Tasks \ done :
    Whole(u, t) /\ lock[u][t] = "held" => resv[u][t] = "set" \/ u \in active

Reserved(u, c) == \E t \in Tasks : category[t] = c /\ resv[u][t] # "none"

Shared(c) == \E u, v \in Users : u # v /\ Reserved(u, c) /\ Reserved(v, c)

\* locked_scheduler leaves out the categories of other users (sched.py:183-196):
\* a category comes to be reserved by two of them only through a request that
\* could not see the other's reservation, made since it read them, or shared
\* already when it read its own, or passed over for a task picked directly.
SharedUnseen ==
  [][\A c \in Categories :
       Shared(c)' /\ ~Shared(c) =>
         \E s \in Sessions :
           Reserve(s) /\ c \in CategoriesOf(at[s]) \cap unseen[s]]_vars

\* Every task is locked by one user at a time, for as long as his lock lasts: its lock is
\* a semaphore of one unit, however the other three entries come and go.
TaskLock(t) == INSTANCE Semaphore WITH
  Clients  <- Users,
  holders  <- {u \in Users : lock[u][t] = "held"},
  capacity <- 1
=============================================================================
