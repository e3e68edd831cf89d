---------------------------- MODULE TwoLevelCache ----------------------------
(***************************************************************************)
(* pybossa/cache/__init__.py: one cached value of a function decorated     *)
(* with memoize (one key) or memoize_with_l2_cache (two keys and a mutex), *)
(* the cache group that remembers its keys, and the three ways in which a  *)
(* writer invalidates it.  Every command of Redis is one atomic step.      *)
(*                                                                         *)
(* A value is the version of the database it was computed from.  The       *)
(* timers (the mutex's TTL, the polling loop) are relative: Tick moves     *)
(* them together, so that the model needs no bound on time.  A cached key  *)
(* expires at any moment.  The replica that the reads go to is taken to be *)
(* the master.                                                             *)
(***************************************************************************)
EXTENDS Integers

CONSTANTS
  Callers,     \* requests and jobs that call the function
  NoCaller,    \* the mutex key does not exist
  MutexTTL,    \* timeout_mutex_lock, and the length of the polling loop
  Falsy,       \* the versions whose value is 0, None or an empty collection
  MaxVersion   \* bound on the writes

ASSUME CacheConstants ==
  /\ NoCaller \notin Callers
  /\ MutexTTL \in Nat \ {0}
  /\ MaxVersion \in Nat /\ Falsy \subseteq Nat

VARIABLES
  fn,         \* how the function is decorated, and what invalidates it
  steady,     \* nothing fails, dies, outlives the mutex or removes the value
  db,         \* version of the data in the database
  l1, l2,     \* what the two keys hold, or None
  group,      \* members of the cache group
  mutex,      \* whose token is in <key>:mutex_lock
  mutexLeft,  \* time to live of the mutex
  pc,         \* next command of each caller
  seen,       \* bytes each caller read from the second level, or None
  out,        \* what each caller computed, then what its call returned
  guarded,    \* the caller runs update_cache_sync: it took the mutex
  waited,     \* time each caller spent in the polling loop
  writer,     \* next command of the process that writes and invalidates
  doomed,     \* keys that the writer found and is about to delete
  need,       \* history: the version each call in progress may rely on
  floor,      \* history: the version that a call that begins now may rely on
  clean,      \* history: no older refresh was in flight at the invalidation
  unprotected,  \* history: an update ran without the mutex, or lost it
  torn          \* history: a key was stored and left out of the group

setting == <<fn, steady>>
keys    == <<l1, l2, group>>
lock    == <<mutex, mutexLeft>>
call    == <<seen, out, guarded, waited>>
wstate  == <<writer, doomed, clean>>
history == <<floor, unprotected, torn>>
vars    == <<setting, db, keys, lock, pc, call, wstate, need, history>>

None == -1

\* "memoize": one key, in a group; "grouped": two keys, in a group, like
\* last_activity; "scanned": two keys in no group, like get_from_pro_user.
Functions == {"memoize", "grouped", "scanned"}
plain == fn = "memoize"

Steps == {"idle", "l2", "lock", "compute", "store1", "store2",
          "sadd1", "sadd2", "release", "poll", "done"}

TypeOK ==
  /\ fn \in Functions /\ steady \in BOOLEAN
  /\ db \in Nat /\ floor \in Nat
  /\ l1 \in Nat \cup {None} /\ l2 \in Nat \cup {None}
  /\ group \in SUBSET {"l1", "l2"} /\ doomed \in SUBSET {"l1", "l2", "mutex"}
  /\ mutex \in Callers \cup {NoCaller} /\ mutexLeft \in 0..MutexTTL
  /\ pc \in [Callers -> Steps]
  /\ seen \in [Callers -> Nat \cup {None}]
  /\ out \in [Callers -> Nat \cup {None}]
  /\ guarded \in [Callers -> BOOLEAN]
  /\ waited \in [Callers -> 0..MutexTTL]
  /\ need \in [Callers -> Nat]
  /\ writer \in {"idle", "written", "half", "members", "scanned"}
  /\ {clean, unprotected, torn} \subseteq BOOLEAN

Init ==
  /\ fn \in Functions /\ steady \in BOOLEAN
  /\ db = 0 /\ floor = 0 /\ l1 = None /\ l2 = None
  /\ group = {} /\ doomed = {}
  /\ mutex = NoCaller /\ mutexLeft = 0
  /\ pc = [c \in Callers |-> "idle"]
  /\ seen = [c \in Callers |-> None] /\ out = [c \in Callers |-> None]
  /\ guarded = [c \in Callers |-> FALSE] /\ waited = [c \in Callers |-> 0]
  /\ need = [c \in Callers |-> 0]
  /\ writer = "idle" /\ clean = FALSE /\ unprotected = FALSE /\ torn = FALSE

-----------------------------------------------------------------------------
(* A call.                                                                 *)

Goto(c, step) == pc' = [pc EXCEPT ![c] = step]

\* The call ends; its variables are gone.
Finish(c, step, v) ==
  /\ Goto(c, step)
  /\ out' = [out EXCEPT ![c] = v]
  /\ seen' = [seen EXCEPT ![c] = None]
  /\ guarded' = [guarded EXCEPT ![c] = FALSE]
  /\ waited' = [waited EXCEPT ![c] = 0]

Return(c, v) == Finish(c, "done", v) /\ UNCHANGED need
Raise(c) == Finish(c, "idle", None) /\ need' = [need EXCEPT ![c] = 0]

\* The call begins; it relies on every invalidation that has taken effect.
Begin(c, step) ==
  /\ pc[c] = "idle"
  /\ Goto(c, step)
  /\ need' = [need EXCEPT ![c] = floor]
  /\ UNCHANGED <<setting, db, keys, lock, seen, guarded, waited, wstate, history>>

HitL1(c) ==
  /\ l1 # None
  /\ Begin(c, "done")
  /\ out' = [out EXCEPT ![c] = l1]

MissL1(c) == l1 = None /\ Begin(c, IF plain THEN "compute" ELSE "l2") /\ UNCHANGED out

\* memoize_essentials with force_refresh does not read the cache.
ForceRefresh(c) == plain /\ l1 # None /\ Begin(c, "compute") /\ UNCHANGED out

ReadL2(c) ==
  /\ pc[c] = "l2"
  /\ seen' = [seen EXCEPT ![c] = l2]
  /\ Goto(c, "lock")
  /\ UNCHANGED <<setting, db, keys, lock, out, guarded, waited, wstate, need, history>>

\* Mutant of MutexFree: SET without NX.
MutexAlwaysFree == TRUE
MutexFree == mutex = NoCaller

\* mutex_lock.acquire(blocking=False)
TakeMutex(c) ==
  /\ pc[c] = "lock" /\ MutexFree
  /\ mutex' = c /\ mutexLeft' = MutexTTL
  /\ guarded' = [guarded EXCEPT ![c] = TRUE]
  /\ Goto(c, "compute")
  /\ UNCHANGED <<setting, db, keys, seen, out, waited, wstate, need, history>>

\* Another request is updating: the data of the second level will do ...
ServeL2(c) ==
  /\ pc[c] = "lock" /\ ~MutexFree /\ seen[c] # None
  /\ Return(c, seen[c])
  /\ UNCHANGED <<setting, db, keys, lock, wstate, history>>

\* ... and if there is none, it is polled for.
StartPolling(c) ==
  /\ pc[c] = "lock" /\ ~MutexFree /\ seen[c] = None
  /\ Goto(c, "poll")
  /\ UNCHANGED <<setting, db, keys, lock, call, wstate, need, history>>

PollHit(c) ==
  /\ pc[c] = "poll" /\ l2 # None /\ waited[c] < MutexTTL
  /\ Return(c, l2)
  /\ UNCHANGED <<setting, db, keys, lock, wstate, history>>

\* Mutant of LoopOver: while True.
LoopForever(c) == FALSE
LoopOver(c) == waited[c] = MutexTTL

\* The loop is over: update_cache without the mutex.
WaitedOut(c) ==
  /\ pc[c] = "poll" /\ LoopOver(c)
  /\ Goto(c, "compute")
  /\ unprotected' = TRUE
  /\ UNCHANGED <<setting, db, keys, lock, call, wstate, need, floor, torn>>

\* The caller has the value of a call that returned.
Done(c) ==
  /\ pc[c] = "done"
  /\ Raise(c)
  /\ UNCHANGED <<setting, db, keys, lock, wstate, history>>

(* update_cache                                                            *)

\* What the caller read from the second level matters again only if the output
\* is falsy.
Compute(c) ==
  /\ pc[c] = "compute"
  /\ out' = [out EXCEPT ![c] = db]
  /\ seen' = [seen EXCEPT ![c] = IF db \in Falsy THEN @ ELSE None]
  /\ Goto(c, "store1")
  /\ UNCHANGED <<setting, db, keys, lock, guarded, waited, wstate, need, history>>

\* Nothing releases the mutex when f raises: it lasts until it expires.
ComputeFails(c) ==
  /\ pc[c] = "compute" /\ ~steady
  /\ Raise(c)
  /\ UNCHANGED <<setting, db, keys, lock, wstate, history>>

StoreL1(c) ==
  /\ pc[c] = "store1"
  /\ l1' = out[c]
  /\ Goto(c, IF plain THEN "sadd1" ELSE "store2")
  /\ UNCHANGED <<setting, db, l2, group, lock, call, wstate, need, history>>

\* Mutant of ValueForL2: the second setex is missing.
NothingForL2(c) == l2
ValueForL2(c) == out[c]

StoreL2(c) ==
  /\ pc[c] = "store2"
  /\ l2' = ValueForL2(c)
  /\ Goto(c, IF fn = "grouped" THEN "sadd1" ELSE "release")
  /\ UNCHANGED <<setting, db, l1, group, lock, call, wstate, need, history>>

\* add_key_to_cache_groups; a member that joins while delete_cache_group is
\* between its two commands is lost with the group.
Join(key) ==
  /\ group' = group \cup {key}
  /\ torn' = (torn \/ (writer = "members" /\ key \notin doomed))
  /\ UNCHANGED <<l1, l2, floor, unprotected>>

JoinL1(c) ==
  /\ pc[c] = "sadd1"
  /\ Join("l1")
  /\ Goto(c, IF plain THEN "release" ELSE "sadd2")
  /\ UNCHANGED <<setting, db, lock, call, wstate, need>>

\* Mutant of SecondMember: the key of the first level is registered twice.
FirstMemberTwice == "l1"
SecondMember == "l2"

JoinL2(c) ==
  /\ pc[c] = "sadd2"
  /\ Join(SecondMember)
  /\ Goto(c, "release")
  /\ UNCHANGED <<setting, db, lock, call, wstate, need>>

\* Without the mutex, update_cache returns what it computed.
ReturnComputed(c) ==
  /\ pc[c] = "release" /\ ~guarded[c]
  /\ Return(c, out[c])
  /\ UNCHANGED <<setting, db, keys, lock, wstate, history>>

\* release() raises LockError, which is only logged, if the token is not ours.
\* A falsy output counts as if another request were updating: the caller falls
\* back to what it read from the second level before, or polls it.
Release(c) ==
  /\ pc[c] = "release" /\ guarded[c]
  /\ mutex' = IF mutex = c THEN NoCaller ELSE mutex
  /\ mutexLeft' = IF mutex = c THEN 0 ELSE mutexLeft
  /\ IF out[c] \in Falsy /\ seen[c] = None
     THEN /\ Goto(c, "poll")
          /\ guarded' = [guarded EXCEPT ![c] = FALSE]
          /\ out' = [out EXCEPT ![c] = None]
          /\ UNCHANGED <<seen, waited, need>>
     ELSE Return(c, IF out[c] \in Falsy THEN seen[c] ELSE out[c])
  /\ UNCHANGED <<setting, db, keys, wstate, history>>

-----------------------------------------------------------------------------
(* The writer: it commits a change and invalidates the value, or leaves it *)
(* to expire.                                                              *)

\* No caller is about to store a value older than the database's.
NoOldStore == \A c \in Callers : pc[c] \in {"store1", "store2"} => out[c] = db
\* ... nor to register a key that holds one.
NoOldRefresh ==
  \A c \in Callers : pc[c] \in {"store1", "store2", "sadd1", "sadd2"} => out[c] = db

Write ==
  /\ writer = "idle" /\ ~steady /\ writer' = "written"
  /\ db' = db + 1 /\ db < MaxVersion
  /\ UNCHANGED <<setting, keys, lock, pc, call, doomed, clean, need, history>>

Leave ==
  /\ writer = "written" /\ writer' = "idle"
  /\ UNCHANGED <<setting, db, keys, lock, pc, call, doomed, clean, need, history>>

\* The invalidation is complete.
Invalidated(ok) ==
  /\ writer' = "idle" /\ doomed' = {} /\ clean' = FALSE
  /\ floor' = IF ok THEN db ELSE floor

\* delete_memoized: the key of memoize.
DeleteKey ==
  /\ writer = "written" /\ plain
  /\ l1' = None
  /\ Invalidated(NoOldStore)
  /\ UNCHANGED <<setting, db, l2, group, lock, pc, call, need, unprotected, torn>>

\* delete_memoize_with_l2_cache: one key, then the other.
DeleteL1 ==
  /\ writer = "written" /\ fn = "grouped"
  /\ l1' = None
  /\ writer' = "half" /\ clean' = NoOldStore
  /\ UNCHANGED <<setting, db, l2, group, lock, pc, call, doomed, need, history>>

\* Mutant of SecondKeyGone: delete_memoized, which knows one key only.
SecondKeyLeft == l2
SecondKeyGone == None

DeleteL2 ==
  /\ writer = "half"
  /\ l2' = SecondKeyGone
  /\ Invalidated(clean)
  /\ UNCHANGED <<setting, db, l1, group, lock, pc, call, need, unprotected, torn>>

\* delete_cache_group: smembers, then delete of the members and of the group.
ReadMembers ==
  /\ writer = "written" /\ fn # "scanned"
  /\ doomed' = group
  /\ writer' = "members" /\ clean' = (NoOldRefresh /\ ~torn)
  /\ UNCHANGED <<setting, db, keys, lock, pc, call, need, history>>

DeleteDoomed ==
  /\ l1' = IF "l1" \in doomed THEN None ELSE l1
  /\ l2' = IF "l2" \in doomed THEN None ELSE l2

DeleteMembers ==
  /\ writer = "members"
  /\ DeleteDoomed /\ group' = {}
  /\ Invalidated(clean)
  /\ UNCHANGED <<setting, db, lock, pc, call, need, unprotected, torn>>

\* Without arguments, delete_memoized and delete_memoize_with_l2_cache scan for
\* the function's keys, which all begin with its name, the mutex included.
Scan ==
  /\ writer = "written" /\ fn # "grouped"
  /\ doomed' = {k \in {"l1", "l2", "mutex"} :
                  \/ k = "l1" /\ l1 # None
                  \/ k = "l2" /\ l2 # None
                  \/ k = "mutex" /\ mutex # NoCaller}
  /\ writer' = "scanned" /\ clean' = NoOldStore
  /\ UNCHANGED <<setting, db, keys, lock, pc, call, need, history>>

DeleteScanned ==
  /\ writer = "scanned"
  /\ DeleteDoomed /\ UNCHANGED group
  /\ IF "mutex" \in doomed THEN mutex' = NoCaller /\ mutexLeft' = 0 ELSE UNCHANGED lock
  /\ Invalidated(clean)
  /\ unprotected' = (unprotected \/ ("mutex" \in doomed /\ mutex # NoCaller))
  /\ UNCHANGED <<setting, db, pc, call, need, torn>>

-----------------------------------------------------------------------------
(* Environment.                                                            *)

ExpireL1 ==
  /\ l1 # None /\ l1' = None
  /\ UNCHANGED <<setting, db, l2, group, lock, pc, call, wstate, need, history>>

ExpireL2 ==
  /\ l2 # None /\ l2' = None /\ ~steady
  /\ UNCHANGED <<setting, db, l1, group, lock, pc, call, wstate, need, history>>

Crash(c) ==
  /\ pc[c] \notin {"idle", "done"} /\ ~steady
  /\ Raise(c)
  /\ torn' = (torn \/ pc[c] \in {"store2", "sadd1", "sadd2"})
  /\ UNCHANGED <<setting, db, keys, lock, wstate, floor, unprotected>>

\* Mutant of InLoop: the loop does not look at its timer.
Looping(c) == pc[c] = "poll"
InLoop(c) == pc[c] = "poll" /\ waited[c] < MutexTTL
MutexDue  == mutex # NoCaller /\ mutexLeft = 1
\* The mutex expires although its owner has not released it.
Overrun   == MutexDue /\ \E c \in Callers : c = mutex /\ guarded[c]

\* A caller in its loop reads the second level ten times in a second: time does
\* not pass while it would find it there.
Tick ==
  /\ mutex # NoCaller \/ \E c \in Callers : InLoop(c)
  /\ ~(steady /\ Overrun)
  /\ \A c \in Callers : InLoop(c) => l2 = None
  /\ waited' = [c \in Callers |-> IF InLoop(c) THEN waited[c] + 1 ELSE waited[c]]
  /\ mutexLeft' = IF mutex = NoCaller THEN mutexLeft ELSE mutexLeft - 1
  /\ mutex' = IF MutexDue THEN NoCaller ELSE mutex
  /\ unprotected' = (unprotected \/ Overrun)
  /\ UNCHANGED <<setting, db, keys, pc, seen, out, guarded, wstate, need, floor, torn>>

Step(c) ==
  \/ ReadL2(c) \/ TakeMutex(c) \/ ServeL2(c) \/ StartPolling(c)
  \/ PollHit(c) \/ WaitedOut(c) \/ Done(c) \/ Compute(c) \/ ComputeFails(c)
  \/ StoreL1(c) \/ StoreL2(c) \/ JoinL1(c) \/ JoinL2(c) \/ ReturnComputed(c) \/ Release(c)

Invalidation ==
  \/ Write \/ Leave \/ DeleteKey \/ DeleteL1 \/ DeleteL2
  \/ ReadMembers \/ DeleteMembers \/ Scan \/ DeleteScanned

Next ==
  \/ Invalidation \/ ExpireL1 \/ ExpireL2 \/ Tick
  \/ \E c \in Callers : HitL1(c) \/ MissL1(c) \/ ForceRefresh(c) \/ Step(c) \/ Crash(c)

\* A request runs to its end, and time passes for those who wait, however often it
\* stands still in between; nobody has to call, write or expire.
Fairness == SF_waited(Tick) /\ \A c \in Callers : WF_pc(Step(c))

Spec == Init /\ [][Next]_vars /\ Fairness

-----------------------------------------------------------------------------
(* Properties.                                                             *)

\* As long as the mutex protects the updates (it does not expire under its
\* owner, no scan deletes it, nobody waits it out), the second level never holds
\* a newer value than the first, whatever is deleted, expires or dies between
\* the two setex: a caller that falls back to it never overtakes one that did not.
OrderKept ==
  ~unprotected /\ l1 # None /\ l2 # None => l2 <= l1

\* Waiting pays: a caller goes to the database without the mutex only if some
\* refresh died, failed or outlived the mutex, or its outcome was deleted.
WaitersServed == steady => ~unprotected

\* A key that is cached can be found by delete_cache_group: it is a member of
\* the group, or the caller that stored it is about to register it.
GroupCovers ==
  fn # "scanned" /\ ~torn =>
    /\ l1 # None => "l1" \in group \/ \E c \in Callers : pc[c] \in {"store2", "sadd1"}
    /\ l2 # None => "l2" \in group \/ \E c \in Callers : pc[c] \in {"sadd1", "sadd2"}

\* A call that begins after an invalidation is never given an older value, if no
\* older refresh was in flight when the invalidation looked.
Value == INSTANCE CachedValue WITH
  version <- db,
  result  <- [c \in Callers |-> IF pc[c] = "done" THEN out[c] ELSE None]
ImplementsCachedValue == Value!Spec

\* Every call returns, although a refresh that fails or dies keeps its mutex.
EveryCallReturns == \A c \in Callers : pc[c] # "idle" ~> pc[c] = "idle"

==============================================================================
