----------------------------- MODULE LockManager -----------------------------
(***************************************************************************)
(* pybossa/redis_lock.py, class LockManager: one Redis hash of locks       *)
(* (field = client, value = expiration) shared by the web workers.  Every  *)
(* Redis command or MULTI/EXEC pipeline is one atomic step; everything     *)
(* between two commands may be interleaved with the other workers, with    *)
(* the clock, and with a worker's death.                                   *)
(*                                                                         *)
(* Three keys of Redis expire: each field carries its own expiration,      *)
(* which only the code compares with a clock; the hash as a whole and the  *)
(* mutex that serialises the updates carry a TTL that Redis enforces.      *)
(***************************************************************************)
EXTENDS Integers, FiniteSets

CONSTANTS
  Clients,          \* fields of the hash: users of a task, or tasks of a user
  Workers,          \* web workers that run the operations
  NoClient,         \* a worker that runs no call
  NoWorker,         \* the mutex key does not exist
  MaxLimit,         \* largest finite limit a caller passes
  Duration,         \* LockManager._duration
  ReleaseDelay,     \* EXPIRE_LOCK_DELAY
  MutexTTL,         \* timeout of the mutex
  BlockingTimeout,  \* blocking_timeout of the mutex
  MaxStall,         \* longest time a worker stays inside the mutex
  MaxRequest,       \* longest time a call lasts, apart from its wait for the mutex
  MaxTime           \* bound on the clock

ASSUME LockConstants ==
  /\ IsFiniteSet(Clients)
  /\ NoClient \notin Clients /\ NoWorker \notin Workers
  /\ MaxLimit \in Nat \ {0}
  /\ Duration \in Nat \ {0} /\ ReleaseDelay \in Nat /\ MutexTTL \in Nat \ {0}
  /\ BlockingTimeout \in Nat /\ MaxStall \in Nat /\ MaxRequest \in Nat
  /\ MaxTime \in Nat

\* The premise under which the mutex excludes: its owner never outlives it.
StallBelowTTL == MaxStall < MutexTTL

VARIABLES
  unlimited,   \* callers of this resource pass limit = float('inf')
  now,         \* time(), the same for the workers and for Redis
  expiry,      \* the hash: expiration of each client's field, or Absent
  hashTTL,     \* when Redis drops the whole hash, or NoTTL
  mutex,       \* worker whose token is in <resource>_update_mutex
  mutexUntil,  \* when Redis drops the mutex
  pc,          \* next command of each worker
  client,      \* client of each worker's call
  limit,       \* limit of each worker's acquire_lock
  start,       \* timestamp taken at the beginning of each worker's call
  since,       \* when the worker began to wait for the mutex, or got it
  toDelete,    \* fields a worker found expired
  result,      \* what each worker's last call returned
  lease        \* history: expiration last granted to a client, 0 once released

setting == <<unlimited, now>>
redis   == <<expiry, hashTTL, mutex, mutexUntil>>
call    == <<client, limit, start>>
stack   == <<call, since, toDelete>>
vars    == <<setting, redis, pc, stack, result, lease>>

Absent == -1
NoTTL  == -1

Steps == {"idle", "list", "purge", "exists", "wait", "locked", "count",
          "grant", "grantInf", "unlock", "hasExists", "hasGet", "held"}
Critical == {"locked", "count", "grant", "unlock"}
\* The commands whose effect the mutex must protect.
Guarded == {"count", "grant"}

Fields  == {c \in Clients : expiry[c] # Absent}
\* The clients whose field was written by a grant and not by a release.
Holders == {c \in Fields : lease[c] # 0}

\* Every variable has its type; an expiration is never before the epoch, whether
\* acquire_lock or release_lock computed it.
TypeOK ==
  /\ unlimited \in BOOLEAN
  /\ now \in Nat
  /\ expiry \in [Clients -> Nat \cup {Absent}]
  /\ hashTTL \in Nat \cup {NoTTL}
  /\ mutex \in Workers \cup {NoWorker}
  /\ mutexUntil \in Nat
  /\ pc \in [Workers -> Steps]
  /\ client \in [Workers -> Clients \cup {NoClient}]
  /\ limit \in [Workers -> 0..MaxLimit]
  /\ start \in [Workers -> Nat]
  /\ since \in [Workers -> Nat]
  /\ toDelete \in [Workers -> SUBSET Clients]
  /\ result \in [Workers -> {"none", "true", "false", "error"}]
  /\ lease \in [Clients -> Nat]

Init ==
  /\ unlimited \in BOOLEAN
  /\ now = 0
  /\ expiry = [c \in Clients |-> Absent] /\ hashTTL = NoTTL
  /\ mutex = NoWorker /\ mutexUntil = 0
  /\ pc = [w \in Workers |-> "idle"]
  /\ client = [w \in Workers |-> NoClient]
  /\ limit = [w \in Workers |-> 0]
  /\ start = [w \in Workers |-> 0] /\ since = [w \in Workers |-> 0]
  /\ toDelete = [w \in Workers |-> {}]
  /\ result = [w \in Workers |-> "none"]
  /\ lease = [c \in Clients |-> 0]

-----------------------------------------------------------------------------
(* Control of a worker.                                                    *)

Goto(w, step) == pc' = [pc EXCEPT ![w] = step]
Answer(w, r)  == result' = [result EXCEPT ![w] = r]

\* The call ends; its local variables are gone.
Finish(w) ==
  /\ Goto(w, "idle")
  /\ client' = [client EXCEPT ![w] = NoClient]
  /\ limit' = [limit EXCEPT ![w] = 0]
  /\ start' = [start EXCEPT ![w] = 0]
  /\ since' = [since EXCEPT ![w] = 0]
  /\ toDelete' = [toDelete EXCEPT ![w] = {}]

Return(w, r) == Finish(w) /\ Answer(w, r)

\* A call begins early enough for its consequences to fit below MaxTime.
Begin(w, c, step) ==
  /\ pc[w] = "idle"
  /\ now + MaxRequest + BlockingTimeout + MutexTTL <= MaxTime
  /\ Goto(w, step)
  /\ client' = [client EXCEPT ![w] = c]
  /\ start' = [start EXCEPT ![w] = now]
  /\ result' = [result EXCEPT ![w] = "none"]
  /\ UNCHANGED <<setting, redis, since, toDelete, lease>>

(* acquire_lock *)

StartAcquire(w) ==
  \E c \in Clients, l \in 0..MaxLimit :
    /\ unlimited => l = 0
    /\ Begin(w, c, "list")
    /\ limit' = [limit EXCEPT ![w] = l]

\* _release_expired_locks: hgetall, compared with the timestamp of the call ...
ListExpired(w) ==
  /\ pc[w] = "list"
  /\ LET old == {c \in Fields : start[w] > expiry[c]} IN
       /\ toDelete' = [toDelete EXCEPT ![w] = old]
       /\ Goto(w, IF old = {} THEN "exists" ELSE "purge")
  /\ UNCHANGED <<setting, redis, call, since, result, lease>>

\* Mutant of Purge: it deletes nothing.
PurgeNothing(w) ==
  /\ pc[w] = "purge"
  /\ toDelete' = [toDelete EXCEPT ![w] = {}]
  /\ Goto(w, "exists")
  /\ UNCHANGED <<setting, redis, call, since, result, lease>>

\* ... then hdel of what the listing found.
Purge(w) ==
  /\ pc[w] = "purge"
  /\ expiry' = [c \in Clients |-> IF c \in toDelete[w] THEN Absent ELSE expiry[c]]
  /\ hashTTL' = IF \A c \in Clients : expiry'[c] = Absent THEN NoTTL ELSE hashTTL
  /\ toDelete' = [toDelete EXCEPT ![w] = {}]
  /\ Goto(w, "exists")
  /\ UNCHANGED <<setting, mutex, mutexUntil, call, since, result, lease>>

\* hexists: a client that has a field is given the lock as it is.
AlreadyThere(w) ==
  /\ pc[w] = "exists" /\ expiry[client[w]] # Absent
  /\ Return(w, "true")
  /\ UNCHANGED <<setting, redis, lease>>

NotThere(w) ==
  /\ pc[w] = "exists" /\ expiry[client[w]] = Absent
  /\ Goto(w, IF unlimited THEN "grantInf" ELSE "wait")
  /\ since' = [since EXCEPT ![w] = now]
  /\ UNCHANGED <<setting, redis, call, toDelete, result, lease>>

\* Mutant of TakeMutex: a worker that waited long enough goes in regardless.
TakeMutexAnyway(w) ==
  /\ pc[w] = "wait"
  /\ mutex = NoWorker \/ now >= since[w] + BlockingTimeout
  /\ mutex' = w /\ mutexUntil' = now + MutexTTL
  /\ since' = [since EXCEPT ![w] = now]
  /\ Goto(w, "locked")
  /\ UNCHANGED <<setting, expiry, hashTTL, call, toDelete, result, lease>>

TakeMutex(w) ==
  /\ pc[w] = "wait" /\ mutex = NoWorker
  /\ mutex' = w /\ mutexUntil' = now + MutexTTL
  /\ since' = [since EXCEPT ![w] = now]
  /\ Goto(w, "locked")
  /\ UNCHANGED <<setting, expiry, hashTTL, call, toDelete, result, lease>>

\* The mutex raises LockError after blocking_timeout; finally returns False.
GiveUp(w) ==
  /\ pc[w] = "wait" /\ mutex # NoWorker
  /\ now >= since[w] + BlockingTimeout
  /\ Return(w, "false")
  /\ UNCHANGED <<setting, redis, lease>>

\* mutex.locked() asks whether the key exists, whoever owns it.
CheckLocked(w) ==
  /\ pc[w] = "locked"
  /\ IF mutex = NoWorker THEN Return(w, "false")
     ELSE Goto(w, "count") /\ UNCHANGED <<stack, result>>
  /\ UNCHANGED <<setting, redis, lease>>

\* Mutant of BelowLimit: hlen(resource_id) <= limit.
AtMostLimit(w) == Cardinality(Fields) <= limit[w]

\* hlen(resource_id) < limit
BelowLimit(w) == Cardinality(Fields) < limit[w]

Count(w) ==
  /\ pc[w] = "count"
  /\ IF BelowLimit(w) THEN Goto(w, "grant") /\ UNCHANGED result
     ELSE Goto(w, "unlock") /\ Answer(w, "false")
  /\ UNCHANGED <<setting, redis, stack, lease>>

\* Mutant of Store: the TTL of the hash counts from the call's start too.
StoreShortTTL(w) ==
  /\ expiry' = [expiry EXCEPT ![client[w]] = start[w] + Duration]
  /\ lease' = [lease EXCEPT ![client[w]] = start[w] + Duration]
  /\ hashTTL' = start[w] + Duration

\* The pipeline hset + expire; the expiration counts from the call's start.
Store(w) ==
  /\ expiry' = [expiry EXCEPT ![client[w]] = start[w] + Duration]
  /\ lease' = [lease EXCEPT ![client[w]] = start[w] + Duration]
  /\ hashTTL' = now + Duration

Grant(w) ==
  /\ pc[w] = "grant"
  /\ Store(w)
  /\ Goto(w, "unlock") /\ Answer(w, "true")
  /\ UNCHANGED <<setting, mutex, mutexUntil, stack>>

GrantUnlimited(w) ==
  /\ pc[w] = "grantInf"
  /\ Store(w)
  /\ Return(w, "true")
  /\ UNCHANGED <<setting, mutex, mutexUntil>>

\* The context manager deletes the key only if it still holds this token.
Unlock(w) ==
  /\ pc[w] = "unlock"
  /\ mutex' = IF mutex = w THEN NoWorker ELSE mutex
  /\ Finish(w)
  /\ UNCHANGED <<setting, expiry, hashTTL, mutexUntil, result, lease>>

(* has_lock: hexists, then hget, then the comparison with the clock.       *)

StartHasLock(w) == \E c \in Clients : Begin(w, c, "hasExists") /\ UNCHANGED limit

HasLockExists(w) ==
  /\ pc[w] = "hasExists"
  /\ IF expiry[client[w]] = Absent THEN Return(w, "false")
     ELSE Goto(w, "hasGet") /\ UNCHANGED <<stack, result>>
  /\ UNCHANGED <<setting, redis, lease>>

\* float(None) raises when the field has gone since hexists saw it.
HasLockGet(w) ==
  /\ pc[w] = "hasGet"
  /\ IF expiry[client[w]] = Absent THEN Return(w, "error")
     ELSE IF expiry[client[w]] > now
     THEN Goto(w, "held") /\ Answer(w, "true") /\ UNCHANGED stack
     ELSE Return(w, "false")
  /\ UNCHANGED <<setting, redis, lease>>

(* A caller that saw the lock (through has_lock or get_locks) releases it, *)
(* or ends without doing so.                                               *)

SeeLock(w) ==
  \E c \in Fields : Begin(w, c, "held") /\ UNCHANGED limit

\* Mutant of Release: the delay is subtracted.
ReleaseBackdated(w) ==
  /\ pc[w] = "held"
  /\ expiry' = [expiry EXCEPT ![client[w]] = now - ReleaseDelay]
  /\ lease' = [lease EXCEPT ![client[w]] = 0]
  /\ Finish(w)
  /\ UNCHANGED <<setting, hashTTL, mutex, mutexUntil, result>>

Release(w) ==
  /\ pc[w] = "held"
  /\ expiry' = [expiry EXCEPT ![client[w]] = now + ReleaseDelay]
  /\ lease' = [lease EXCEPT ![client[w]] = 0]
  /\ Finish(w)
  /\ UNCHANGED <<setting, hashTTL, mutex, mutexUntil, result>>

KeepLock(w) ==
  /\ pc[w] = "held"
  /\ Finish(w)
  /\ UNCHANGED <<setting, redis, result, lease>>

(* Environment: a worker dies in the middle of a call; time passes, and    *)
(* Redis drops the keys whose TTL is over.                                 *)

Crash(w) ==
  /\ pc[w] # "idle"
  /\ Return(w, "none")
  /\ UNCHANGED <<setting, redis, lease>>

HashDue  == hashTTL # NoTTL /\ now + 1 >= hashTTL
\* Mutant of MutexDue: the mutex is set without a timeout.
MutexForever == FALSE
MutexDue == mutex # NoWorker /\ now + 1 >= mutexUntil

DropKeys ==
  /\ IF HashDue
     THEN expiry' = [c \in Clients |-> Absent] /\ hashTTL' = NoTTL
     ELSE UNCHANGED <<expiry, hashTTL>>
  /\ mutex' = IF MutexDue THEN NoWorker ELSE mutex
  /\ UNCHANGED mutexUntil

\* Time waits for a worker that has used up its delay: a worker that waits for
\* the mutex polls it, any other executes commands.
Prompt(w) ==
  /\ pc[w] = "wait" => now < since[w] + BlockingTimeout
  /\ pc[w] \in Critical => now < since[w] + MaxStall
  /\ pc[w] \notin {"idle", "wait"} => now < start[w] + MaxRequest

Tick ==
  /\ now < MaxTime
  /\ \A w \in Workers : Prompt(w)
  /\ now' = now + 1
  /\ DropKeys
  /\ UNCHANGED <<unlimited, pc, stack, result, lease>>

\* The bound on the clock, not a stop of the system.
Horizon == now = MaxTime /\ (\A w \in Workers : pc[w] = "idle") /\ UNCHANGED vars

Acquire(w) ==
  \/ StartAcquire(w) \/ ListExpired(w) \/ Purge(w)
  \/ AlreadyThere(w) \/ NotThere(w) \/ GrantUnlimited(w)
  \/ TakeMutex(w) \/ GiveUp(w) \/ CheckLocked(w) \/ Count(w) \/ Grant(w) \/ Unlock(w)

Inspect(w) ==
  \/ StartHasLock(w) \/ HasLockExists(w) \/ HasLockGet(w)
  \/ SeeLock(w) \/ Release(w) \/ KeepLock(w)

Next == Tick \/ Horizon \/ \E w \in Workers : Acquire(w) \/ Inspect(w) \/ Crash(w)

Spec == Init /\ [][Next]_vars

-----------------------------------------------------------------------------
(* Properties.                                                             *)

\* At most MaxLimit clients hold a lock granted by acquire_lock at a time
\* (docstring: "how many clients can access the resource concurrently").
LimitRespected == ~unlimited => Cardinality(Holders) <= MaxLimit

\* While one worker is between mutex.locked() and the pipeline that stores the
\* lock, no other worker is: the count it compared with the limit stays valid.
MutexExcludes ==
  \A v, w \in Workers : pc[v] \in Guarded /\ pc[w] \in Guarded => v = w

\* An expired lock never costs a client the resource: acquire_lock refuses for
\* want of room only if as many locks as its limit had not expired when it was
\* called, although listing, deleting and counting are separate commands.
RefusalJustified ==
  [][\A w \in Workers : pc[w] = "count" /\ pc'[w] = "unlock" =>
       limit[w] <= Cardinality({c \in Fields : expiry[c] >= start[w]})]_vars

\* Redis never drops the hash while a lock in it is still to expire, although
\* each grant sets the TTL anew and slow calls store their locks out of order.
HashOutlivesLeases ==
  \A c \in Holders : hashTTL # NoTTL /\ lease[c] <= hashTTL

\* The hash of locks implements a semaphore whose units may be dropped.
AbstractSemaphore == INSTANCE Semaphore WITH
  holders  <- Holders,
  capacity <- IF unlimited THEN Cardinality(Clients) ELSE MaxLimit
ImplementsSemaphore == AbstractSemaphore!Spec

\* A lock lasts for its duration: until its expiration, the field of a client
\* that was granted one and has not released it stays in the hash (docstring:
\* "how long a lock is valid after being acquired if not released").
LeaseKept ==
  \A c \in Clients : lease[c] > now => expiry[c] # Absent

==============================================================================
