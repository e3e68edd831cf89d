------------------------- MODULE LockManager_proofs -------------------------
(***************************************************************************)
(* Theorems about LockManager for every number of clients and workers,     *)
(* every limit and every duration.                                         *)
(***************************************************************************)
EXTENDS LockManager, FiniteSetTheorems, TLAPS

USE DEF setting

-----------------------------------------------------------------------------
(* Type correctness.                                                       *)

LEMMA Update ==
  ASSUME NEW S, NEW T, NEW f \in [S -> T], NEW x, NEW v \in T
  PROVE  [f EXCEPT ![x] = v] \in [S -> T]
OBVIOUS

\* The field and the lease of one client change to an expiration.
LEMMA StoreType ==
  ASSUME TypeOK, NEW w \in Workers, Store(w)
  PROVE  /\ expiry' \in [Clients -> Nat \cup {Absent}]
         /\ lease' \in [Clients -> Nat]
         /\ hashTTL' \in Nat \cup {NoTTL}
<1>1. start[w] + Duration \in Nat /\ now + Duration \in Nat
  BY LockConstants DEF TypeOK
<1>2. expiry' \in [Clients -> Nat \cup {Absent}]
  BY <1>1, Update, Zenon DEF Store, TypeOK
<1>3. lease' \in [Clients -> Nat]
  BY <1>1, Update, Zenon DEF Store, TypeOK
<1>4. QED
  BY <1>1, <1>2, <1>3 DEF Store

LEMMA ReleaseType ==
  ASSUME TypeOK, NEW w \in Workers, Release(w)
  PROVE  /\ expiry' \in [Clients -> Nat \cup {Absent}]
         /\ lease' \in [Clients -> Nat]
<1>1. now + ReleaseDelay \in Nat /\ 0 \in Nat
  BY LockConstants DEF TypeOK
<1>2. expiry' \in [Clients -> Nat \cup {Absent}]
  BY <1>1, Update, Zenon DEF Release, TypeOK
<1>3. lease' \in [Clients -> Nat]
  BY <1>1, Update, Zenon DEF Release, TypeOK
<1>4. QED
  BY <1>2, <1>3

\* Type correctness: every command leaves the Redis keys and the call of each
\* worker in the sets they range over.
THEOREM TypeCorrect == Spec => []TypeOK
<1>1. Init => TypeOK
  BY LockConstants DEF Init, TypeOK, Steps, Absent, NoTTL
<1>2. TypeOK /\ [Next]_vars => TypeOK'
  <2> SUFFICES ASSUME TypeOK, [Next]_vars PROVE TypeOK'
    OBVIOUS
  <2> USE LockConstants DEF TypeOK, Steps, Absent, NoTTL, redis, call, stack, Goto, Answer
  <2>1. CASE Tick
    BY <2>1 DEF Tick, DropKeys
  <2>2. CASE UNCHANGED vars
    BY <2>2 DEF vars
  <2>3. ASSUME NEW w \in Workers, Acquire(w) PROVE TypeOK'
    <3>1. CASE StartAcquire(w)
      BY <3>1 DEF StartAcquire, Begin
    <3>2. CASE ListExpired(w)
      BY <3>2 DEF ListExpired, Fields
    <3>3. CASE Purge(w)
      BY <3>3 DEF Purge
    <3>4. CASE AlreadyThere(w)
      BY <3>4 DEF AlreadyThere, Return, Finish
    <3>5. CASE NotThere(w)
      BY <3>5 DEF NotThere
    <3>6. CASE GrantUnlimited(w)
      BY <3>6, StoreType DEF GrantUnlimited, Return, Finish
    <3>7. CASE TakeMutex(w)
      BY <3>7 DEF TakeMutex
    <3>8. CASE GiveUp(w)
      BY <3>8 DEF GiveUp, Return, Finish
    <3>9. CASE CheckLocked(w)
      BY <3>9 DEF CheckLocked, Return, Finish
    <3>10. CASE Count(w)
      BY <3>10 DEF Count
    <3>11. CASE Grant(w)
      BY <3>11, StoreType DEF Grant
    <3>12. CASE Unlock(w)
      BY <3>12 DEF Unlock, Finish
    <3>13. QED
      BY <2>3, <3>1, <3>2, <3>3, <3>4, <3>5, <3>6, <3>7, <3>8, <3>9, <3>10, <3>11, <3>12
         DEF Acquire
  <2>4. ASSUME NEW w \in Workers, Inspect(w) PROVE TypeOK'
    <3>1. CASE StartHasLock(w)
      BY <3>1 DEF StartHasLock, Begin
    <3>2. CASE HasLockExists(w)
      BY <3>2 DEF HasLockExists, Return, Finish
    <3>3. CASE HasLockGet(w)
      BY <3>3 DEF HasLockGet, Return, Finish
    <3>4. CASE SeeLock(w)
      BY <3>4 DEF SeeLock, Begin, Fields
    <3>5. CASE Release(w)
      <4>1. /\ expiry' \in [Clients -> Nat \cup {Absent}]
            /\ lease' \in [Clients -> Nat]
        BY <3>5, ReleaseType
      <4>2. QED
        BY <3>5, <4>1 DEF Release, Finish
    <3>6. CASE KeepLock(w)
      BY <3>6 DEF KeepLock, Finish
    <3>7. QED
      BY <2>4, <3>1, <3>2, <3>3, <3>4, <3>5, <3>6 DEF Inspect
  <2>5. ASSUME NEW w \in Workers, Crash(w) PROVE TypeOK'
    BY <2>5 DEF Crash, Return, Finish
  <2>6. CASE Horizon
    BY <2>6, <2>2 DEF Horizon
  <2>7. QED
    BY <2>1, <2>2, <2>3, <2>4, <2>5, <2>6 DEF Next
<1>3. QED
  BY <1>1, <1>2, PTL DEF Spec

-----------------------------------------------------------------------------
(* The mutex excludes when no worker stays in it beyond its TTL.           *)

\* A worker inside the mutex owns it, and its TTL is still to come.
MutexInv ==
  \A w \in Workers : pc[w] \in Critical =>
    /\ mutex = w
    /\ mutexUntil = since[w] + MutexTTL
    /\ now <= since[w] + MaxStall

LEMMA MutexInvStep ==
  ASSUME StallBelowTTL, TypeOK, MutexInv, [Next]_vars
  PROVE  MutexInv'
<1> USE LockConstants DEF TypeOK, MutexInv, Critical, Steps, redis, call, stack, Goto
<1>1. CASE Tick
  <2> SUFFICES ASSUME NEW w \in Workers, pc[w] \in Critical
               PROVE  /\ mutex' = w
                      /\ mutexUntil' = since[w] + MutexTTL
                      /\ now' <= since[w] + MaxStall
    BY <1>1 DEF Tick, DropKeys
  <2>1. now + 1 <= since[w] + MaxStall
    BY <1>1 DEF Tick, Prompt
  <2>2. ~MutexDue
    BY <2>1 DEF MutexDue, StallBelowTTL
  <2>3. QED
    BY <1>1, <2>1, <2>2 DEF Tick, DropKeys
<1>2. CASE UNCHANGED vars
  BY <1>2 DEF vars
<1>3. ASSUME NEW w \in Workers, Acquire(w) PROVE MutexInv'
  <2>1. CASE StartAcquire(w)
    BY <2>1 DEF StartAcquire, Begin
  <2>2. CASE ListExpired(w)
    BY <2>2 DEF ListExpired
  <2>3. CASE Purge(w)
    BY <2>3 DEF Purge
  <2>4. CASE AlreadyThere(w)
    BY <2>4 DEF AlreadyThere, Return, Finish
  <2>5. CASE NotThere(w)
    BY <2>5 DEF NotThere
  <2>6. CASE GrantUnlimited(w)
    BY <2>6 DEF GrantUnlimited, Return, Finish
  <2>7. CASE TakeMutex(w)
    BY <2>7 DEF TakeMutex
  <2>8. CASE GiveUp(w)
    BY <2>8 DEF GiveUp, Return, Finish
  <2>9. CASE CheckLocked(w)
    BY <2>9 DEF CheckLocked, Return, Finish
  <2>10. CASE Count(w)
    BY <2>10 DEF Count
  <2>11. CASE Grant(w)
    BY <2>11 DEF Grant
  <2>12. CASE Unlock(w)
    BY <2>12 DEF Unlock, Finish
  <2>13. QED
    BY <1>3, <2>1, <2>2, <2>3, <2>4, <2>5, <2>6, <2>7, <2>8, <2>9, <2>10, <2>11, <2>12
       DEF Acquire
<1>4. ASSUME NEW w \in Workers, Inspect(w) \/ Crash(w) PROVE MutexInv'
  <2>1. CASE StartHasLock(w) \/ SeeLock(w)
    BY <2>1 DEF StartHasLock, SeeLock, Begin
  <2>2. CASE HasLockExists(w) \/ HasLockGet(w)
    BY <2>2 DEF HasLockExists, HasLockGet, Return, Finish
  <2>3. CASE Release(w) \/ KeepLock(w) \/ Crash(w)
    BY <2>3 DEF Release, KeepLock, Crash, Return, Finish
  <2>4. QED
    BY <1>4, <2>1, <2>2, <2>3 DEF Inspect
<1>5. QED
  BY <1>1, <1>2, <1>3, <1>4 DEF Next, Horizon

\* Mutual exclusion: two workers are never both between mutex.locked() and the
\* pipeline of acquire_lock, whatever dies or stalls for less than the TTL.
THEOREM MutexExclusion == StallBelowTTL => (Spec => []MutexExcludes)
<1> SUFFICES ASSUME StallBelowTTL PROVE Spec => []MutexExcludes
  OBVIOUS
<1>1. Init => MutexInv
  BY DEF Init, MutexInv, Critical
<1>2. TypeOK /\ MutexInv /\ [Next]_vars => MutexInv'
  BY MutexInvStep
<1>3. MutexInv => MutexExcludes
  BY DEF MutexInv, MutexExcludes, Critical, Guarded
<1>4. QED
  BY <1>1, <1>2, <1>3, TypeCorrect, PTL DEF Spec

-----------------------------------------------------------------------------
(* The limit, and the semaphore that the hash of locks implements.         *)

\* A worker about to store a lock still has room for it.
RoomInv ==
  \A w \in Workers : pc[w] = "grant" => Cardinality(Holders) < limit[w]

\* With finite limits the branch without the mutex is never taken, and without
\* limits the branch with the mutex is not.
BranchInv ==
  /\ ~unlimited => \A w \in Workers : pc[w] # "grantInf"
  /\ unlimited => \A w \in Workers : pc[w] \notin {"wait"} \cup Critical

LimitInv == MutexInv /\ RoomInv /\ BranchInv /\ LimitRespected

LEMMA HoldersFinite ==
  /\ IsFiniteSet(Fields) /\ IsFiniteSet(Holders)
  /\ Cardinality(Fields) \in Nat /\ Cardinality(Holders) \in Nat
  /\ Cardinality(Holders) <= Cardinality(Fields)
<1>1. Fields \in SUBSET Clients /\ Holders \in SUBSET Fields
  BY DEF Fields, Holders
<1>2. IsFiniteSet(Fields)
  BY <1>1, FS_Subset, LockConstants
<1>3. IsFiniteSet(Holders) /\ Cardinality(Holders) <= Cardinality(Fields)
  BY <1>1, <1>2, FS_Subset
<1>4. QED
  BY <1>2, <1>3, FS_CardinalityType

\* A step that neither counts nor stores a lock only takes locks away, and
\* brings no worker to the point of storing one.
Quiet ==
  /\ Holders' \subseteq Holders
  /\ \A v \in Workers : pc'[v] = "grant" => pc[v] = "grant" /\ limit'[v] = limit[v]

LEMMA StepShape ==
  ASSUME TypeOK, BranchInv, [Next]_vars
  PROVE  /\ BranchInv'
         /\ unlimited' = unlimited
         /\ Quiet \/ \E w \in Workers : Count(w) \/ Grant(w) \/ GrantUnlimited(w)
<1> USE DEF TypeOK, BranchInv, Critical, Steps, Quiet, Fields, Holders,
            redis, call, stack, Goto
<1>1. CASE Tick
  BY <1>1 DEF Tick, DropKeys
<1>2. CASE UNCHANGED vars
  BY <1>2 DEF vars
<1>3. ASSUME NEW w \in Workers, Acquire(w)
      PROVE  /\ BranchInv' /\ unlimited' = unlimited
             /\ Quiet \/ Count(w) \/ Grant(w) \/ GrantUnlimited(w)
  <2>1. CASE StartAcquire(w)
    BY <2>1 DEF StartAcquire, Begin
  <2>2. CASE ListExpired(w)
    BY <2>2 DEF ListExpired
  <2>3. CASE Purge(w)
    BY <2>3 DEF Purge
  <2>4. CASE AlreadyThere(w)
    BY <2>4 DEF AlreadyThere, Return, Finish
  <2>5. CASE NotThere(w)
    BY <2>5 DEF NotThere
  <2>6. CASE GrantUnlimited(w)
    BY <2>6 DEF GrantUnlimited, Return, Finish
  <2>7. CASE TakeMutex(w)
    BY <2>7 DEF TakeMutex
  <2>8. CASE GiveUp(w)
    BY <2>8 DEF GiveUp, Return, Finish
  <2>9. CASE CheckLocked(w)
    BY <2>9 DEF CheckLocked, Return, Finish
  <2>10. CASE Count(w)
    BY <2>10 DEF Count
  <2>11. CASE Grant(w)
    BY <2>11 DEF Grant
  <2>12. CASE Unlock(w)
    BY <2>12 DEF Unlock, Finish
  <2>13. QED
    BY <1>3, <2>1, <2>2, <2>3, <2>4, <2>5, <2>6, <2>7, <2>8, <2>9, <2>10, <2>11, <2>12
       DEF Acquire
<1>4. ASSUME NEW w \in Workers, Inspect(w) \/ Crash(w)
      PROVE  BranchInv' /\ unlimited' = unlimited /\ Quiet
  <2>1. CASE StartHasLock(w) \/ SeeLock(w)
    BY <2>1 DEF StartHasLock, SeeLock, Begin
  <2>2. CASE HasLockExists(w) \/ HasLockGet(w)
    BY <2>2 DEF HasLockExists, HasLockGet, Return, Finish
  <2>3. CASE Release(w)
    BY <2>3 DEF Release, Finish
  <2>4. CASE KeepLock(w) \/ Crash(w)
    BY <2>4 DEF KeepLock, Crash, Return, Finish
  <2>5. QED
    BY <1>4, <2>1, <2>2, <2>3, <2>4 DEF Inspect
<1>5. QED
  BY <1>1, <1>2, <1>3, <1>4 DEF Next, Horizon

\* Storing a lock adds at most the client of the call to the holders.
LEMMA GrantHolders ==
  ASSUME TypeOK, NEW w \in Workers, Grant(w) \/ GrantUnlimited(w)
  PROVE  Holders' = Holders \/ (client[w] \in Clients /\ Holders' = Holders \cup {client[w]})
<1>1. start[w] + Duration \in Nat \ {0, Absent}
  BY LockConstants DEF TypeOK, Absent
<1>2. QED
  BY <1>1 DEF Grant, GrantUnlimited, Store, TypeOK, Fields, Holders

LEMMA LimitInvStep ==
  ASSUME StallBelowTTL, TypeOK, TypeOK', LimitInv, [Next]_vars
  PROVE  LimitInv'
<1> USE DEF LimitInv
<1>1. MutexInv'
  BY MutexInvStep
<1>2. /\ BranchInv' /\ unlimited' = unlimited
      /\ Quiet \/ \E w \in Workers : Count(w) \/ Grant(w) \/ GrantUnlimited(w)
  BY StepShape
<1>3. /\ Cardinality(Holders) \in Nat /\ IsFiniteSet(Holders)
      /\ Cardinality(Holders) <= Cardinality(Fields) /\ Cardinality(Fields) \in Nat
  BY HoldersFinite
<1>4. CASE Quiet
  <2>1. Cardinality(Holders') <= Cardinality(Holders) /\ Cardinality(Holders') \in Nat
    <3>1. Holders' \in SUBSET Holders
      BY <1>4 DEF Quiet
    <3>2. IsFiniteSet(Holders') /\ Cardinality(Holders') <= Cardinality(Holders)
      BY <1>3, <3>1, FS_Subset
    <3>3. QED
      BY <3>2, FS_CardinalityType
  <2>2. Cardinality(Holders)' = Cardinality(Holders')
    OBVIOUS
  <2>3. LimitRespected'
    BY <2>1, <1>2, <1>3, <2>2, LockConstants DEF LimitRespected
  <2>4. RoomInv'
    BY <2>1, <1>3, <2>2, <1>4 DEF RoomInv, Quiet, TypeOK
  <2>5. QED
    BY <1>1, <1>2, <2>3, <2>4
<1>5. ASSUME NEW w \in Workers, Count(w) PROVE LimitInv'
  <2>1. Holders' = Holders
    BY <1>5 DEF Count, Fields, Holders, redis
  <2>2. ASSUME NEW v \in Workers, pc'[v] = "grant" PROVE Cardinality(Holders) < limit'[v]
    <3>1. CASE v = w
      BY <3>1, <2>2, <1>3, <1>5 DEF Count, BelowLimit, Goto, TypeOK, stack, call
    <3>2. CASE v # w
      BY <3>2, <2>2, <1>5 DEF Count, Goto, RoomInv, TypeOK, stack, call
    <3>3. QED
      BY <3>1, <3>2
  <2>3. QED
    BY <1>1, <1>2, <2>1, <2>2 DEF RoomInv, LimitRespected
<1>6. ASSUME NEW w \in Workers, Grant(w) PROVE LimitInv'
  <2>1. Cardinality(Holders) < limit[w] /\ limit[w] <= MaxLimit
    BY <1>6 DEF Grant, RoomInv, TypeOK
  <2>2. Cardinality(Holders') <= Cardinality(Holders) + 1 /\ Cardinality(Holders') \in Nat
    <3>1. CASE Holders' = Holders
      BY <1>3, <3>1
    <3>2. CASE Holders' = Holders \cup {client[w]}
      <4>1. /\ IsFiniteSet(Holders \cup {client[w]})
            /\ Cardinality(Holders \cup {client[w]}) <= Cardinality(Holders) + 1
        BY <1>3, FS_AddElement
      <4>2. QED
        BY <4>1, <3>2, FS_CardinalityType
    <3>3. QED
      BY <1>6, <3>1, <3>2, GrantHolders
  <2>3. LimitRespected'
    BY <2>1, <2>2, <1>3, LockConstants DEF LimitRespected, TypeOK
  <2>4. ASSUME NEW v \in Workers, pc'[v] = "grant" PROVE FALSE
    <3>1. v # w /\ pc[v] = "grant"
      BY <1>6, <2>4 DEF Grant, Goto, TypeOK
    <3>2. mutex = v /\ mutex = w
      BY <3>1, <1>6 DEF MutexInv, Critical, Grant
    <3>3. QED
      BY <3>1, <3>2
  <2>5. QED
    BY <1>1, <1>2, <2>3, <2>4 DEF RoomInv
<1>7. ASSUME NEW w \in Workers, GrantUnlimited(w) PROVE LimitInv'
  <2>1. unlimited /\ unlimited'
    BY <1>2, <1>7 DEF BranchInv, GrantUnlimited
  <2>2. \A v \in Workers : pc'[v] # "grant"
    BY <1>2, <2>1 DEF BranchInv, Critical
  <2>3. QED
    BY <1>1, <1>2, <2>1, <2>2 DEF RoomInv, LimitRespected
<1>8. QED
  BY <1>2, <1>4, <1>5, <1>6, <1>7

LEMMA LimitInvInit == Init => LimitInv
<1> SUFFICES ASSUME Init PROVE LimitInv
  OBVIOUS
<1>1. Holders = {}
  BY DEF Init, Holders, Fields
<1>2. Cardinality(Holders) = 0
  BY <1>1, FS_EmptySet
<1>3. QED
  BY <1>2, LockConstants DEF Init, LimitInv, MutexInv, RoomInv, BranchInv, LimitRespected, Critical

LEMMA LimitInvariant == StallBelowTTL => (Spec => []LimitInv)
<1> SUFFICES ASSUME StallBelowTTL PROVE Spec => []LimitInv
  OBVIOUS
<1>1. TypeOK /\ TypeOK' /\ LimitInv /\ [Next]_vars => LimitInv'
  BY LimitInvStep
<1>2. QED
  BY LimitInvInit, <1>1, TypeCorrect, PTL DEF Spec

\* acquire_lock never lets more clients hold the resource than the largest
\* limit it is asked for, whatever the interleaving of the workers' commands,
\* provided no worker stays inside the mutex as long as the mutex lives.
THEOREM LimitTheorem == StallBelowTTL => (Spec => []LimitRespected)
<1> SUFFICES ASSUME StallBelowTTL PROVE Spec => []LimitRespected
  OBVIOUS
<1>1. LimitInv => LimitRespected
  BY DEF LimitInv
<1>2. QED
  BY <1>1, LimitInvariant, PTL

LEMMA SemaphoreStep ==
  ASSUME TypeOK, LimitInv, [Next]_vars
  PROVE  AbstractSemaphore!Next \/ (Holders' = Holders /\ unlimited' = unlimited)
<1> DEFINE capacity == IF unlimited THEN Cardinality(Clients) ELSE MaxLimit
<1>1. /\ unlimited' = unlimited
      /\ Quiet \/ \E w \in Workers : Count(w) \/ Grant(w) \/ GrantUnlimited(w)
  BY StepShape DEF LimitInv
<1>2. CASE Quiet /\ Holders' # Holders
  <2>1. /\ Holders \ Holders' \in SUBSET Holders
        /\ Holders \ Holders' # {}
        /\ Holders' = Holders \ (Holders \ Holders')
    BY <1>2 DEF Quiet
  <2>2. AbstractSemaphore!Drop
    BY <2>1 DEF AbstractSemaphore!Drop
  <2>3. QED
    BY <1>1, <2>2 DEF AbstractSemaphore!Next
<1>3. ASSUME NEW w \in Workers, Count(w) PROVE Holders' = Holders
  BY <1>3 DEF Count, Fields, Holders, redis
<1>4. ASSUME NEW w \in Workers, Grant(w) \/ GrantUnlimited(w), Holders' # Holders
      PROVE  AbstractSemaphore!Next
  <2>1. client[w] \in Clients \ Holders /\ Holders' = Holders \cup {client[w]}
    BY <1>4, GrantHolders
  <2>2. Cardinality(Holders) < capacity
    <3>1. CASE GrantUnlimited(w)
      <4>1. Holders \in SUBSET Clients /\ Holders # Clients
        BY <2>1 DEF Holders, Fields
      <4>2. Cardinality(Holders) < Cardinality(Clients)
        <5>1. Cardinality(Holders) <= Cardinality(Clients) /\ Cardinality(Clients) \in Nat
          BY <4>1, FS_Subset, FS_CardinalityType, LockConstants
        <5>2. Cardinality(Holders) # Cardinality(Clients)
          BY <4>1, FS_Subset, LockConstants
        <5>3. QED
          BY <5>1, <5>2, HoldersFinite
      <4>3. unlimited
        BY <3>1 DEF GrantUnlimited, LimitInv, BranchInv
      <4>4. QED
        BY <4>2, <4>3
    <3>2. CASE Grant(w)
      <4>1. ~unlimited
        BY <3>2 DEF Grant, LimitInv, BranchInv, Critical
      <4>2. Cardinality(Holders) < limit[w] /\ limit[w] <= MaxLimit /\ limit[w] \in Nat
        BY <3>2 DEF Grant, LimitInv, RoomInv, TypeOK
      <4>3. QED
        BY <4>1, <4>2, HoldersFinite, LockConstants
    <3>3. QED
      BY <1>4, <3>1, <3>2
  <2>3. AbstractSemaphore!Take(client[w])
    <3>1. AbstractSemaphore!Cardinality(Holders) = Cardinality(Holders)
      BY DEF Cardinality, AbstractSemaphore!Cardinality
    <3>2. QED
      BY <2>1, <2>2, <3>1 DEF AbstractSemaphore!Take
  <2>4. QED
    BY <1>1, <2>1, <2>3 DEF AbstractSemaphore!Next
<1>5. QED
  BY <1>1, <1>2, <1>3, <1>4

\* The hash of locks, with its non-atomic updates, implements the semaphore:
\* every command of a worker takes one free unit, gives units back or leaves
\* them alone.
THEOREM Refinement == StallBelowTTL => (Spec => ImplementsSemaphore)
<1> SUFFICES ASSUME StallBelowTTL PROVE Spec => ImplementsSemaphore
  OBVIOUS
<1>1. Init => AbstractSemaphore!Init
  <2>1. Cardinality(Clients) \in Nat
    BY FS_CardinalityType, LockConstants
  <2>2. QED
    BY <2>1, LockConstants DEF Init, AbstractSemaphore!Init, Holders, Fields
<1>2. TypeOK /\ LimitInv /\ [Next]_vars =>
        [AbstractSemaphore!Next]_<<Holders, IF unlimited THEN Cardinality(Clients) ELSE MaxLimit>>
  BY SemaphoreStep
<1>3. QED
  BY <1>1, <1>2, TypeCorrect, LimitInvariant, PTL
     DEF Spec, ImplementsSemaphore, AbstractSemaphore!Spec

-----------------------------------------------------------------------------
(* The TTL of the hash.                                                    *)

\* The TTL was set at most Duration from now, and no call began in the future.
HashInv ==
  /\ hashTTL <= now + Duration
  /\ \A w \in Workers : start[w] <= now
  /\ HashOutlivesLeases

LEMMA HashInvStep ==
  ASSUME TypeOK, HashInv, [Next]_vars
  PROVE  HashInv'
<1> USE LockConstants DEF TypeOK, HashInv, HashOutlivesLeases, Fields, Holders,
                          Absent, NoTTL, redis, call, stack, Goto
<1>1. CASE Tick
  BY <1>1 DEF Tick, DropKeys
<1>2. CASE UNCHANGED vars
  BY <1>2 DEF vars
<1>3. ASSUME NEW w \in Workers, Grant(w) \/ GrantUnlimited(w) PROVE HashInv'
  <2>1. Store(w) /\ now' = now /\ (start' = start \/ start' = [start EXCEPT ![w] = 0])
    BY <1>3 DEF Grant, GrantUnlimited, Return, Finish
  <2>2. hashTTL' = now + Duration /\ hashTTL' \in Nat /\ \A v \in Workers : start'[v] <= now'
    BY <2>1 DEF Store
  <2>3. \A c \in Clients : lease'[c] = lease[c] \/ lease'[c] <= now + Duration
    BY <2>1 DEF Store
  <2>4. \A c \in Clients : expiry'[c] = expiry[c] \/ lease'[c] <= now + Duration
    BY <2>1 DEF Store
  <2>5. QED
    BY <2>1, <2>2, <2>3, <2>4
<1>4. ASSUME NEW w \in Workers, Acquire(w), ~Grant(w), ~GrantUnlimited(w) PROVE HashInv'
  <2>1. CASE StartAcquire(w) \/ ListExpired(w)
    BY <2>1 DEF StartAcquire, Begin, ListExpired
  <2>2. CASE Purge(w)
    BY <2>2 DEF Purge
  <2>3. CASE AlreadyThere(w) \/ NotThere(w)
    BY <2>3 DEF AlreadyThere, NotThere, Return, Finish
  <2>4. CASE TakeMutex(w) \/ GiveUp(w) \/ CheckLocked(w)
    BY <2>4 DEF TakeMutex, GiveUp, CheckLocked, Return, Finish
  <2>5. CASE Count(w) \/ Unlock(w)
    BY <2>5 DEF Count, Unlock, Finish
  <2>6. QED
    BY <1>4, <2>1, <2>2, <2>3, <2>4, <2>5 DEF Acquire
<1>5. ASSUME NEW w \in Workers, Inspect(w) \/ Crash(w) PROVE HashInv'
  <2>1. CASE StartHasLock(w) \/ SeeLock(w)
    BY <2>1 DEF StartHasLock, SeeLock, Begin
  <2>2. CASE HasLockExists(w) \/ HasLockGet(w)
    BY <2>2 DEF HasLockExists, HasLockGet, Return, Finish
  <2>3. CASE Release(w)
    BY <2>3 DEF Release, Finish
  <2>4. CASE KeepLock(w) \/ Crash(w)
    BY <2>4 DEF KeepLock, Crash, Return, Finish
  <2>5. QED
    BY <1>5, <2>1, <2>2, <2>3, <2>4 DEF Inspect
<1>6. QED
  BY <1>1, <1>2, <1>3, <1>4, <1>5 DEF Next, Horizon

\* Redis never drops the hash before the locks in it expire: each grant moves
\* the TTL at least as far as every lock granted before, in whatever order the
\* calls that computed the expirations reach Redis.
THEOREM HashTheorem == Spec => []HashOutlivesLeases
<1>1. Init => HashInv
  BY LockConstants DEF Init, HashInv, HashOutlivesLeases, Holders, Fields, NoTTL
<1>2. TypeOK /\ HashInv /\ [Next]_vars => HashInv'
  BY HashInvStep
<1>3. HashInv => HashOutlivesLeases
  BY DEF HashInv
<1>4. QED
  BY <1>1, <1>2, <1>3, TypeCorrect, PTL DEF Spec

-----------------------------------------------------------------------------
(* A refusal counts unexpired locks.                                       *)

\* A call, with its wait for the mutex, is over before its lock would expire.
CallsBelowDuration == MaxRequest + BlockingTimeout <= Duration

\* How long a call may have lasted at each of its commands.
TimeInv ==
  \A w \in Workers :
    /\ start[w] <= now
    /\ pc[w] = "wait" => /\ since[w] <= start[w] + MaxRequest
                         /\ now <= since[w] + BlockingTimeout
    /\ pc[w] \in {"list", "purge", "exists", "grantInf"} => now <= start[w] + MaxRequest
    /\ pc[w] \in Critical => now <= start[w] + MaxRequest + BlockingTimeout

\* From its listing to its count, a call sees no field that had expired when it
\* began, except those it is about to delete.
FreshInv ==
  \A w \in Workers, c \in Fields :
    /\ pc[w] = "purge" => expiry[c] >= start[w] \/ c \in toDelete[w]
    /\ pc[w] \in {"exists", "wait", "locked", "count"} => expiry[c] >= start[w]

LEMMA TimeInvStep ==
  ASSUME TypeOK, TimeInv, [Next]_vars
  PROVE  TimeInv'
<1> USE LockConstants DEF TypeOK, TimeInv, Critical, Steps, redis, call, stack, Goto
<1>1. CASE Tick
  BY <1>1 DEF Tick, Prompt
<1>2. CASE UNCHANGED vars
  BY <1>2 DEF vars
<1>3. ASSUME NEW w \in Workers, Acquire(w) PROVE TimeInv'
  <2>1. CASE StartAcquire(w)
    BY <2>1 DEF StartAcquire, Begin
  <2>2. CASE ListExpired(w) \/ Purge(w)
    BY <2>2 DEF ListExpired, Purge
  <2>3. CASE AlreadyThere(w) \/ GiveUp(w)
    BY <2>3 DEF AlreadyThere, GiveUp, Return, Finish
  <2>4. CASE NotThere(w)
    BY <2>4 DEF NotThere
  <2>5. CASE GrantUnlimited(w)
    BY <2>5 DEF GrantUnlimited, Return, Finish
  <2>6. CASE TakeMutex(w)
    BY <2>6 DEF TakeMutex
  <2>7. CASE CheckLocked(w)
    BY <2>7 DEF CheckLocked, Return, Finish
  <2>8. CASE Count(w)
    BY <2>8 DEF Count
  <2>9. CASE Grant(w)
    BY <2>9 DEF Grant
  <2>10. CASE Unlock(w)
    BY <2>10 DEF Unlock, Finish
  <2>11. QED
    BY <1>3, <2>1, <2>2, <2>3, <2>4, <2>5, <2>6, <2>7, <2>8, <2>9, <2>10 DEF Acquire
<1>4. ASSUME NEW w \in Workers, Inspect(w) \/ Crash(w) PROVE TimeInv'
  <2>1. CASE StartHasLock(w) \/ SeeLock(w)
    BY <2>1 DEF StartHasLock, SeeLock, Begin
  <2>2. CASE HasLockExists(w) \/ HasLockGet(w)
    BY <2>2 DEF HasLockExists, HasLockGet, Return, Finish
  <2>3. CASE Release(w) \/ KeepLock(w) \/ Crash(w)
    BY <2>3 DEF Release, KeepLock, Crash, Return, Finish
  <2>4. QED
    BY <1>4, <2>1, <2>2, <2>3 DEF Inspect
<1>5. QED
  BY <1>1, <1>2, <1>3, <1>4 DEF Next, Horizon

\* A step writes no expiration that has passed already.
LEMMA WritesFresh ==
  ASSUME CallsBelowDuration, TypeOK, TimeInv, [Next]_vars
  PROVE  \A c \in Clients :
           expiry'[c] = Absent \/ expiry'[c] = expiry[c] \/ expiry'[c] >= now
<1> USE LockConstants DEF TypeOK, redis
<1>1. CASE Tick
  BY <1>1 DEF Tick, DropKeys
<1>2. CASE UNCHANGED vars
  BY <1>2 DEF vars
<1>3. ASSUME NEW w \in Workers, Grant(w) \/ GrantUnlimited(w)
      PROVE  \A c \in Clients : expiry'[c] = expiry[c] \/ expiry'[c] >= now
  <2>1. Store(w) /\ now <= start[w] + MaxRequest + BlockingTimeout
    BY <1>3 DEF Grant, GrantUnlimited, TimeInv, Critical
  <2>2. start[w] + Duration >= now
    BY <2>1 DEF CallsBelowDuration
  <2>3. QED
    BY <2>1, <2>2 DEF Store
<1>4. ASSUME NEW w \in Workers, Release(w)
      PROVE  \A c \in Clients : expiry'[c] = expiry[c] \/ expiry'[c] >= now
  BY <1>4 DEF Release
<1>5. ASSUME NEW w \in Workers, Purge(w)
      PROVE  \A c \in Clients : expiry'[c] = Absent \/ expiry'[c] = expiry[c]
  BY <1>5 DEF Purge
<1>6. ASSUME NEW w \in Workers, Acquire(w), ~Grant(w), ~GrantUnlimited(w), ~Purge(w)
      PROVE  expiry' = expiry
  BY <1>6 DEF Acquire, StartAcquire, Begin, ListExpired, AlreadyThere, NotThere,
              TakeMutex, GiveUp, CheckLocked, Count, Unlock
<1>7. ASSUME NEW w \in Workers, Inspect(w) \/ Crash(w), ~Release(w) PROVE expiry' = expiry
  BY <1>7 DEF Inspect, StartHasLock, SeeLock, Begin, HasLockExists, HasLockGet, KeepLock, Crash
<1>8. QED
  BY <1>1, <1>2, <1>3, <1>4, <1>5, <1>6, <1>7 DEF Next, Horizon

\* A worker reaches or keeps a position after its listing only by the commands
\* of acquire_lock, with the same timestamp.
LEMMA Positions ==
  ASSUME TypeOK, [Next]_vars, NEW w \in Workers
  PROVE  /\ pc'[w] = "purge" =>
              \/ pc[w] = "purge" /\ start'[w] = start[w] /\ toDelete'[w] = toDelete[w]
              \/ ListExpired(w)
         /\ pc'[w] \in {"exists", "wait", "locked", "count"} =>
              \/ pc[w] \in {"exists", "wait", "locked", "count"} /\ start'[w] = start[w]
              \/ ListExpired(w) \/ Purge(w)
         /\ pc[w] = "count" /\ pc'[w] = "unlock" => Count(w)
<1> DEFINE Still ==
      /\ pc'[w] = "purge" =>
           pc[w] = "purge" /\ start'[w] = start[w] /\ toDelete'[w] = toDelete[w]
      /\ pc'[w] \in {"exists", "wait", "locked", "count"} =>
           pc[w] \in {"exists", "wait", "locked", "count"} /\ start'[w] = start[w]
      /\ ~(pc[w] = "count" /\ pc'[w] = "unlock")
<1> USE DEF TypeOK, Steps, redis, call, stack, Goto
<1>1. CASE Tick
  BY <1>1 DEF Tick
<1>2. CASE UNCHANGED vars
  BY <1>2 DEF vars
<1>3. ASSUME NEW v \in Workers, Acquire(v), v # w PROVE Still
  <2>1. CASE StartAcquire(v)
    BY <2>1, <1>3 DEF StartAcquire, Begin
  <2>2. CASE ListExpired(v) \/ Purge(v)
    BY <2>2, <1>3 DEF ListExpired, Purge
  <2>3. CASE AlreadyThere(v) \/ GiveUp(v) \/ CheckLocked(v)
    BY <2>3, <1>3 DEF AlreadyThere, GiveUp, CheckLocked, Return, Finish
  <2>4. CASE NotThere(v) \/ TakeMutex(v)
    BY <2>4, <1>3 DEF NotThere, TakeMutex
  <2>5. CASE GrantUnlimited(v) \/ Unlock(v)
    BY <2>5, <1>3 DEF GrantUnlimited, Unlock, Return, Finish
  <2>6. CASE Count(v) \/ Grant(v)
    BY <2>6, <1>3 DEF Count, Grant
  <2>7. QED
    BY <1>3, <2>1, <2>2, <2>3, <2>4, <2>5, <2>6 DEF Acquire
<1>4. ASSUME Acquire(w) PROVE Still \/ ListExpired(w) \/ Purge(w) \/ Count(w)
  <2>1. CASE StartAcquire(w)
    BY <2>1 DEF StartAcquire, Begin
  <2>2. CASE AlreadyThere(w) \/ GiveUp(w) \/ CheckLocked(w)
    BY <2>2 DEF AlreadyThere, GiveUp, CheckLocked, Return, Finish
  <2>3. CASE NotThere(w) \/ TakeMutex(w)
    BY <2>3 DEF NotThere, TakeMutex
  <2>4. CASE GrantUnlimited(w) \/ Unlock(w)
    BY <2>4 DEF GrantUnlimited, Unlock, Return, Finish
  <2>5. CASE Grant(w)
    BY <2>5 DEF Grant
  <2>6. QED
    BY <1>4, <2>1, <2>2, <2>3, <2>4, <2>5 DEF Acquire
<1>5. ASSUME NEW v \in Workers, Inspect(v) \/ Crash(v) PROVE Still
  <2>1. CASE StartHasLock(v) \/ SeeLock(v)
    BY <2>1 DEF StartHasLock, SeeLock, Begin
  <2>2. CASE HasLockExists(v) \/ HasLockGet(v)
    BY <2>2 DEF HasLockExists, HasLockGet, Return, Finish
  <2>3. CASE Release(v) \/ KeepLock(v) \/ Crash(v)
    BY <2>3 DEF Release, KeepLock, Crash, Return, Finish
  <2>4. QED
    BY <1>5, <2>1, <2>2, <2>3 DEF Inspect
<1>6. CASE ListExpired(w)
  BY <1>6 DEF ListExpired
<1>7. CASE Purge(w)
  BY <1>7 DEF Purge
<1>8. CASE Count(w)
  BY <1>8 DEF Count
<1>9. Tick \/ UNCHANGED vars \/ \E v \in Workers : Acquire(v) \/ Inspect(v) \/ Crash(v)
  BY DEF Next, Horizon
<1>10. CASE Still
  BY <1>10
<1> HIDE DEF Still
<1>11. QED
  BY <1>1, <1>2, <1>3, <1>4, <1>5, <1>6, <1>7, <1>8, <1>9, <1>10

LEMMA FreshInvStep ==
  ASSUME CallsBelowDuration, TypeOK, TypeOK', TimeInv, FreshInv, [Next]_vars
  PROVE  FreshInv'
<1> SUFFICES ASSUME NEW w \in Workers, NEW c \in Clients, expiry'[c] # Absent
             PROVE  /\ pc'[w] = "purge" => expiry'[c] >= start'[w] \/ c \in toDelete'[w]
                    /\ pc'[w] \in {"exists", "wait", "locked", "count"} => expiry'[c] >= start'[w]
  BY DEF FreshInv, Fields
<1>1. expiry'[c] = expiry[c] \/ expiry'[c] >= now
  BY WritesFresh
<1>2. start[w] <= now /\ start[w] \in Nat /\ now \in Nat /\ expiry'[c] \in Nat \cup {Absent}
  BY DEF TimeInv, TypeOK
<1>3. ASSUME pc'[w] = "purge" PROVE expiry'[c] >= start'[w] \/ c \in toDelete'[w]
  <2>1. CASE pc[w] = "purge" /\ start'[w] = start[w] /\ toDelete'[w] = toDelete[w]
    BY <2>1, <1>1, <1>2 DEF FreshInv, Fields
  <2>2. CASE ListExpired(w)
    BY <2>2, <1>2 DEF ListExpired, Fields, TypeOK, Absent, redis, call
  <2>3. QED
    BY <1>3, <2>1, <2>2, Positions
<1>4. ASSUME pc'[w] \in {"exists", "wait", "locked", "count"} PROVE expiry'[c] >= start'[w]
  <2>1. CASE pc[w] \in {"exists", "wait", "locked", "count"} /\ start'[w] = start[w]
    BY <2>1, <1>1, <1>2 DEF FreshInv, Fields
  <2>2. CASE ListExpired(w)
    <3>1. {d \in Fields : start[w] > expiry[d]} = {} /\ start' = start /\ expiry' = expiry
      BY <2>2, <1>4 DEF ListExpired, Goto, TypeOK, redis, call
    <3>2. QED
      BY <3>1, <1>2 DEF Fields, TypeOK, Absent
  <2>3. CASE Purge(w)
    <3>1. c \notin toDelete[w] /\ expiry'[c] = expiry[c] /\ start' = start /\ pc[w] = "purge"
      BY <2>3 DEF Purge, call
    <3>2. QED
      BY <3>1 DEF FreshInv, Fields
  <2>4. QED
    BY <1>4, <2>1, <2>2, <2>3, Positions
<1>5. QED
  BY <1>3, <1>4

\* acquire_lock refuses for want of room only if as many unexpired locks as its
\* limit stood in its way: expired locks do not cost a client the resource.
THEOREM RefusalTheorem == CallsBelowDuration => (Spec => RefusalJustified)
<1> SUFFICES ASSUME CallsBelowDuration PROVE Spec => RefusalJustified
  OBVIOUS
<1>1. Init => TimeInv /\ FreshInv
  BY LockConstants DEF Init, TimeInv, FreshInv, Critical
<1>2. TypeOK /\ TypeOK' /\ TimeInv /\ FreshInv /\ [Next]_vars => TimeInv' /\ FreshInv'
  BY TimeInvStep, FreshInvStep
<1>3. TypeOK /\ FreshInv /\ [Next]_vars =>
        [\A w \in Workers : pc[w] = "count" /\ pc'[w] = "unlock" =>
           limit[w] <= Cardinality({c \in Fields : expiry[c] >= start[w]})]_vars
  <2> SUFFICES ASSUME TypeOK, FreshInv, Next, NEW w \in Workers,
                      pc[w] = "count", pc'[w] = "unlock"
               PROVE  limit[w] <= Cardinality({c \in Fields : expiry[c] >= start[w]})
    OBVIOUS
  <2>1. Count(w)
    BY Positions
  <2>2. ~(Cardinality(Fields) < limit[w])
    BY <2>1 DEF Count, BelowLimit, Goto, TypeOK
  <2>3. {c \in Fields : expiry[c] >= start[w]} = Fields
    BY DEF FreshInv
  <2>4. limit[w] <= Cardinality(Fields)
    <3>1. limit[w] \in Int /\ Cardinality(Fields) \in Nat
      BY HoldersFinite, LockConstants DEF TypeOK
    <3>2. QED
      BY <2>2, <3>1
  <2>5. QED
    BY <2>3, <2>4
<1>4. QED
  BY <1>1, <1>2, <1>3, TypeCorrect, PTL DEF Spec, RefusalJustified

-----------------------------------------------------------------------------
(* How a lock may be lost.                                                 *)

\* The premise: what a worker deletes has expired by then, that is, nobody has granted one
\* of these locks anew since the worker listed them.
PurgesExpired ==
  \A w \in Workers : Purge(w) => \A c \in toDelete[w] \cap Fields : expiry[c] <= now

\* Until it is released, the field of a lock holds the expiration it was granted.
LeaseInv ==
  /\ \A c \in Fields : lease[c] # 0 => expiry[c] = lease[c]
  /\ LeaseKept

LEMMA LeaseInvStep ==
  ASSUME TypeOK, HashInv, LeaseInv, [Next]_vars, PurgesExpired
  PROVE  LeaseInv'
<1> USE LockConstants DEF TypeOK, LeaseInv, LeaseKept, Fields, Absent
<1>0. ASSUME UNCHANGED <<now, expiry, lease>> PROVE LeaseInv'
  BY <1>0
<1>1. CASE Tick
  <2>1. now' = now + 1 /\ lease' = lease /\ DropKeys
    BY <1>1 DEF Tick
  <2>2. CASE HashDue
    <3>1. \A c \in Clients : expiry'[c] = Absent
      BY <2>1, <2>2 DEF DropKeys
    <3>2. \A c \in Clients : lease[c] > now => lease[c] <= hashTTL
      BY DEF HashInv, HashOutlivesLeases, Holders
    <3>3. hashTTL <= now'
      BY <2>1, <2>2 DEF HashDue, NoTTL
    <3>4. QED
      BY <2>1, <3>1, <3>2, <3>3 DEF NoTTL
  <2>3. CASE ~HashDue
    BY <2>1, <2>3 DEF DropKeys
  <2>4. QED
    BY <2>2, <2>3
<1>2. CASE UNCHANGED vars
  BY <1>0, <1>2 DEF vars, setting, redis
<1>3. ASSUME NEW w \in Workers, Grant(w) \/ GrantUnlimited(w) PROVE LeaseInv'
  <2>1. Store(w) /\ now' = now
    BY <1>3 DEF Grant, GrantUnlimited, setting
  <2>2. QED
    BY <2>1 DEF Store
<1>4. ASSUME NEW w \in Workers, Purge(w) PROVE LeaseInv'
  <2>1. /\ expiry' = [c \in Clients |-> IF c \in toDelete[w] THEN Absent ELSE expiry[c]]
        /\ now' = now /\ lease' = lease
    BY <1>4 DEF Purge, setting
  <2>2. \A c \in toDelete[w] \cap Fields : expiry[c] <= now
    BY <1>4 DEF PurgesExpired
  <2>3. QED
    BY <2>1, <2>2
<1>5. ASSUME NEW w \in Workers, Acquire(w), ~Grant(w), ~GrantUnlimited(w), ~Purge(w)
      PROVE  LeaseInv'
  BY <1>0, <1>5 DEF Acquire, StartAcquire, ListExpired, AlreadyThere, NotThere, TakeMutex, GiveUp,
                    CheckLocked, Count, Unlock, Begin, setting, redis
<1>6. ASSUME NEW w \in Workers, Release(w) PROVE LeaseInv'
  BY <1>6 DEF Release, setting
<1>7. ASSUME NEW w \in Workers, (Inspect(w) /\ ~Release(w)) \/ Crash(w) PROVE LeaseInv'
  BY <1>0, <1>7 DEF Inspect, StartHasLock, HasLockExists, HasLockGet, SeeLock, KeepLock, Crash,
                    Begin, setting, redis
<1>8. QED
  BY <1>1, <1>2, <1>3, <1>4, <1>5, <1>6, <1>7 DEF Next, Horizon

\* A lock lasts for its duration unless a worker deletes it that had found an older one
\* expired: neither the TTL of the hash, nor a late or a repeated grant, nor the death of a
\* worker ever shortens it.
THEOREM LeaseTheorem == Spec /\ [][PurgesExpired]_vars => []LeaseKept
<1>1. Init => HashInv /\ LeaseInv
  BY LockConstants
     DEF Init, HashInv, LeaseInv, LeaseKept, HashOutlivesLeases, Holders, Fields, NoTTL, Absent
<1>2. TypeOK /\ HashInv /\ LeaseInv /\ [Next]_vars /\ [PurgesExpired]_vars => (HashInv /\ LeaseInv)'
  <2> SUFFICES ASSUME TypeOK, HashInv, LeaseInv, [Next]_vars, [PurgesExpired]_vars
               PROVE  (HashInv /\ LeaseInv)'
    OBVIOUS
  <2>1. CASE UNCHANGED vars
    BY <2>1, HashInvStep DEF vars, setting, redis, call, stack, LeaseInv, LeaseKept, Fields
  <2>2. CASE PurgesExpired
    BY <2>2, HashInvStep, LeaseInvStep
  <2>3. QED
    BY <2>1, <2>2
<1>3. LeaseInv => LeaseKept
  BY DEF LeaseInv
<1>4. QED
  BY <1>1, <1>2, <1>3, TypeCorrect, PTL DEF Spec
==============================================================================
