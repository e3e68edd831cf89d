------------------------ MODULE TwoLevelCache_proofs ------------------------
(***************************************************************************)
(* Theorems about TwoLevelCache for every number of callers, every TTL of  *)
(* the mutex, every set of falsy values and every number of writes.        *)
(***************************************************************************)
EXTENDS TwoLevelCache, TLAPS

USE CacheConstants DEF None

-----------------------------------------------------------------------------
(* Type correctness: a mutex that exists has time left.                    *)

MutexAlive == mutex # NoCaller => mutexLeft > 0
TypeInv == TypeOK /\ MutexAlive

LEMMA TypeInit == Init => TypeInv
<1> SUFFICES ASSUME Init PROVE TypeInv
  OBVIOUS
<1>1. {clean, unprotected, torn} \subseteq BOOLEAN
  BY Zenon DEF Init
<1>2. /\ pc \in [Callers -> Steps] /\ seen \in [Callers -> Nat \cup {None}]
      /\ out \in [Callers -> Nat \cup {None}] /\ guarded \in [Callers -> BOOLEAN]
      /\ waited \in [Callers -> 0..MutexTTL] /\ need \in [Callers -> Nat]
  BY DEF Init, Steps
<1>3. QED
  BY <1>1, <1>2 DEF Init, TypeInv, TypeOK, MutexAlive

LEMMA FinishType ==
  ASSUME TypeOK, NEW c \in Callers, NEW step \in Steps, NEW v \in Nat \cup {None},
         Finish(c, step, v)
  PROVE  /\ pc' \in [Callers -> Steps]
         /\ seen' \in [Callers -> Nat \cup {None}]
         /\ out' \in [Callers -> Nat \cup {None}]
         /\ guarded' \in [Callers -> BOOLEAN]
         /\ waited' \in [Callers -> 0..MutexTTL]
BY DEF TypeOK, Finish, Goto

LEMMA TypeStep == TypeInv /\ [Next]_vars => TypeInv'
<1> SUFFICES ASSUME TypeInv, [Next]_vars PROVE TypeInv'
  OBVIOUS
<1> USE DEF TypeInv, TypeOK, MutexAlive, Goto, Begin, setting, keys, lock, call, wstate, history
<1>1. CASE Write
  BY <1>1 DEF Write
<1>2. CASE Leave
  BY <1>2 DEF Leave
<1>3. CASE DeleteKey
  BY <1>3, Zenon DEF DeleteKey, Invalidated
<1>4. CASE DeleteL1
  BY <1>4 DEF DeleteL1, NoOldStore
<1>5. CASE DeleteL2
  BY <1>5 DEF DeleteL2, Invalidated, SecondKeyGone
<1>6. CASE ReadMembers
  BY <1>6 DEF ReadMembers, NoOldRefresh
<1>7. CASE DeleteMembers
  BY <1>7 DEF DeleteMembers, DeleteDoomed, Invalidated
<1>8. CASE Scan
  BY <1>8 DEF Scan, NoOldStore
<1>9. CASE DeleteScanned
  <2>1. {clean', unprotected', torn'} \subseteq BOOLEAN
    BY <1>9, Zenon DEF DeleteScanned, Invalidated
  <2>2. mutex' \in Callers \cup {NoCaller} /\ mutexLeft' \in 0..MutexTTL /\ MutexAlive'
    BY <1>9 DEF DeleteScanned
  <2>3. l1' \in Nat \cup {None} /\ l2' \in Nat \cup {None} /\ floor' \in Nat
    BY <1>9 DEF DeleteScanned, DeleteDoomed, Invalidated
  <2>4. QED
    BY <1>9, <2>1, <2>2, <2>3 DEF DeleteScanned, Invalidated
<1>10. CASE ExpireL1
  BY <1>10 DEF ExpireL1
<1>11. CASE ExpireL2
  BY <1>11 DEF ExpireL2
<1>12. CASE Tick
  BY <1>12 DEF Tick, InLoop, MutexDue, Overrun
<1>13. ASSUME NEW c \in Callers, HitL1(c) \/ MissL1(c) \/ ForceRefresh(c) PROVE TypeInv'
  <2>1. CASE HitL1(c)
    BY <2>1 DEF HitL1, Steps
  <2>2. CASE MissL1(c)
    BY <2>2 DEF MissL1, Steps, plain
  <2>3. CASE ForceRefresh(c)
    BY <2>3 DEF ForceRefresh, Steps
  <2>4. QED
    BY <1>13, <2>1, <2>2, <2>3
<1>14. ASSUME NEW c \in Callers, ReadL2(c) \/ TakeMutex(c) \/ StartPolling(c) \/ WaitedOut(c)
       PROVE TypeInv'
  <2>1. CASE ReadL2(c)
    BY <2>1 DEF ReadL2, Steps
  <2>2. CASE StartPolling(c)
    BY <2>2 DEF StartPolling, Steps
  <2>3. CASE TakeMutex(c)
    BY <2>3 DEF TakeMutex, Steps
  <2>4. CASE WaitedOut(c)
    BY <2>4 DEF WaitedOut, Steps
  <2>5. QED
    BY <1>14, <2>1, <2>2, <2>3, <2>4
<1>15. ASSUME NEW c \in Callers, ServeL2(c) \/ PollHit(c) \/ ReturnComputed(c)
       PROVE TypeInv'
  <2>1. \E v \in Nat \cup {None} : Finish(c, "done", v)
    BY <1>15 DEF ServeL2, PollHit, ReturnComputed, Return
  <2>2. "done" \in Steps
    BY DEF Steps
  <2>3. /\ pc' \in [Callers -> Steps] /\ waited' \in [Callers -> 0..MutexTTL]
        /\ seen' \in [Callers -> Nat \cup {None}] /\ out' \in [Callers -> Nat \cup {None}]
        /\ guarded' \in [Callers -> BOOLEAN]
    BY <2>1, <2>2, FinishType
  <2>4. UNCHANGED <<setting, db, keys, lock, wstate, need, history>>
    BY <1>15 DEF ServeL2, PollHit, ReturnComputed, Return
  <2>5. QED
    BY <2>3, <2>4
<1>16. ASSUME NEW c \in Callers, Done(c) \/ ComputeFails(c) PROVE TypeInv'
  <2>1. Finish(c, "idle", None) /\ "idle" \in Steps
    BY <1>16 DEF Done, ComputeFails, Raise, Steps
  <2>2. need' \in [Callers -> Nat] /\ UNCHANGED <<setting, db, keys, lock, wstate, history>>
    BY <1>16 DEF Done, ComputeFails, Raise
  <2>3. /\ pc' \in [Callers -> Steps] /\ waited' \in [Callers -> 0..MutexTTL]
        /\ seen' \in [Callers -> Nat \cup {None}] /\ out' \in [Callers -> Nat \cup {None}]
        /\ guarded' \in [Callers -> BOOLEAN]
    BY <2>1, FinishType
  <2>4. QED
    BY <2>2, <2>3
<1>17. ASSUME NEW c \in Callers, Crash(c) PROVE TypeInv'
  <2>1. torn' \in BOOLEAN
    BY <1>17, Zenon DEF Crash
  <2>2. QED
    BY <1>17, <2>1, FinishType DEF Crash, Raise, Steps
<1>18. ASSUME NEW c \in Callers, Compute(c) PROVE TypeInv'
  BY <1>18 DEF Compute, Steps
<1>19. ASSUME NEW c \in Callers, StoreL1(c) \/ StoreL2(c) PROVE TypeInv'
  <2>1. CASE StoreL1(c)
    BY <2>1 DEF StoreL1, Steps
  <2>2. CASE StoreL2(c)
    BY <2>2 DEF StoreL2, Steps, ValueForL2
  <2>3. QED
    BY <1>19, <2>1, <2>2
<1>20. ASSUME NEW c \in Callers, JoinL1(c) \/ JoinL2(c) PROVE TypeInv'
  <2>1. CASE JoinL1(c)
    BY <2>1 DEF JoinL1, Join, Steps
  <2>2. CASE JoinL2(c)
    BY <2>2 DEF JoinL2, Join, Steps, SecondMember
  <2>3. QED
    BY <1>20, <2>1, <2>2
<1>21. ASSUME NEW c \in Callers, Release(c) PROVE TypeInv'
  <2>1. CASE out[c] \in Falsy /\ seen[c] = None
    <3>1. /\ pc' \in [Callers -> Steps] /\ guarded' \in [Callers -> BOOLEAN]
          /\ out' \in [Callers -> Nat \cup {None}] /\ UNCHANGED <<seen, waited, need>>
      BY <1>21, <2>1 DEF Release, Steps
    <3>2. mutex' \in Callers \cup {NoCaller} /\ mutexLeft' \in 0..MutexTTL /\ MutexAlive'
      BY <1>21 DEF Release
    <3>3. UNCHANGED <<setting, db, keys, wstate, history>>
      BY <1>21 DEF Release
    <3>4. QED
      BY <3>1, <3>2, <3>3
  <2>2. CASE ~(out[c] \in Falsy /\ seen[c] = None)
    BY <1>21, <2>2, FinishType DEF Release, Return, Steps
  <2>3. QED
    BY <2>1, <2>2
<1>22. CASE UNCHANGED vars
  BY <1>22 DEF vars
<1>23. QED
  BY <1>1, <1>2, <1>3, <1>4, <1>5, <1>6, <1>7, <1>8, <1>9, <1>10, <1>11, <1>12,
     <1>13, <1>14, <1>15, <1>16, <1>17, <1>18, <1>19, <1>20, <1>21, <1>22
     DEF Next, Step, Invalidation

LEMMA TypeInvariant == Spec => []TypeInv
BY TypeInit, TypeStep, PTL DEF Spec

\* Type correctness: every command leaves the cache and its callers in range.
THEOREM TypeCorrect == Spec => []TypeOK
BY TypeInvariant, PTL DEF TypeInv

-----------------------------------------------------------------------------
(* Where a caller is, and what it has: only a caller that has computed a   *)
(* value, or returns, has one; the mutex is held in update_cache only.     *)

Updating == {"compute", "store1", "store2", "sadd1", "sadd2", "release"}
Computed == {"store1", "store2", "sadd1", "sadd2", "release"}

Shape ==
  /\ plain => l2 = None
  /\ \A c \in Callers :
       /\ pc[c] \in Computed \cup {"done"} <=> out[c] # None
       /\ pc[c] \in {"idle", "l2", "done"} => seen[c] = None
       /\ guarded[c] => pc[c] \in Updating
       /\ pc[c] \in {"sadd1", "sadd2"} => fn # "scanned"
       /\ plain => ~guarded[c] /\ pc[c] \notin {"l2", "lock", "store2", "sadd2", "poll"}
       /\ guarded[c] \/ pc[c] \in {"idle", "l2", "lock", "done"} => waited[c] = 0

LEMMA ShapeInit == Init => Shape
BY DEF Init, Shape, plain, Updating, Computed

LEMMA ShapeStep == TypeInv /\ Shape /\ [Next]_vars => Shape'
<1> SUFFICES ASSUME TypeInv /\ Shape, [Next]_vars PROVE Shape'
  OBVIOUS
<1> USE DEF TypeInv, TypeOK, Goto, Begin, setting, keys, lock, call, wstate, history, Shape, plain, Updating, Computed, Steps
<1>1. CASE Write
  BY <1>1 DEF Write
<1>2. CASE Leave
  BY <1>2 DEF Leave
<1>3. CASE DeleteKey
  BY <1>3 DEF DeleteKey, Invalidated
<1>4. CASE DeleteL1
  BY <1>4 DEF DeleteL1, NoOldStore
<1>5. CASE DeleteL2
  BY <1>5 DEF DeleteL2, Invalidated, SecondKeyGone
<1>6. CASE ReadMembers
  BY <1>6 DEF ReadMembers, NoOldRefresh
<1>7. CASE DeleteMembers
  BY <1>7 DEF DeleteMembers, Invalidated, DeleteDoomed
<1>8. CASE Scan
  BY <1>8 DEF Scan, NoOldStore
<1>9. CASE DeleteScanned
  BY <1>9 DEF DeleteScanned, Invalidated, DeleteDoomed
<1>10. CASE ExpireL1
  BY <1>10 DEF ExpireL1
<1>11. CASE ExpireL2
  BY <1>11 DEF ExpireL2
<1>12. CASE Tick
  BY <1>12 DEF Tick, InLoop
<1>13. ASSUME NEW c \in Callers, HitL1(c) PROVE Shape'
  BY <1>13 DEF HitL1
<1>14. ASSUME NEW c \in Callers, MissL1(c) PROVE Shape'
  BY <1>14 DEF MissL1
<1>15. ASSUME NEW c \in Callers, ForceRefresh(c) PROVE Shape'
  BY <1>15 DEF ForceRefresh
<1>16. ASSUME NEW c \in Callers, ReadL2(c) PROVE Shape'
  BY <1>16 DEF ReadL2
<1>17. ASSUME NEW c \in Callers, TakeMutex(c) PROVE Shape'
  BY <1>17 DEF TakeMutex
<1>18. ASSUME NEW c \in Callers, ServeL2(c) PROVE Shape'
  BY <1>18 DEF ServeL2, Return, Finish
<1>19. ASSUME NEW c \in Callers, StartPolling(c) PROVE Shape'
  BY <1>19 DEF StartPolling
<1>20. ASSUME NEW c \in Callers, PollHit(c) PROVE Shape'
  BY <1>20 DEF PollHit, Return, Finish
<1>21. ASSUME NEW c \in Callers, WaitedOut(c) PROVE Shape'
  BY <1>21 DEF WaitedOut
<1>22. ASSUME NEW c \in Callers, Done(c) PROVE Shape'
  BY <1>22 DEF Done, Raise, Finish
<1>23. ASSUME NEW c \in Callers, Compute(c) PROVE Shape'
  BY <1>23 DEF Compute
<1>24. ASSUME NEW c \in Callers, ComputeFails(c) PROVE Shape'
  BY <1>24 DEF ComputeFails, Raise, Finish
<1>25. ASSUME NEW c \in Callers, StoreL1(c) PROVE Shape'
  BY <1>25 DEF StoreL1
<1>26. ASSUME NEW c \in Callers, StoreL2(c) PROVE Shape'
  BY <1>26 DEF StoreL2, ValueForL2
<1>27. ASSUME NEW c \in Callers, JoinL1(c) PROVE Shape'
  BY <1>27 DEF JoinL1, Join
<1>28. ASSUME NEW c \in Callers, JoinL2(c) PROVE Shape'
  BY <1>28 DEF JoinL2, Join, SecondMember
<1>29. ASSUME NEW c \in Callers, ReturnComputed(c) PROVE Shape'
  BY <1>29 DEF ReturnComputed, Return, Finish
<1>30. ASSUME NEW c \in Callers, Release(c) PROVE Shape'
  <2>1. CASE out[c] \in Falsy /\ seen[c] = None
    BY <1>30, <2>1 DEF Release, Return, Finish
  <2>2. CASE ~(out[c] \in Falsy /\ seen[c] = None)
    BY <1>30, <2>2 DEF Release, Return, Finish
  <2>3. QED
    BY <2>1, <2>2
<1>31. ASSUME NEW c \in Callers, Crash(c) PROVE Shape'
  BY <1>31 DEF Crash, Raise, Finish
<1>32. CASE UNCHANGED vars
  BY <1>32 DEF vars
<1>33. QED
  BY <1>1, <1>2, <1>3, <1>4, <1>5, <1>6, <1>7, <1>8, <1>9, <1>10, <1>11, <1>12, <1>13, <1>14,
     <1>15, <1>16, <1>17, <1>18, <1>19, <1>20, <1>21, <1>22, <1>23, <1>24, <1>25, <1>26, <1>27, <1>28, <1>29, <1>30, <1>31, <1>32
     DEF Next, Step, Invalidation

LEMMA ShapeInvariant == Spec => [](TypeInv /\ Shape)
BY TypeInvariant, ShapeInit, ShapeStep, PTL DEF Spec

-----------------------------------------------------------------------------
(* The cache group: whoever stored a key last registers it, and a          *)
(* delete_cache_group that has read the members has read them all.         *)

GroupInv ==
  fn # "scanned" /\ ~torn =>
    /\ l1 # None => "l1" \in group \/ \E c \in Callers : pc[c] \in {"store2", "sadd1"} /\ out[c] = l1
    /\ l2 # None => "l2" \in group \/ \E c \in Callers : pc[c] \in {"sadd1", "sadd2"} /\ out[c] = l2
    /\ writer = "members" => group \subseteq doomed

LEMMA GroupInit == Init => GroupInv
BY DEF Init, GroupInv

LEMMA GroupStep == TypeInv /\ Shape /\ GroupInv /\ [Next]_vars => GroupInv'
<1> SUFFICES ASSUME TypeInv /\ Shape /\ GroupInv, [Next]_vars PROVE GroupInv'
  OBVIOUS
<1> USE DEF TypeInv, TypeOK, Goto, Begin, setting, keys, lock, call, wstate, history, Shape, GroupInv, plain, Computed, Functions
<1>1. CASE Write
  BY <1>1 DEF Write
<1>2. CASE Leave
  BY <1>2 DEF Leave
<1>3. CASE DeleteKey
  BY <1>3 DEF DeleteKey, Invalidated
<1>4. CASE DeleteL1
  BY <1>4 DEF DeleteL1, NoOldStore
<1>5. CASE DeleteL2
  BY <1>5 DEF DeleteL2, Invalidated, SecondKeyGone
<1>6. CASE ReadMembers
  BY <1>6 DEF ReadMembers, NoOldRefresh
<1>7. CASE DeleteMembers
  BY <1>7 DEF DeleteMembers, Invalidated, DeleteDoomed
<1>8. CASE Scan
  BY <1>8 DEF Scan, NoOldStore
<1>9. CASE DeleteScanned
  BY <1>9 DEF DeleteScanned, Invalidated, DeleteDoomed
<1>10. CASE ExpireL1
  BY <1>10 DEF ExpireL1
<1>11. CASE ExpireL2
  BY <1>11 DEF ExpireL2
<1>12. CASE Tick
  BY <1>12 DEF Tick
<1>13. ASSUME NEW c \in Callers, HitL1(c) PROVE GroupInv'
  BY <1>13 DEF HitL1
<1>14. ASSUME NEW c \in Callers, MissL1(c) PROVE GroupInv'
  BY <1>14 DEF MissL1
<1>15. ASSUME NEW c \in Callers, ForceRefresh(c) PROVE GroupInv'
  BY <1>15 DEF ForceRefresh
<1>16. ASSUME NEW c \in Callers, ReadL2(c) PROVE GroupInv'
  BY <1>16 DEF ReadL2
<1>17. ASSUME NEW c \in Callers, TakeMutex(c) PROVE GroupInv'
  BY <1>17 DEF TakeMutex
<1>18. ASSUME NEW c \in Callers, ServeL2(c) PROVE GroupInv'
  BY <1>18 DEF ServeL2, Return, Finish
<1>19. ASSUME NEW c \in Callers, StartPolling(c) PROVE GroupInv'
  BY <1>19 DEF StartPolling
<1>20. ASSUME NEW c \in Callers, PollHit(c) PROVE GroupInv'
  BY <1>20 DEF PollHit, Return, Finish
<1>21. ASSUME NEW c \in Callers, WaitedOut(c) PROVE GroupInv'
  BY <1>21 DEF WaitedOut
<1>22. ASSUME NEW c \in Callers, Done(c) PROVE GroupInv'
  BY <1>22 DEF Done, Raise, Finish
<1>23. ASSUME NEW c \in Callers, Compute(c) PROVE GroupInv'
  BY <1>23 DEF Compute
<1>24. ASSUME NEW c \in Callers, ComputeFails(c) PROVE GroupInv'
  BY <1>24 DEF ComputeFails, Raise, Finish
<1>25. ASSUME NEW c \in Callers, StoreL1(c) PROVE GroupInv'
  BY <1>25 DEF StoreL1
<1>26. ASSUME NEW c \in Callers, StoreL2(c) PROVE GroupInv'
  BY <1>26 DEF StoreL2, ValueForL2
<1>27. ASSUME NEW c \in Callers, JoinL1(c) PROVE GroupInv'
  BY <1>27 DEF JoinL1, Join
<1>28. ASSUME NEW c \in Callers, JoinL2(c) PROVE GroupInv'
  BY <1>28 DEF JoinL2, Join, SecondMember
<1>29. ASSUME NEW c \in Callers, ReturnComputed(c) PROVE GroupInv'
  BY <1>29 DEF ReturnComputed, Return, Finish
<1>30. ASSUME NEW c \in Callers, Release(c) PROVE GroupInv'
  <2>1. CASE out[c] \in Falsy /\ seen[c] = None
    BY <1>30, <2>1 DEF Release, Return, Finish
  <2>2. CASE ~(out[c] \in Falsy /\ seen[c] = None)
    BY <1>30, <2>2 DEF Release, Return, Finish
  <2>3. QED
    BY <2>1, <2>2
<1>31. ASSUME NEW c \in Callers, Crash(c) PROVE GroupInv'
  BY <1>31 DEF Crash, Raise, Finish
<1>32. CASE UNCHANGED vars
  BY <1>32 DEF vars
<1>33. QED
  BY <1>1, <1>2, <1>3, <1>4, <1>5, <1>6, <1>7, <1>8, <1>9, <1>10, <1>11, <1>12, <1>13, <1>14,
     <1>15, <1>16, <1>17, <1>18, <1>19, <1>20, <1>21, <1>22, <1>23, <1>24, <1>25, <1>26, <1>27, <1>28, <1>29, <1>30, <1>31, <1>32
     DEF Next, Step, Invalidation

\* A key that is cached can be found by delete_cache_group, unless a caller died before
\* it registered it, or registered it between smembers and delete.
THEOREM GroupCoversTheKeys == Spec => []GroupCovers
<1>1. GroupInv => GroupCovers
  BY DEF GroupInv, GroupCovers
<1>2. QED
  BY <1>1, ShapeInvariant, GroupInit, GroupStep, PTL DEF Spec

-----------------------------------------------------------------------------
(* Freshness: an invalidation that found no older refresh in flight leaves *)
(* nothing older behind, in the keys and in the callers.                   *)

Between(lo, x) == x # None => lo <= x /\ x <= db
Outdated(x) == x \notin {None, db}

Fresh ==
  /\ floor <= db /\ Between(floor, l1) /\ Between(floor, l2)
  /\ \A c \in Callers :
       /\ need[c] <= floor
       /\ Between(need[c], seen[c]) /\ Between(need[c], out[c])
       /\ pc[c] \in {"store1", "store2"} => floor <= out[c]
Sweep ==
  clean =>
    /\ writer \in {"half", "members", "scanned"}
    /\ NoOldStore
    /\ writer = "half" => fn = "grouped" /\ ~Outdated(l1)
    /\ writer \in {"members", "scanned"} =>
         /\ Outdated(l1) => "l1" \in doomed
         /\ Outdated(l2) => "l2" \in doomed

LEMMA FreshInit == Init => Fresh /\ Sweep
BY DEF Init, Fresh, Sweep, Between, NoOldStore

LEMMA SweepStep == TypeInv /\ Shape /\ GroupInv /\ Sweep /\ [Next]_vars => Sweep'
<1> SUFFICES ASSUME TypeInv /\ Shape /\ GroupInv /\ Sweep, [Next]_vars PROVE Sweep'
  OBVIOUS
<1> USE DEF TypeInv, TypeOK, Goto, Begin, setting, keys, lock, call, wstate, history, Shape, GroupInv, Sweep, Between, Outdated, NoOldStore, plain, Computed, Functions
<1>1. CASE Write
  BY <1>1 DEF Write
<1>2. CASE Leave
  BY <1>2 DEF Leave
<1>3. CASE DeleteKey
  BY <1>3 DEF DeleteKey, Invalidated
<1>4. CASE DeleteL1
  BY <1>4 DEF DeleteL1, NoOldStore
<1>5. CASE DeleteL2
  BY <1>5 DEF DeleteL2, Invalidated, SecondKeyGone
<1>6. CASE ReadMembers
  BY <1>6 DEF ReadMembers, NoOldRefresh
<1>7. CASE DeleteMembers
  BY <1>7 DEF DeleteMembers, Invalidated, DeleteDoomed
<1>8. CASE Scan
  BY <1>8 DEF Scan, NoOldStore
<1>9. CASE DeleteScanned
  BY <1>9 DEF DeleteScanned, Invalidated, DeleteDoomed
<1>10. CASE ExpireL1
  BY <1>10 DEF ExpireL1
<1>11. CASE ExpireL2
  BY <1>11 DEF ExpireL2
<1>12. CASE Tick
  BY <1>12 DEF Tick
<1>13. ASSUME NEW c \in Callers, HitL1(c) PROVE Sweep'
  BY <1>13 DEF HitL1
<1>14. ASSUME NEW c \in Callers, MissL1(c) PROVE Sweep'
  BY <1>14 DEF MissL1
<1>15. ASSUME NEW c \in Callers, ForceRefresh(c) PROVE Sweep'
  BY <1>15 DEF ForceRefresh
<1>16. ASSUME NEW c \in Callers, ReadL2(c) PROVE Sweep'
  BY <1>16 DEF ReadL2
<1>17. ASSUME NEW c \in Callers, TakeMutex(c) PROVE Sweep'
  BY <1>17 DEF TakeMutex
<1>18. ASSUME NEW c \in Callers, ServeL2(c) PROVE Sweep'
  BY <1>18 DEF ServeL2, Return, Finish
<1>19. ASSUME NEW c \in Callers, StartPolling(c) PROVE Sweep'
  BY <1>19 DEF StartPolling
<1>20. ASSUME NEW c \in Callers, PollHit(c) PROVE Sweep'
  BY <1>20 DEF PollHit, Return, Finish
<1>21. ASSUME NEW c \in Callers, WaitedOut(c) PROVE Sweep'
  BY <1>21 DEF WaitedOut
<1>22. ASSUME NEW c \in Callers, Done(c) PROVE Sweep'
  BY <1>22 DEF Done, Raise, Finish
<1>23. ASSUME NEW c \in Callers, Compute(c) PROVE Sweep'
  BY <1>23 DEF Compute
<1>24. ASSUME NEW c \in Callers, ComputeFails(c) PROVE Sweep'
  BY <1>24 DEF ComputeFails, Raise, Finish
<1>25. ASSUME NEW c \in Callers, StoreL1(c) PROVE Sweep'
  BY <1>25 DEF StoreL1
<1>26. ASSUME NEW c \in Callers, StoreL2(c) PROVE Sweep'
  BY <1>26 DEF StoreL2, ValueForL2
<1>27. ASSUME NEW c \in Callers, JoinL1(c) PROVE Sweep'
  BY <1>27 DEF JoinL1, Join
<1>28. ASSUME NEW c \in Callers, JoinL2(c) PROVE Sweep'
  BY <1>28 DEF JoinL2, Join, SecondMember
<1>29. ASSUME NEW c \in Callers, ReturnComputed(c) PROVE Sweep'
  BY <1>29 DEF ReturnComputed, Return, Finish
<1>30. ASSUME NEW c \in Callers, Release(c) PROVE Sweep'
  <2>1. CASE out[c] \in Falsy /\ seen[c] = None
    BY <1>30, <2>1 DEF Release, Return, Finish
  <2>2. CASE ~(out[c] \in Falsy /\ seen[c] = None)
    BY <1>30, <2>2 DEF Release, Return, Finish
  <2>3. QED
    BY <2>1, <2>2
<1>31. ASSUME NEW c \in Callers, Crash(c) PROVE Sweep'
  BY <1>31 DEF Crash, Raise, Finish
<1>32. CASE UNCHANGED vars
  BY <1>32 DEF vars
<1>33. QED
  BY <1>1, <1>2, <1>3, <1>4, <1>5, <1>6, <1>7, <1>8, <1>9, <1>10, <1>11, <1>12, <1>13, <1>14,
     <1>15, <1>16, <1>17, <1>18, <1>19, <1>20, <1>21, <1>22, <1>23, <1>24, <1>25, <1>26, <1>27, <1>28, <1>29, <1>30, <1>31, <1>32
     DEF Next, Step, Invalidation

LEMMA FreshStep == TypeInv /\ Shape /\ Sweep /\ Fresh /\ [Next]_vars => Fresh'
<1> SUFFICES ASSUME TypeInv /\ Shape /\ Sweep /\ Fresh, [Next]_vars PROVE Fresh'
  OBVIOUS
<1> USE DEF TypeInv, TypeOK, Goto, Begin, setting, keys, lock, call, wstate, history, Shape, Fresh, Sweep, Between, Outdated, NoOldStore, plain, Computed, Functions
<1>1. CASE Write
  BY <1>1 DEF Write
<1>2. CASE Leave
  BY <1>2 DEF Leave
<1>3. CASE DeleteKey
  BY <1>3 DEF DeleteKey, Invalidated
<1>4. CASE DeleteL1
  BY <1>4 DEF DeleteL1, NoOldStore
<1>5. CASE DeleteL2
  BY <1>5 DEF DeleteL2, Invalidated, SecondKeyGone
<1>6. CASE ReadMembers
  BY <1>6 DEF ReadMembers, NoOldRefresh
<1>7. CASE DeleteMembers
  BY <1>7 DEF DeleteMembers, Invalidated, DeleteDoomed
<1>8. CASE Scan
  BY <1>8 DEF Scan, NoOldStore
<1>9. CASE DeleteScanned
  BY <1>9 DEF DeleteScanned, Invalidated, DeleteDoomed
<1>10. CASE ExpireL1
  BY <1>10 DEF ExpireL1
<1>11. CASE ExpireL2
  BY <1>11 DEF ExpireL2
<1>12. CASE Tick
  BY <1>12 DEF Tick
<1>13. ASSUME NEW c \in Callers, HitL1(c) PROVE Fresh'
  BY <1>13 DEF HitL1
<1>14. ASSUME NEW c \in Callers, MissL1(c) PROVE Fresh'
  BY <1>14 DEF MissL1
<1>15. ASSUME NEW c \in Callers, ForceRefresh(c) PROVE Fresh'
  BY <1>15 DEF ForceRefresh
<1>16. ASSUME NEW c \in Callers, ReadL2(c) PROVE Fresh'
  BY <1>16 DEF ReadL2
<1>17. ASSUME NEW c \in Callers, TakeMutex(c) PROVE Fresh'
  BY <1>17 DEF TakeMutex
<1>18. ASSUME NEW c \in Callers, ServeL2(c) PROVE Fresh'
  BY <1>18 DEF ServeL2, Return, Finish
<1>19. ASSUME NEW c \in Callers, StartPolling(c) PROVE Fresh'
  BY <1>19 DEF StartPolling
<1>20. ASSUME NEW c \in Callers, PollHit(c) PROVE Fresh'
  BY <1>20 DEF PollHit, Return, Finish
<1>21. ASSUME NEW c \in Callers, WaitedOut(c) PROVE Fresh'
  BY <1>21 DEF WaitedOut
<1>22. ASSUME NEW c \in Callers, Done(c) PROVE Fresh'
  BY <1>22 DEF Done, Raise, Finish
<1>23. ASSUME NEW c \in Callers, Compute(c) PROVE Fresh'
  BY <1>23 DEF Compute
<1>24. ASSUME NEW c \in Callers, ComputeFails(c) PROVE Fresh'
  BY <1>24 DEF ComputeFails, Raise, Finish
<1>25. ASSUME NEW c \in Callers, StoreL1(c) PROVE Fresh'
  BY <1>25 DEF StoreL1
<1>26. ASSUME NEW c \in Callers, StoreL2(c) PROVE Fresh'
  BY <1>26 DEF StoreL2, ValueForL2
<1>27. ASSUME NEW c \in Callers, JoinL1(c) PROVE Fresh'
  BY <1>27 DEF JoinL1, Join
<1>28. ASSUME NEW c \in Callers, JoinL2(c) PROVE Fresh'
  BY <1>28 DEF JoinL2, Join, SecondMember
<1>29. ASSUME NEW c \in Callers, ReturnComputed(c) PROVE Fresh'
  BY <1>29 DEF ReturnComputed, Return, Finish
<1>30. ASSUME NEW c \in Callers, Release(c) PROVE Fresh'
  <2>1. CASE out[c] \in Falsy /\ seen[c] = None
    BY <1>30, <2>1 DEF Release, Return, Finish
  <2>2. CASE ~(out[c] \in Falsy /\ seen[c] = None)
    BY <1>30, <2>2 DEF Release, Return, Finish
  <2>3. QED
    BY <2>1, <2>2
<1>31. ASSUME NEW c \in Callers, Crash(c) PROVE Fresh'
  BY <1>31 DEF Crash, Raise, Finish
<1>32. CASE UNCHANGED vars
  BY <1>32 DEF vars
<1>33. QED
  BY <1>1, <1>2, <1>3, <1>4, <1>5, <1>6, <1>7, <1>8, <1>9, <1>10, <1>11, <1>12, <1>13, <1>14,
     <1>15, <1>16, <1>17, <1>18, <1>19, <1>20, <1>21, <1>22, <1>23, <1>24, <1>25, <1>26, <1>27, <1>28, <1>29, <1>30, <1>31, <1>32
     DEF Next, Step, Invalidation

-----------------------------------------------------------------------------
(* The order of the two levels: the mutex has one owner, and what the      *)
(* owner is about to store is the newest value.                            *)

OrderInv ==
  ~unprotected =>
    /\ \A c \in Callers : guarded[c] => mutex = c
    /\ \A c \in Callers : ~plain /\ pc[c] \in Updating => guarded[c]
    /\ \A c \in Callers : ~plain /\ pc[c] = "store1" => l1 <= out[c] /\ l2 <= out[c]
    /\ \A c \in Callers : pc[c] = "store2" => l1 \in {None, out[c]} /\ l2 <= out[c]
    /\ OrderKept

Past == /\ l1 <= db /\ l2 <= db
        /\ \A c \in Callers : out[c] <= db

LEMMA FreshPast == TypeInv /\ Fresh => Past
BY DEF TypeInv, TypeOK, Fresh, Between, Past

LEMMA OrderInit == Init => OrderInv
BY DEF Init, OrderInv, Updating, OrderKept

LEMMA OrderStep == TypeInv /\ Shape /\ Past /\ OrderInv /\ [Next]_vars => OrderInv'
<1> SUFFICES ASSUME TypeInv /\ Shape /\ Past /\ OrderInv, [Next]_vars PROVE OrderInv'
  OBVIOUS
<1> USE DEF TypeInv, TypeOK, Goto, Begin, setting, keys, lock, call, wstate, history, Shape, Past, OrderInv, OrderKept, plain, Updating, Computed
<1>1. CASE Write
  BY <1>1 DEF Write
<1>2. CASE Leave
  BY <1>2 DEF Leave
<1>3. CASE DeleteKey
  BY <1>3 DEF DeleteKey, Invalidated
<1>4. CASE DeleteL1
  BY <1>4 DEF DeleteL1, NoOldStore
<1>5. CASE DeleteL2
  BY <1>5 DEF DeleteL2, Invalidated, SecondKeyGone
<1>6. CASE ReadMembers
  BY <1>6 DEF ReadMembers, NoOldRefresh
<1>7. CASE DeleteMembers
  BY <1>7 DEF DeleteMembers, Invalidated, DeleteDoomed
<1>8. CASE Scan
  BY <1>8 DEF Scan, NoOldStore
<1>9. CASE DeleteScanned
  BY <1>9 DEF DeleteScanned, Invalidated, DeleteDoomed
<1>10. CASE ExpireL1
  BY <1>10 DEF ExpireL1
<1>11. CASE ExpireL2
  BY <1>11 DEF ExpireL2
<1>12. CASE Tick
  BY <1>12 DEF Tick, Overrun, MutexDue
<1>13. ASSUME NEW c \in Callers, HitL1(c) PROVE OrderInv'
  BY <1>13 DEF HitL1
<1>14. ASSUME NEW c \in Callers, MissL1(c) PROVE OrderInv'
  BY <1>14 DEF MissL1
<1>15. ASSUME NEW c \in Callers, ForceRefresh(c) PROVE OrderInv'
  BY <1>15 DEF ForceRefresh
<1>16. ASSUME NEW c \in Callers, ReadL2(c) PROVE OrderInv'
  BY <1>16 DEF ReadL2
<1>17. ASSUME NEW c \in Callers, TakeMutex(c) PROVE OrderInv'
  BY <1>17 DEF TakeMutex, MutexFree
<1>18. ASSUME NEW c \in Callers, ServeL2(c) PROVE OrderInv'
  BY <1>18 DEF ServeL2, Return, Finish
<1>19. ASSUME NEW c \in Callers, StartPolling(c) PROVE OrderInv'
  BY <1>19 DEF StartPolling
<1>20. ASSUME NEW c \in Callers, PollHit(c) PROVE OrderInv'
  BY <1>20 DEF PollHit, Return, Finish
<1>21. ASSUME NEW c \in Callers, WaitedOut(c) PROVE OrderInv'
  BY <1>21 DEF WaitedOut
<1>22. ASSUME NEW c \in Callers, Done(c) PROVE OrderInv'
  BY <1>22 DEF Done, Raise, Finish
<1>23. ASSUME NEW c \in Callers, Compute(c) PROVE OrderInv'
  BY <1>23 DEF Compute
<1>24. ASSUME NEW c \in Callers, ComputeFails(c) PROVE OrderInv'
  BY <1>24 DEF ComputeFails, Raise, Finish
<1>25. ASSUME NEW c \in Callers, StoreL1(c) PROVE OrderInv'
  BY <1>25 DEF StoreL1
<1>26. ASSUME NEW c \in Callers, StoreL2(c) PROVE OrderInv'
  BY <1>26 DEF StoreL2, ValueForL2
<1>27. ASSUME NEW c \in Callers, JoinL1(c) PROVE OrderInv'
  BY <1>27 DEF JoinL1, Join
<1>28. ASSUME NEW c \in Callers, JoinL2(c) PROVE OrderInv'
  BY <1>28 DEF JoinL2, Join, SecondMember
<1>29. ASSUME NEW c \in Callers, ReturnComputed(c) PROVE OrderInv'
  BY <1>29 DEF ReturnComputed, Return, Finish
<1>30. ASSUME NEW c \in Callers, Release(c) PROVE OrderInv'
  <2>1. CASE out[c] \in Falsy /\ seen[c] = None
    BY <1>30, <2>1 DEF Release, Return, Finish
  <2>2. CASE ~(out[c] \in Falsy /\ seen[c] = None)
    BY <1>30, <2>2 DEF Release, Return, Finish
  <2>3. QED
    BY <2>1, <2>2
<1>31. ASSUME NEW c \in Callers, Crash(c) PROVE OrderInv'
  BY <1>31 DEF Crash, Raise, Finish
<1>32. CASE UNCHANGED vars
  BY <1>32 DEF vars
<1>33. QED
  BY <1>1, <1>2, <1>3, <1>4, <1>5, <1>6, <1>7, <1>8, <1>9, <1>10, <1>11, <1>12, <1>13, <1>14,
     <1>15, <1>16, <1>17, <1>18, <1>19, <1>20, <1>21, <1>22, <1>23, <1>24, <1>25, <1>26, <1>27, <1>28, <1>29, <1>30, <1>31, <1>32
     DEF Next, Step, Invalidation

-----------------------------------------------------------------------------
(* Waiting pays.                                                           *)

WaitersInv ==
  steady =>
    /\ ~unprotected /\ writer = "idle" 
    /\ mutex # NoCaller => guarded[mutex]
    /\ \A c \in Callers : ~plain /\ pc[c] \in {"sadd1", "sadd2", "release"} => l2 # None
    /\ \A c \in Callers : pc[c] = "poll" =>
         /\ waited[c] < MutexTTL
         /\ l2 = None => /\ mutex # NoCaller /\ pc[mutex] \in {"compute", "store1", "store2"}
                         /\ waited[c] + mutexLeft <= MutexTTL

LEMMA WaitersInit == Init => WaitersInv
BY DEF Init, WaitersInv

LEMMA WaitersStep == TypeInv /\ Shape /\ OrderInv /\ WaitersInv /\ [Next]_vars => WaitersInv'
<1> SUFFICES ASSUME TypeInv /\ Shape /\ OrderInv /\ WaitersInv, [Next]_vars PROVE WaitersInv'
  OBVIOUS
<1> USE DEF TypeInv, TypeOK, Goto, Begin, setting, keys, lock, call, wstate, history, Shape, OrderInv, WaitersInv, plain, Updating, Computed
<1>1. CASE Write
  BY <1>1 DEF Write
<1>2. CASE Leave
  BY <1>2 DEF Leave
<1>3. CASE DeleteKey
  BY <1>3 DEF DeleteKey, Invalidated
<1>4. CASE DeleteL1
  BY <1>4 DEF DeleteL1, NoOldStore
<1>5. CASE DeleteL2
  BY <1>5 DEF DeleteL2, Invalidated, SecondKeyGone
<1>6. CASE ReadMembers
  BY <1>6 DEF ReadMembers, NoOldRefresh
<1>7. CASE DeleteMembers
  BY <1>7 DEF DeleteMembers, Invalidated, DeleteDoomed
<1>8. CASE Scan
  BY <1>8 DEF Scan, NoOldStore
<1>9. CASE DeleteScanned
  BY <1>9 DEF DeleteScanned, Invalidated, DeleteDoomed
<1>10. CASE ExpireL1
  BY <1>10 DEF ExpireL1
<1>11. CASE ExpireL2
  BY <1>11 DEF ExpireL2
<1>12. CASE Tick
  <2>1. SUFFICES ASSUME steady PROVE WaitersInv'
    BY <1>12 DEF Tick, WaitersInv
  <2>2. ~Overrun
    BY <1>12, <2>1 DEF Tick
  <2>3. ASSUME mutex # NoCaller PROVE mutex \in Callers /\ guarded[mutex]
    BY <2>1, <2>3 DEF WaitersInv
  <2>4. mutex # NoCaller => mutexLeft # 1
    BY <2>2, <2>3 DEF Overrun, MutexDue
  <2>5. mutex # NoCaller => mutexLeft > 1
    BY <2>4 DEF MutexAlive
  <2>6. mutex' = mutex /\ mutexLeft' = IF mutex = NoCaller THEN mutexLeft ELSE mutexLeft - 1
    BY <1>12, <2>4 DEF Tick, MutexDue
  <2>7. ASSUME NEW c \in Callers, pc[c] = "poll"
        PROVE  /\ waited'[c] < MutexTTL
               /\ l2 = None => /\ mutex # NoCaller
                               /\ pc[mutex] \in {"compute", "store1", "store2"}
                               /\ waited'[c] + mutexLeft' <= MutexTTL
    BY <1>12, <2>1, <2>5, <2>6, <2>7 DEF WaitersInv, Tick, InLoop
  <2>8. ~unprotected' /\ UNCHANGED <<steady, writer, guarded, pc, l2, fn>>
    BY <1>12, <2>1, <2>2 DEF WaitersInv, Tick
  <2>9. mutex' # NoCaller => guarded'[mutex']
    BY <2>3, <2>6, <2>8
  <2>10. \A c \in Callers : ~plain' /\ pc'[c] \in {"sadd1", "sadd2", "release"} => l2' # None
    BY <2>1, <2>8 DEF WaitersInv
  <2>11. writer' = "idle"
    BY <2>1, <2>8 DEF WaitersInv
  <2>12. QED
    BY <2>6, <2>7, <2>8, <2>9, <2>10, <2>11 DEF WaitersInv
<1>13. ASSUME NEW c \in Callers, HitL1(c) PROVE WaitersInv'
  BY <1>13 DEF HitL1
<1>14. ASSUME NEW c \in Callers, MissL1(c) PROVE WaitersInv'
  BY <1>14 DEF MissL1
<1>15. ASSUME NEW c \in Callers, ForceRefresh(c) PROVE WaitersInv'
  BY <1>15 DEF ForceRefresh
<1>16. ASSUME NEW c \in Callers, ReadL2(c) PROVE WaitersInv'
  BY <1>16 DEF ReadL2
<1>17. ASSUME NEW c \in Callers, TakeMutex(c) PROVE WaitersInv'
  BY <1>17 DEF TakeMutex, MutexFree
<1>18. ASSUME NEW c \in Callers, ServeL2(c) PROVE WaitersInv'
  BY <1>18 DEF ServeL2, Return, Finish, MutexFree
<1>19. ASSUME NEW c \in Callers, StartPolling(c) PROVE WaitersInv'
  BY <1>19 DEF StartPolling, MutexFree
<1>20. ASSUME NEW c \in Callers, PollHit(c) PROVE WaitersInv'
  BY <1>20 DEF PollHit, Return, Finish
<1>21. ASSUME NEW c \in Callers, WaitedOut(c) PROVE WaitersInv'
  BY <1>21 DEF WaitedOut, LoopOver
<1>22. ASSUME NEW c \in Callers, Done(c) PROVE WaitersInv'
  BY <1>22 DEF Done, Raise, Finish
<1>23. ASSUME NEW c \in Callers, Compute(c) PROVE WaitersInv'
  BY <1>23 DEF Compute
<1>24. ASSUME NEW c \in Callers, ComputeFails(c) PROVE WaitersInv'
  BY <1>24 DEF ComputeFails, Raise, Finish
<1>25. ASSUME NEW c \in Callers, StoreL1(c) PROVE WaitersInv'
  BY <1>25 DEF StoreL1
<1>26. ASSUME NEW c \in Callers, StoreL2(c) PROVE WaitersInv'
  BY <1>26 DEF StoreL2, ValueForL2
<1>27. ASSUME NEW c \in Callers, JoinL1(c) PROVE WaitersInv'
  BY <1>27 DEF JoinL1, Join
<1>28. ASSUME NEW c \in Callers, JoinL2(c) PROVE WaitersInv'
  BY <1>28 DEF JoinL2, Join, SecondMember
<1>29. ASSUME NEW c \in Callers, ReturnComputed(c) PROVE WaitersInv'
  BY <1>29 DEF ReturnComputed, Return, Finish
<1>30. ASSUME NEW c \in Callers, Release(c) PROVE WaitersInv'
  <2>1. CASE out[c] \in Falsy /\ seen[c] = None
    BY <1>30, <2>1 DEF Release, Return, Finish
  <2>2. CASE ~(out[c] \in Falsy /\ seen[c] = None)
    BY <1>30, <2>2 DEF Release, Return, Finish
  <2>3. QED
    BY <2>1, <2>2
<1>31. ASSUME NEW c \in Callers, Crash(c) PROVE WaitersInv'
  BY <1>31 DEF Crash, Raise, Finish
<1>32. CASE UNCHANGED vars
  BY <1>32 DEF vars
<1>33. QED
  BY <1>1, <1>2, <1>3, <1>4, <1>5, <1>6, <1>7, <1>8, <1>9, <1>10, <1>11, <1>12, <1>13, <1>14,
     <1>15, <1>16, <1>17, <1>18, <1>19, <1>20, <1>21, <1>22, <1>23, <1>24, <1>25, <1>26, <1>27, <1>28, <1>29, <1>30, <1>31, <1>32
     DEF Next, Step, Invalidation

LEMMA Invariants ==
  Spec => [](TypeInv /\ Shape /\ GroupInv /\ Sweep /\ Fresh /\ OrderInv /\ WaitersInv)
<1>1. Init => GroupInv /\ Sweep /\ Fresh /\ OrderInv /\ WaitersInv
  BY GroupInit, FreshInit, OrderInit, WaitersInit
<1>2. Spec => [](TypeInv /\ Shape /\ GroupInv)
  BY ShapeInvariant, GroupInit, GroupStep, PTL DEF Spec
<1>3. Spec => [](TypeInv /\ Shape /\ GroupInv /\ Sweep /\ Fresh)
  BY <1>1, <1>2, SweepStep, FreshStep, PTL DEF Spec
<1>4. Spec => [](TypeInv /\ Shape /\ GroupInv /\ Sweep /\ Fresh /\ OrderInv)
  BY <1>1, <1>3, OrderStep, FreshPast, PTL DEF Spec
<1>5. QED
  BY <1>1, <1>4, WaitersStep, PTL DEF Spec

\* As long as the mutex protects the updates, the second level is never newer
\* than the first.
THEOREM LevelsInOrder == Spec => []OrderKept
<1>1. OrderInv => OrderKept
  BY DEF OrderInv, OrderKept
<1>2. QED
  BY <1>1, Invariants, PTL

\* If nothing fails or is deleted, nobody goes to the database without the mutex.
THEOREM NobodyWaitsInVain == Spec => []WaitersServed
<1>1. WaitersInv => WaitersServed
  BY DEF WaitersInv, WaitersServed
<1>2. QED
  BY <1>1, Invariants, PTL

-----------------------------------------------------------------------------
(* The cache implements CachedValue.                                       *)

Results == [c \in Callers |-> IF pc[c] = "done" THEN out[c] ELSE None]

\* A step of one caller changes no result but its own.
LEMMA OwnResult ==
  ASSUME TypeInv, NEW c \in Callers, NEW step, NEW v,
         pc' = [pc EXCEPT ![c] = step], out' = [out EXCEPT ![c] = v]
  PROVE  Results' = [Results EXCEPT ![c] = IF step = "done" THEN v ELSE None]
BY DEF TypeInv, TypeOK, Results

\* A caller that has not returned has no result, whatever it computes.
LEMMA Silent ==
  ASSUME TypeInv, NEW c \in Callers, NEW step, step # "done", pc[c] # "done",
         pc' = [pc EXCEPT ![c] = step],
         \A d \in Callers \ {c} : out'[d] = out[d]
  PROVE  Results' = Results
BY DEF TypeInv, TypeOK, Results

LEMMA Answers ==
  ASSUME TypeInv, NEW c \in Callers, pc[c] # "done", NEW v \in Nat,
         need[c] <= v, v <= db, Finish(c, "done", v), UNCHANGED <<db, floor, need>>
  PROVE  Value!Answer(c)
<1>1. Results[c] = None /\ v \in need[c]..db
  BY DEF Results, TypeInv, TypeOK
<1>2. Results' = [Results EXCEPT ![c] = v]
  BY OwnResult DEF Finish, Goto
<1>3. QED
  BY <1>1, <1>2 DEF Value!Answer, Value!Nothing, Results

LEMMA Ends ==
  ASSUME TypeInv, NEW c \in Callers, Raise(c), UNCHANGED <<db, floor>>
  PROVE  Value!End(c)
<1>1. Results' = [Results EXCEPT ![c] = None]
  BY OwnResult DEF Raise, Finish, Goto
<1>2. QED
  BY <1>1 DEF Raise, Value!End, Value!Nothing, Results

LEMMA ValueStep ==
  ASSUME TypeInv, Shape, Fresh, [Next]_vars
  PROVE  Value!Next \/ UNCHANGED <<db, floor, need, Results>>
<1> USE DEF setting, keys, lock, call, wstate, history
<1>1. CASE Write
  BY <1>1 DEF Write, Value!Next, Value!Write
<1>2. CASE DeleteKey \/ DeleteL2 \/ DeleteMembers \/ DeleteScanned
  <2>1. floor' \in {db, floor} /\ UNCHANGED <<db, need, pc, out>>
    BY <1>2 DEF DeleteKey, DeleteL2, DeleteMembers, DeleteScanned, Invalidated
  <2>2. QED
    BY <2>1 DEF Value!Next, Value!Promise, Results
<1>3. CASE Leave \/ DeleteL1 \/ ReadMembers \/ Scan \/ ExpireL1 \/ ExpireL2 \/ Tick \/ UNCHANGED vars
  BY <1>3 DEF Leave, DeleteL1, ReadMembers, Scan, ExpireL1, ExpireL2, Tick, vars, Results
<1>4. ASSUME NEW c \in Callers, HitL1(c) PROVE Value!Serve(c)
  <2>1. l1 \in floor..db
    BY <1>4 DEF HitL1, TypeInv, TypeOK, Fresh, Between
  <2>2. Results' = [Results EXCEPT ![c] = l1]
    BY <1>4, OwnResult DEF HitL1, Begin, Goto
  <2>3. QED
    BY <1>4, <2>1, <2>2 DEF HitL1, Begin, Value!Serve, Results
<1>5. ASSUME NEW c \in Callers, MissL1(c) \/ ForceRefresh(c) PROVE Value!Begin(c)
  <2>1. /\ pc[c] # "done" /\ UNCHANGED <<db, floor, out>>
        /\ need' = [need EXCEPT ![c] = floor]
        /\ pc' = [pc EXCEPT ![c] = "compute"] \/ pc' = [pc EXCEPT ![c] = "l2"]
    BY <1>5 DEF MissL1, ForceRefresh, Begin, Goto
  <2>2. Results' = Results
    BY <2>1, Silent
  <2>3. QED
    BY <2>1, <2>2 DEF Value!Begin, Results
<1>6. ASSUME NEW c \in Callers,
             \/ ReadL2(c) \/ TakeMutex(c) \/ StartPolling(c) \/ WaitedOut(c)
             \/ StoreL1(c) \/ StoreL2(c) \/ JoinL1(c) \/ JoinL2(c)
      PROVE  UNCHANGED <<db, floor, need, Results>>
  <2>1. /\ pc[c] # "done" /\ UNCHANGED <<db, floor, need, out>>
        /\ \E step \in Steps \ {"done"} : pc' = [pc EXCEPT ![c] = step]
    BY <1>6 DEF ReadL2, TakeMutex, StartPolling, WaitedOut, StoreL1, StoreL2, JoinL1,
                JoinL2, Join, Goto, Steps
  <2>2. QED
    BY <2>1, Silent
<1>7. ASSUME NEW c \in Callers, Compute(c) PROVE UNCHANGED <<db, floor, need, Results>>
  BY <1>7, Silent DEF Compute, Goto, TypeInv, TypeOK
<1>8. ASSUME NEW c \in Callers, ServeL2(c) \/ PollHit(c) \/ ReturnComputed(c)
      PROVE  Value!Answer(c)
  <2>1. \E v \in Nat : /\ need[c] <= v /\ v <= db /\ pc[c] # "done"
                       /\ Finish(c, "done", v)
    BY <1>8 DEF ServeL2, PollHit, ReturnComputed, Return, TypeInv, TypeOK, Shape, Computed,
                Fresh, Between
  <2>2. UNCHANGED <<db, floor, need>>
    BY <1>8 DEF ServeL2, PollHit, ReturnComputed, Return
  <2>3. QED
    BY <2>1, <2>2, Answers
<1>9. ASSUME NEW c \in Callers, Release(c)
      PROVE  Value!Answer(c) \/ UNCHANGED <<db, floor, need, Results>>
  <2>1. CASE out[c] \in Falsy /\ seen[c] = None
    BY <1>9, <2>1, Silent DEF Release, Goto, TypeInv, TypeOK
  <2>2. CASE ~(out[c] \in Falsy /\ seen[c] = None)
    <3>1. \E v \in Nat : /\ need[c] <= v /\ v <= db /\ pc[c] # "done"
                         /\ Finish(c, "done", v)
      BY <1>9, <2>2 DEF Release, Return, TypeInv, TypeOK, Shape, Computed, Fresh, Between
    <3>2. UNCHANGED <<db, floor, need>>
      BY <1>9, <2>2 DEF Release, Return
    <3>3. QED
      BY <3>1, <3>2, Answers
  <2>3. QED
    BY <2>1, <2>2
<1>10. ASSUME NEW c \in Callers, Done(c) \/ ComputeFails(c) \/ Crash(c) PROVE Value!End(c)
  BY <1>10, Ends DEF Done, ComputeFails, Crash
<1>11. QED
  BY <1>1, <1>2, <1>3, <1>4, <1>5, <1>6, <1>7, <1>8, <1>9, <1>10
     DEF Next, Step, Invalidation, Value!Next

\* A call that begins after an invalidation is never given an older value, if no older
\* refresh was in flight when the invalidation looked: the cache implements CachedValue.
THEOREM Refinement == Spec => ImplementsCachedValue
<1>1. Init => Value!Init
  BY DEF Init, Value!Init, Value!Nothing
<1>2. TypeInv /\ Shape /\ Fresh /\ [Next]_vars => [Value!Next]_(Value!vars)
  BY ValueStep DEF Value!vars, Results
<1>3. QED
  BY <1>1, <1>2, Invariants, PTL DEF Spec, ImplementsCachedValue, Value!Spec

==============================================================================
