------------------------------ MODULE Semaphore ------------------------------
(***************************************************************************)
(* What redis_lock.LockManager promises for one resource: a semaphore.  A  *)
(* unit is taken by one client at a time, and only when one is left; units *)
(* may go back at any moment, several at once, because a lock ends by a    *)
(* release, by its expiration or with its Redis key.                       *)
(***************************************************************************)
EXTENDS Integers, FiniteSets

CONSTANT Clients

VARIABLES
  holders,   \* clients that hold a unit
  capacity   \* number of units

Init == holders = {} /\ capacity \in Nat

Take(c) ==
  /\ c \notin holders
  /\ Cardinality(holders) < capacity
  /\ holders' = holders \cup {c}

Drop == \E gone \in SUBSET holders : gone # {} /\ holders' = holders \ gone

Next == (Drop \/ \E c \in Clients : Take(c)) /\ UNCHANGED capacity

Spec == Init /\ [][Next]_<<holders, capacity>>
==============================================================================
