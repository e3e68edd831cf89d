----------------------------- MODULE CachedValue -----------------------------
(***************************************************************************)
(* What a caller may expect of a memoized function of pybossa: the value   *)
(* it is given was the database's at some time, and not at a time before   *)
(* the last invalidation that took effect when the call began.             *)
(***************************************************************************)
EXTENDS Integers

CONSTANT Callers

VARIABLES
  version,  \* the database's current version of the value
  floor,    \* the version that a call that begins now may rely on
  need,     \* the version that each call in progress may rely on
  result    \* the version that a call has returned, or Nothing

vars == <<version, floor, need, result>>

Nothing == -1

Init ==
  /\ version = 0 /\ floor = 0
  /\ need = [c \in Callers |-> 0]
  /\ result = [c \in Callers |-> Nothing]

Write == version' = version + 1 /\ UNCHANGED <<floor, need, result>>

\* An invalidation takes effect.
Promise == floor' = version /\ UNCHANGED <<version, need, result>>

Begin(c) ==
  /\ need' = [need EXCEPT ![c] = floor]
  /\ UNCHANGED <<version, floor, result>>

Answer(c) ==
  /\ result[c] = Nothing
  /\ \E v \in need[c]..version : result' = [result EXCEPT ![c] = v]
  /\ UNCHANGED <<version, floor, need>>

\* A call that is answered at once.
Serve(c) ==
  /\ need' = [need EXCEPT ![c] = floor]
  /\ \E v \in floor..version : result' = [result EXCEPT ![c] = v]
  /\ UNCHANGED <<version, floor>>

\* A call is over: its caller has the value, or an exception.
End(c) ==
  /\ need' = [need EXCEPT ![c] = 0]
  /\ result' = [result EXCEPT ![c] = Nothing]
  /\ UNCHANGED <<version, floor>>

Next == Write \/ Promise \/ \E c \in Callers : Begin(c) \/ Answer(c) \/ Serve(c) \/ End(c)

Spec == Init /\ [][Next]_vars
==============================================================================
