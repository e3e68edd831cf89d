------------------------------ MODULE Collection ------------------------------
(***************************************************************************)
(* What a project may expect of a task whose redundancy stays as it is:    *)
(* answers come one by one until there are as many as the task asks for,   *)
(* and stay; the task is completed once, with all of them; and what a      *)
(* consumer is given of a completed task is all that there will ever be.   *)
(***************************************************************************)
EXTENDS Integers, FiniteSets

CONSTANT Answers

VARIABLES
  answers,    \* answers collected
  required,   \* how many the task asks for
  completed,  \* the task is completed
  given       \* what the consumer was given last

vars == <<answers, required, completed, given>>

Init ==
  /\ answers = {} /\ given = {}
  /\ required \in Nat \ {0}
  /\ completed = FALSE

Enough(A) == Cardinality(A) >= required

\* The last answer may complete the task.
Collect(a) ==
  /\ a \notin answers /\ ~completed /\ ~Enough(answers)
  /\ answers' = answers \cup {a}
  /\ completed' \in BOOLEAN
  /\ completed' => Enough(answers')
  /\ UNCHANGED <<required, given>>

Complete ==
  /\ Enough(answers)
  /\ completed' = TRUE
  /\ UNCHANGED <<answers, required, given>>

Deliver ==
  /\ completed
  /\ given' = answers
  /\ UNCHANGED <<answers, required, completed>>

Next == Complete \/ Deliver \/ \E a \in Answers : Collect(a)

Spec == Init /\ [][Next]_vars
==============================================================================
