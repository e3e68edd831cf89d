\* The owner changes the redundancy of a task, golden or not, and resets while answers arrive; workers may die.
CONSTANTS
  u1 = u1  u2 = u2  u3 = u3  r1 = r1  r2 = r2  r3 = r3
  Owner = Owner
  Nobody = Nobody
  Users <- MCTwoUsers
  Requests <- MCTwoRequests
  UserOf <- MCTwoEach
  InitialAnswers = 1
  Redundancies <- MCOneOrTwo
  Matched = TRUE
  Resets = TRUE
  Crashes = TRUE
  Kinds = {FALSE, TRUE}
  Published = TRUE
  Timely = FALSE
SPECIFICATION Spec
INVARIANTS OneLastVersion GoldStaysOpen NoDeadlock
VIEW MCView
