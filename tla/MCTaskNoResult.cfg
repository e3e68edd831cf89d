\* Two users commit the last two answers side by side.
CONSTANTS
  u1 = u1  u2 = u2  u3 = u3  r1 = r1  r2 = r2  r3 = r3
  Owner = Owner
  Nobody = Nobody
  Users <- MCTwoUsers
  Requests <- MCTwoRequests
  UserOf <- MCTwoEach
  InitialAnswers = 2
  Redundancies <- MCNone
  Matched = TRUE
  Resets = FALSE
  Crashes = FALSE
  Kinds = {FALSE}
  Published = TRUE
  Timely = TRUE
SPECIFICATION Spec
INVARIANTS CompletedHasResult
