\* Three users, two answers asked for, locks that outlive what they protect; the owner changes other tasks.
CONSTANTS
  u1 = u1  u2 = u2  u3 = u3  r1 = r1  r2 = r2  r3 = r3
  Owner = Owner
  Nobody = Nobody
  Users <- MCThreeUsers
  Requests <- MCThreeRequests
  UserOf <- MCOneEach
  InitialAnswers = 2
  Redundancies <- MCOneOrTwo
  Matched = FALSE
  Resets = FALSE
  Crashes = FALSE
  Kinds = {FALSE}
  Published = TRUE
  Timely = TRUE
SPECIFICATION FairSpec
INVARIANTS TypeOK NotOverAnswered CompletedMeansAnswered AnsweredIsCompleted AnnouncedOnce ExportCovers
PROPERTIES AnsweredCompletes ImplementsCollection
