\* A request with an old copy of the quiz overwrites the verdict.
CONSTANTS
  w1 = w1  w2 = w2
  NoQuiz = NoQuiz
  Workers <- MCWorkers
  Configs <- MCConfigs
  Default <- MCDefault
  MaxAnswers = 3
  MaxSaves = 2
  Modes <- MCOverlap
SYMMETRY MCSymmetry
SPECIFICATION Spec
PROPERTIES FailureStands
CHECK_DEADLOCK FALSE
