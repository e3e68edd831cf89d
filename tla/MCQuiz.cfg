\* A user with two tabs and an owner who changes the quiz; requests that overlap or not.
CONSTANTS
  w1 = w1  w2 = w2
  NoQuiz = NoQuiz
  Workers <- MCWorkers
  Configs <- MCConfigs
  Default <- MCDefault
  MaxAnswers = 3
  MaxSaves = 2
  Modes <- MCEither
SYMMETRY MCSymmetry
SPECIFICATION Spec
INVARIANTS TypeOK VerdictJustified QuizEnds AnswersCounted
CHECK_DEADLOCK FALSE
