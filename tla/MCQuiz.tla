-------------------------------- MODULE MCQuiz --------------------------------
(* Instances of Quiz for TLC.                                              *)
EXTENDS Quiz, TLC

CONSTANTS w1, w2

MCWorkers == {w1, w2}
MCEither  == {FALSE, TRUE}
MCOverlap == {TRUE}
MCDefault == [enabled |-> FALSE, questions |-> 0, passing |-> 0, shortCircuit |-> TRUE]

\* Two questions of which one is to be right, three of which two, and one for
\* which any answer will do.
MCConfigs ==
  {[enabled |-> TRUE, questions |-> 3, passing |-> 2, shortCircuit |-> TRUE],
   [enabled |-> TRUE, questions |-> 2, passing |-> 1, shortCircuit |-> FALSE],
   [enabled |-> FALSE, questions |-> 1, passing |-> 0, shortCircuit |-> TRUE]}

MCSymmetry == Permutations(MCWorkers)
===============================================================================
