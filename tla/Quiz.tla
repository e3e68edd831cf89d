--------------------------------- MODULE Quiz ---------------------------------
(***************************************************************************)
(* The quiz of one user in one project (pybossa/model/user.py): golden     *)
(* tasks are handed out until enough right answers pass the user or too    *)
(* many wrong ones fail him.  The quiz is a part of the JSON document      *)
(* user.info: every request reads the user's row, changes its own copy and *)
(* writes the whole document back, with nothing to stop another request of *)
(* the user, or one of the project's owner, in between.                    *)
(***************************************************************************)
EXTENDS Integers

CONSTANTS
  Workers,      \* web workers that serve the user's requests
  Configs,      \* quiz settings the form lets the owner save
  Default,      \* settings of a project that has none
  NoQuiz,       \* the user has no quiz in this project
  MaxAnswers,   \* bound on the answers the user sends
  MaxSaves,     \* bound on the times the owner posts the form
  Modes         \* may the requests overlap: FALSE, TRUE or either

Settings == [enabled : BOOLEAN, questions : Nat, passing : Nat, shortCircuit : BOOLEAN]
Statuses == {"not_started", "in_progress", "passed", "failed"}
Quizzes  == [status : Statuses, right : Nat, wrong : Nat, config : Settings]

\* ProjectQuizForm: at least one question, and not more to pass than there are.
ASSUME QuizConstants ==
  /\ \A c \in Configs : c \in Settings /\ c.questions > 0 /\ c.passing <= c.questions
  /\ Default \in Settings /\ ~Default.enabled
  /\ NoQuiz \notin Quizzes
  /\ MaxAnswers \in Nat /\ MaxSaves \in Nat
  /\ Modes \subseteq BOOLEAN

VARIABLES
  overlap,    \* requests that write the user's row may overlap
  config,     \* project.info['quiz']
  row,        \* user.info['quiz'][project.id] in the database
  answered,   \* number of task runs of the user in the project
  pc,         \* next step of each worker
  copy,       \* the quiz as each worker's request has read it
  right,      \* the answer each worker grades is right
  ownerPc,    \* next step of the owner's request
  ownerCopy,  \* the quiz as the owner's request has read it
  ask,        \* what the owner asks for the user: reset, enabled
  saves,      \* number of times the owner has posted the form
  given,      \* history: answers stored while the quiz was in progress
  reopened    \* history: the owner has restarted a quiz without a reset

user  == <<row, answered>>
post  == <<copy, right>>
owner == <<ownerPc, ownerCopy, ask, saves>>
vars  == <<overlap, config, user, pc, post, owner, given, reopened>>

NoAsk == [reset |-> FALSE, enabled |-> FALSE]

\* Every variable has its type.
TypeOK ==
  /\ overlap \in BOOLEAN
  /\ config \in Configs \cup {Default}
  /\ row \in Quizzes \cup {NoQuiz}
  /\ answered \in Nat
  /\ pc \in [Workers -> {"idle", "asked", "grade", "save"}]
  /\ copy \in [Workers -> Quizzes \cup {NoQuiz}]
  /\ right \in [Workers -> BOOLEAN]
  /\ ownerPc \in {"idle", "read", "write"}
  /\ ownerCopy \in Quizzes \cup {NoQuiz}
  /\ ask \in [reset : BOOLEAN, enabled : BOOLEAN]
  /\ saves \in Nat
  /\ given \in [right : Nat, wrong : Nat]
  /\ reopened \in BOOLEAN

Init ==
  /\ overlap \in Modes
  /\ config \in Configs \cup {Default}
  /\ row = NoQuiz /\ answered = 0
  /\ pc = [w \in Workers |-> "idle"]
  /\ copy = [w \in Workers |-> NoQuiz] /\ right = [w \in Workers |-> FALSE]
  /\ ownerPc = "idle" /\ ownerCopy = NoQuiz /\ ask = NoAsk /\ saves = 0
  /\ given = [right |-> 0, wrong |-> 0] /\ reopened = FALSE

AtRest == ownerPc = "idle" /\ \A w \in Workers : pc[w] = "idle"
MayBegin == overlap \/ AtRest

-----------------------------------------------------------------------------
(* The methods of User, on a copy of the quiz.                             *)

\* Mutant of Fresh: no snapshot of the settings is taken.
FreshNoSettings == [status |-> "not_started", right |-> 0, wrong |-> 0]
Fresh == [status |-> "not_started", right |-> 0, wrong |-> 0, config |-> config]

\* get_quiz_for_project: the first use takes a snapshot of the settings.
QuizOf(q) == IF q = NoQuiz THEN Fresh ELSE q

\* Mutant of Verdict: a quiz fails only when its questions are used up.
VerdictAtEnd(q) ==
  IF q.right >= q.config.passing THEN "passed"
  ELSE IF q.wrong >= q.config.questions THEN "failed" ELSE q.status

\* What update_quiz_status finds, whether or not the quiz may end with it.
Verdict(q) ==
  IF q.right >= q.config.passing THEN "passed"
  ELSE IF q.wrong > q.config.questions - q.config.passing THEN "failed" ELSE q.status

\* Mutant of MayEnd: every quiz ends with the verdict.
MayEndAlways(q) == TRUE
MayEnd(q) == q.config.shortCircuit \/ q.right + q.wrong >= q.config.questions

\* add_quiz_right_answer, add_quiz_wrong_answer
Graded(q, isRight) ==
  LET counted == IF isRight THEN [q EXCEPT !.right = @ + 1] ELSE [q EXCEPT !.wrong = @ + 1]
  IN  IF MayEnd(counted) THEN [counted EXCEPT !.status = Verdict(counted)] ELSE counted

Goto(w, step) == pc' = [pc EXCEPT ![w] = step]
Finish(w) ==
  /\ Goto(w, "idle")
  /\ copy' = [copy EXCEPT ![w] = NoQuiz] /\ right' = [right EXCEPT ![w] = FALSE]

-----------------------------------------------------------------------------
(* GET newtask.  Which task the scheduler hands out, a golden one while the  *)
(* quiz is in progress, leaves the quiz as it is.                          *)

\* A user who failed the quiz is handed no task, and nothing is saved.
AskTask(w) ==
  /\ pc[w] = "idle" /\ MayBegin
  /\ QuizOf(row).status # "failed"
  /\ copy' = [copy EXCEPT ![w] = QuizOf(row)]
  /\ Goto(w, "asked")
  /\ UNCHANGED <<overlap, config, user, right, owner, given, reopened>>

Starts(q) == q.status = "not_started" /\ q.config.enabled /\ answered = 0

\* The user is always updated, whether or not the quiz starts.
SaveQuiz(w) ==
  /\ pc[w] = "asked"
  /\ row' = IF Starts(copy[w]) THEN [copy[w] EXCEPT !.status = "in_progress"] ELSE copy[w]
  /\ Finish(w)
  /\ UNCHANGED <<overlap, config, answered, owner, given, reopened>>

-----------------------------------------------------------------------------
(* POST /api/taskrun.                                                      *)

Note(isRight) ==
  IF QuizOf(row).status # "in_progress" THEN given
  ELSE IF isRight THEN [given EXCEPT !.right = @ + 1] ELSE [given EXCEPT !.wrong = @ + 1]

\* The answer is committed; it is right when it equals the gold answers of its
\* task.
Answer(w) ==
  /\ pc[w] = "idle" /\ MayBegin
  /\ answered < MaxAnswers
  /\ \E isRight \in BOOLEAN :
       /\ right' = [right EXCEPT ![w] = isRight]
       /\ given' = Note(isRight)
  /\ answered' = answered + 1
  /\ Goto(w, "grade")
  /\ UNCHANGED <<overlap, config, row, copy, owner, reopened>>

\* Mutant of ReadQuiz: a decided quiz is graded on.
ReadAnyQuiz(w) ==
  /\ pc[w] = "grade"
  /\ Goto(w, "save") /\ copy' = [copy EXCEPT ![w] = QuizOf(row)] /\ UNCHANGED right
  /\ UNCHANGED <<overlap, config, user, owner, given, reopened>>

\* update_quiz reads the user ...
ReadQuiz(w) ==
  /\ pc[w] = "grade"
  /\ IF QuizOf(row).status = "in_progress"
     THEN Goto(w, "save") /\ copy' = [copy EXCEPT ![w] = QuizOf(row)] /\ UNCHANGED right
     ELSE Finish(w)
  /\ UNCHANGED <<overlap, config, user, owner, given, reopened>>

\* ... and writes the quiz back with one answer more.
GradeAnswer(w) ==
  /\ pc[w] = "save"
  /\ row' = Graded(copy[w], right[w])
  /\ Finish(w)
  /\ UNCHANGED <<overlap, config, answered, owner, given, reopened>>

-----------------------------------------------------------------------------
(* The owner posts the quiz form, which lists the users that have a quiz.  *)

UnchangedByOwner == <<overlap, answered, pc, post>>

SaveSettings ==
  /\ ownerPc = "idle" /\ MayBegin
  /\ saves < MaxSaves /\ saves' = saves + 1
  /\ config' \in Configs
  /\ \/ ownerPc' = "idle" /\ UNCHANGED ask
     \/ /\ row # NoQuiz
        /\ ownerPc' = "read" /\ ask' \in [reset : BOOLEAN, enabled : BOOLEAN]
  /\ UNCHANGED <<row, ownerCopy, given, reopened, UnchangedByOwner>>

ReadUser ==
  /\ ownerPc = "read"
  /\ ownerCopy' = row
  /\ ownerPc' = "write"
  /\ UNCHANGED <<config, row, ask, saves, given, reopened, UnchangedByOwner>>

\* reset_quiz, then a new snapshot; a quiz that is enabled is in progress again.
ChangeQuiz ==
  LET q == IF ask.reset THEN Fresh ELSE QuizOf(ownerCopy)
  IN  [q EXCEPT !.status = IF ask.enabled THEN "in_progress" ELSE q.status,
                !.config.enabled = ask.enabled]

EndSave == ownerPc' = "idle" /\ ownerCopy' = NoQuiz /\ ask' = NoAsk /\ UNCHANGED saves

WriteUser ==
  /\ ownerPc = "write"
  /\ row' = ChangeQuiz
  /\ given' = IF ask.reset THEN [right |-> 0, wrong |-> 0] ELSE given
  /\ reopened' = (reopened \/ (ask.enabled /\ ~ask.reset))
  /\ EndSave
  /\ UNCHANGED <<config, UnchangedByOwner>>

\* release_user_locks_for_project raises for the lock of a deleted task: the
\* settings are saved, the user's row is not.
ResetFails ==
  /\ ownerPc = "write" /\ ask.reset
  /\ EndSave
  /\ UNCHANGED <<config, row, given, reopened, UnchangedByOwner>>

Serve(w) ==
  \/ AskTask(w) \/ SaveQuiz(w)
  \/ Answer(w) \/ ReadQuiz(w) \/ GradeAnswer(w)

Next ==
  \/ \E w \in Workers : Serve(w)
  \/ SaveSettings \/ ReadUser \/ WriteUser \/ ResetFails

Spec == Init /\ [][Next]_vars

-----------------------------------------------------------------------------
(* Properties.                                                             *)

\* A verdict stands on the answers in the quiz and on the settings the user
\* began with: whatever the owner saves and whichever copies overwrite each
\* other, a user has passed or failed only with the counts that say so, and a
\* quiz of all questions is decided only after all of them.
VerdictJustified ==
  row # NoQuiz =>
    /\ row.status = "passed" => row.right >= row.config.passing
    /\ row.status = "failed" => row.wrong > row.config.questions - row.config.passing
    /\ row.status \in {"passed", "failed"} /\ ~row.config.shortCircuit
         => row.right + row.wrong >= row.config.questions

\* A quiz comes to an end: it asks no more questions than it was set up with,
\* and is in progress only while some are left, unless the owner has restarted
\* it without a reset.
QuizEnds ==
  (row # NoQuiz /\ ~reopened) =>
    /\ row.right + row.wrong <= row.config.questions
    /\ row.status = "in_progress" => row.right + row.wrong < row.config.questions

\* When requests do not overlap, the counts of a quiz are those of the answers
\* stored while it was in progress, across restarts, resets and failed resets.
AnswersCounted ==
  ~overlap /\ AtRest /\ row # NoQuiz => row.right = given.right /\ row.wrong = given.wrong

Failed == row # NoQuiz /\ row.status = "failed"

\* A failed quiz is not touched again unless the owner does ("Test exception
\* raised when updating results for quiz that has already failed").
FailureStands == [][Failed /\ ~WriteUser => row' = row]_vars
===============================================================================
