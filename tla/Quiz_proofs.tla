----------------------------- MODULE Quiz_proofs -----------------------------
(***************************************************************************)
(* Theorems about Quiz for every number of workers, all settings and every *)
(* schedule of the requests.                                               *)
(***************************************************************************)
EXTENDS Quiz, TLAPS

-----------------------------------------------------------------------------
(* The operators on quizzes.                                               *)

LEMMA ConfigType == TypeOK => config \in Settings
BY QuizConstants DEF TypeOK

LEMMA FreshType == TypeOK => Fresh \in Quizzes
BY ConfigType DEF Fresh, Quizzes, Statuses

LEMMA QuizOfType ==
  ASSUME TypeOK, NEW q \in Quizzes \cup {NoQuiz}
  PROVE  QuizOf(q) \in Quizzes
BY FreshType DEF QuizOf

LEMMA GradedType ==
  ASSUME NEW q \in Quizzes, NEW isRight \in BOOLEAN
  PROVE  Graded(q, isRight) \in Quizzes
<1> DEFINE counted == IF isRight THEN [q EXCEPT !.right = @ + 1] ELSE [q EXCEPT !.wrong = @ + 1]
<1>1. counted \in Quizzes
  BY DEF Quizzes
<1> HIDE DEF counted
<1>2. Verdict(counted) \in Statuses
  BY <1>1 DEF Verdict, Quizzes, Statuses
<1>3. [counted EXCEPT !.status = Verdict(counted)] \in Quizzes
  BY <1>1, <1>2 DEF Quizzes
<1>4. Graded(q, isRight) = IF MayEnd(counted)
                           THEN [counted EXCEPT !.status = Verdict(counted)] ELSE counted
  BY DEF Graded, counted
<1>5. QED
  BY <1>1, <1>3, <1>4

LEMMA ChangeType == TypeOK => ChangeQuiz \in Quizzes
<1> SUFFICES ASSUME TypeOK PROVE ChangeQuiz \in Quizzes
  OBVIOUS
<1> DEFINE q == IF ask.reset THEN Fresh ELSE QuizOf(ownerCopy)
<1>1. q \in Quizzes
  BY FreshType, QuizOfType DEF TypeOK
<1>2. ask.enabled \in BOOLEAN
  BY DEF TypeOK
<1> HIDE DEF q
<1>3. [q EXCEPT !.status = IF ask.enabled THEN "in_progress" ELSE q.status,
                !.config.enabled = ask.enabled] \in Quizzes
  BY <1>1, <1>2 DEF Quizzes, Statuses, Settings
<1>4. QED
  BY <1>3 DEF ChangeQuiz, q

-----------------------------------------------------------------------------
(* Type correctness: a request writes back only what it has read.          *)

HasRead == \A w \in Workers : pc[w] \in {"asked", "save"} => copy[w] # NoQuiz
TypeInv == TypeOK /\ HasRead

LEMMA TypeInit == Init => TypeOK
<1> SUFFICES ASSUME Init PROVE TypeOK
  OBVIOUS
<1>1. overlap \in BOOLEAN /\ reopened \in BOOLEAN
  BY QuizConstants, Zenon DEF Init
<1>2. /\ pc \in [Workers -> {"idle", "asked", "grade", "save"}]
      /\ copy \in [Workers -> Quizzes \cup {NoQuiz}] /\ right \in [Workers -> BOOLEAN]
  BY DEF Init
<1>3. /\ config \in Configs \cup {Default} /\ row \in Quizzes \cup {NoQuiz}
      /\ answered \in Nat /\ ownerPc \in {"idle", "read", "write"}
      /\ ownerCopy \in Quizzes \cup {NoQuiz} /\ saves \in Nat
  BY DEF Init
<1>4. ask \in [reset : BOOLEAN, enabled : BOOLEAN] /\ given \in [right : Nat, wrong : Nat]
  BY DEF Init, NoAsk
<1>5. QED
  BY <1>1, <1>2, <1>3, <1>4 DEF TypeOK

LEMMA TypeStep == TypeInv /\ [Next]_vars => TypeInv'
<1> SUFFICES ASSUME TypeInv, [Next]_vars PROVE TypeInv'
  OBVIOUS
<1> USE DEF TypeInv, TypeOK, HasRead, Goto, user, post, owner
<1>1. ASSUME NEW w \in Workers, AskTask(w) PROVE TypeInv'
  BY <1>1, QuizOfType, QuizConstants DEF AskTask
<1>2. ASSUME NEW w \in Workers, SaveQuiz(w) PROVE TypeInv'
  <2>1. copy[w] \in Quizzes
    BY <1>2 DEF SaveQuiz
  <2>2. row' \in Quizzes
    BY <1>2, <2>1 DEF SaveQuiz, Quizzes, Statuses
  <2>3. QED
    BY <1>2, <2>2 DEF SaveQuiz, Finish
<1>3. ASSUME NEW w \in Workers, Answer(w) PROVE TypeInv'
  <2>1. given' \in [right : Nat, wrong : Nat]
    BY <1>3 DEF Answer, Note
  <2>2. QED
    BY <1>3, <2>1 DEF Answer
<1>4. ASSUME NEW w \in Workers, ReadQuiz(w) PROVE TypeInv'
  <2>1. QuizOf(row) \in Quizzes /\ QuizOf(row) # NoQuiz
    BY QuizOfType, QuizConstants
  <2>2. CASE Finish(w)
    BY <1>4, <2>1, <2>2 DEF ReadQuiz, Finish
  <2>3. CASE ~Finish(w)
    BY <1>4, <2>1, <2>3 DEF ReadQuiz
  <2>4. QED
    BY <2>2, <2>3
<1>5. ASSUME NEW w \in Workers, GradeAnswer(w) PROVE TypeInv'
  <2>1. copy[w] \in Quizzes /\ right[w] \in BOOLEAN
    BY <1>5 DEF GradeAnswer
  <2>2. row' \in Quizzes
    BY <1>5, <2>1, GradedType DEF GradeAnswer
  <2>3. QED
    BY <1>5, <2>2 DEF GradeAnswer, Finish
<1>6. CASE SaveSettings
  BY <1>6 DEF SaveSettings, UnchangedByOwner
<1>7. CASE ReadUser
  BY <1>7 DEF ReadUser, UnchangedByOwner
<1>8. CASE WriteUser
  BY <1>8, ChangeType DEF WriteUser, EndSave, NoAsk, UnchangedByOwner
<1>9. CASE ResetFails
  BY <1>9 DEF ResetFails, EndSave, NoAsk, UnchangedByOwner
<1>10. CASE UNCHANGED vars
  BY <1>10 DEF vars
<1>11. QED
  BY <1>1, <1>2, <1>3, <1>4, <1>5, <1>6, <1>7, <1>8, <1>9, <1>10 DEF Next, Serve

LEMMA TypeInvariant == Spec => []TypeInv
<1>1. Init => HasRead
  BY DEF Init, HasRead
<1>2. QED
  BY <1>1, TypeInit, TypeStep, PTL DEF Spec, TypeInv

\* Type correctness: every request leaves a quiz of the right kind.
THEOREM TypeCorrect == Spec => []TypeOK
BY TypeInvariant, PTL DEF TypeInv

-----------------------------------------------------------------------------
(* The verdict, and the end of the quiz.                                   *)

\* What holds of the row, and of every copy that may overwrite it.
Sound(q) ==
  q # NoQuiz =>
    /\ q.status = "not_started" =>
         q.right = 0 /\ q.wrong = 0 /\ (q.config.enabled => q.config.questions > 0)
    /\ q.status = "passed" => q.right >= q.config.passing
    /\ q.status = "failed" => q.wrong > q.config.questions - q.config.passing
    /\ q.status \in {"passed", "failed"} /\ ~q.config.shortCircuit
         => q.right + q.wrong >= q.config.questions

Bounded(q) ==
  q # NoQuiz =>
    /\ q.right + q.wrong <= q.config.questions
    /\ q.status = "in_progress" => q.right + q.wrong < q.config.questions

Versions == {row, ownerCopy} \cup {copy[w] : w \in Workers}
Grading == \A w \in Workers : pc[w] = "save" => copy[w].status = "in_progress"
Saved == ownerPc # "idle" => config.questions > 0

Inv ==
  /\ TypeInv
  /\ Grading
  /\ Saved
  /\ \A q \in Versions : Sound(q) /\ (~reopened => Bounded(q))

LEMMA FreshSound == TypeOK => Sound(Fresh) /\ Bounded(Fresh)
<1> SUFFICES ASSUME TypeOK PROVE Sound(Fresh) /\ Bounded(Fresh)
  OBVIOUS
<1>1. config \in Settings /\ (config.enabled => config.questions > 0)
  BY QuizConstants DEF TypeOK
<1>2. QED
  BY <1>1 DEF Sound, Bounded, Fresh, Settings

LEMMA GradedSound ==
  ASSUME NEW q \in Quizzes, NEW isRight \in BOOLEAN, q.status = "in_progress", Sound(q)
  PROVE  Sound(Graded(q, isRight)) /\ (Bounded(q) => Bounded(Graded(q, isRight)))
<1> DEFINE counted == IF isRight THEN [q EXCEPT !.right = @ + 1] ELSE [q EXCEPT !.wrong = @ + 1]
           g == Graded(q, isRight)
<1>1. /\ counted \in Quizzes /\ counted.status = "in_progress"
      /\ counted.right + counted.wrong = q.right + q.wrong + 1
      /\ counted.config = q.config
  BY DEF Quizzes
<1>2. q # NoQuiz /\ counted # NoQuiz
  BY <1>1, QuizConstants
<1>3. g = IF MayEnd(counted) THEN [counted EXCEPT !.status = Verdict(counted)] ELSE counted
  BY DEF Graded
<1> HIDE DEF counted, g
<1>4. CASE ~MayEnd(counted)
  BY <1>1, <1>2, <1>3, <1>4 DEF MayEnd, Sound, Bounded, Quizzes, Settings, g
<1>5. CASE MayEnd(counted)
  <2>1. /\ g.right = counted.right /\ g.wrong = counted.wrong /\ g.config = q.config
        /\ g.status = Verdict(counted)
    BY <1>1, <1>3, <1>5 DEF Quizzes
  <2>2. /\ q.right \in Nat /\ q.wrong \in Nat /\ counted.right \in Nat /\ counted.wrong \in Nat
        /\ q.config.passing \in Nat /\ q.config.questions \in Nat
    BY <1>1 DEF Quizzes, Settings
  <2>3. Sound(g)
    BY <1>1, <1>5, <2>1, <2>2 DEF Sound, Verdict, MayEnd
  <2>4. Bounded(q) => Bounded(g)
    BY <1>1, <1>2, <2>1, <2>2 DEF Bounded, Verdict
  <2>5. QED
    BY <2>3, <2>4 DEF g
<1>6. QED
  BY <1>4, <1>5

LEMMA ChangeSound ==
  ASSUME TypeOK, Saved, ownerPc = "write", Sound(ownerCopy)
  PROVE  /\ Sound(ChangeQuiz)
         /\ Bounded(ownerCopy) /\ ~(ask.enabled /\ ~ask.reset) => Bounded(ChangeQuiz)
<1> DEFINE q == IF ask.reset THEN Fresh ELSE QuizOf(ownerCopy)
<1>1. q \in Quizzes /\ q # NoQuiz /\ Sound(q)
  BY FreshType, FreshSound, QuizOfType, QuizConstants DEF TypeOK, QuizOf
<1>2. ask.enabled \in BOOLEAN /\ ask.reset \in BOOLEAN
  BY DEF TypeOK
<1>3. Bounded(ownerCopy) => Bounded(q)
  BY FreshSound DEF QuizOf
<1>4. ask.reset => q.right = 0 /\ q.wrong = 0 /\ q.config.questions > 0
  BY DEF Fresh, Saved
<1>5. ChangeQuiz = [q EXCEPT !.status = IF ask.enabled THEN "in_progress" ELSE q.status,
                             !.config.enabled = ask.enabled]
  BY DEF ChangeQuiz
<1> HIDE DEF q
<1>6. /\ ChangeQuiz.right = q.right /\ ChangeQuiz.wrong = q.wrong
      /\ ChangeQuiz.status = IF ask.enabled THEN "in_progress" ELSE q.status
      /\ ChangeQuiz.config.enabled = ask.enabled
      /\ ChangeQuiz.config.questions = q.config.questions
      /\ ChangeQuiz.config.passing = q.config.passing
      /\ ChangeQuiz.config.shortCircuit = q.config.shortCircuit
  BY <1>1, <1>5 DEF Quizzes, Settings
<1>7. Sound(ChangeQuiz)
  BY <1>1, <1>2, <1>6 DEF Sound
<1>8. Bounded(ownerCopy) /\ ~(ask.enabled /\ ~ask.reset) => Bounded(ChangeQuiz)
  BY <1>1, <1>2, <1>3, <1>4, <1>6 DEF Bounded, Quizzes, Settings
<1>9. QED
  BY <1>7, <1>8

LEMMA InvInit == Init => Inv
<1> SUFFICES ASSUME Init PROVE Inv
  OBVIOUS
<1>1. TypeInv
  BY TypeInit DEF TypeInv, HasRead, Init
<1>2. Grading /\ Saved
  BY DEF Grading, Saved, Init
<1>3. \A q \in Versions : q = NoQuiz
  BY DEF Versions, Init
<1>4. QED
  BY <1>1, <1>2, <1>3 DEF Inv, Sound, Bounded

\* A step that only copies quizzes, or adds one, leaves all of them sound.
LEMMA VersionsStep ==
  ASSUME \A q \in Versions : Sound(q) /\ (~reopened => Bounded(q)),
         ~reopened' => ~reopened,
         NEW new, Sound(new), ~reopened' => Bounded(new),
         Versions' \subseteq Versions \cup {NoQuiz, new}
  PROVE  \A q \in Versions' : Sound(q) /\ (~reopened' => Bounded(q))
BY DEF Sound, Bounded

LEMMA InvStep == Inv /\ [Next]_vars => Inv'
<1> SUFFICES ASSUME Inv, [Next]_vars PROVE Inv'
  OBVIOUS
<1>t. TypeInv /\ TypeInv' /\ TypeOK
  BY TypeStep DEF Inv, TypeInv
<1>v. \A q \in Versions : Sound(q) /\ (~reopened => Bounded(q))
  BY DEF Inv
<1>q. Sound(QuizOf(row)) /\ (~reopened => Bounded(QuizOf(row)))
  BY <1>t, <1>v, FreshSound DEF QuizOf, Versions
<1>1. ASSUME NEW w \in Workers, AskTask(w) PROVE Inv'
  <2>1. Versions' \subseteq Versions \cup {NoQuiz, QuizOf(row)}
    BY <1>1, <1>t DEF AskTask, Versions, user, owner, TypeInv, TypeOK
  <2>2. \A q \in Versions' : Sound(q) /\ (~reopened' => Bounded(q))
    BY <1>1, <1>v, <1>q, <2>1, VersionsStep DEF AskTask
  <2>3. Grading' /\ Saved'
    BY <1>1, <1>t DEF AskTask, Inv, Grading, Saved, Goto, owner, TypeInv, TypeOK
  <2>4. QED
    BY <1>t, <2>2, <2>3 DEF Inv
<1>2. ASSUME NEW w \in Workers, SaveQuiz(w) PROVE Inv'
  <2>1. copy[w] \in Quizzes /\ copy[w] # NoQuiz /\ row' \in Quizzes
    BY <1>2, <1>t DEF SaveQuiz, TypeInv, TypeOK, HasRead, Quizzes, Statuses
  <2>2. Sound(copy[w]) /\ (~reopened => Bounded(copy[w]))
    BY <1>v DEF Versions
  <2>3. Sound(row') /\ (~reopened' => Bounded(row'))
    <3>1. CASE Starts(copy[w])
      <4>1. row' = [copy[w] EXCEPT !.status = "in_progress"] /\ reopened' = reopened
        BY <1>2, <3>1 DEF SaveQuiz
      <4>2. /\ row'.status = "in_progress" /\ row'.right = 0 /\ row'.wrong = 0
            /\ row'.config.questions > 0
        BY <2>1, <2>2, <3>1, <4>1 DEF Sound, Starts, Quizzes
      <4>3. QED
        BY <2>1, <4>1, <4>2 DEF Sound, Bounded, Quizzes, Settings
    <3>2. CASE ~Starts(copy[w])
      BY <1>2, <2>2, <3>2 DEF SaveQuiz
    <3>3. QED
      BY <3>1, <3>2
  <2>4. Versions' \subseteq Versions \cup {NoQuiz, row'}
    BY <1>2, <1>t DEF SaveQuiz, Finish, Versions, owner, TypeInv, TypeOK
  <2>5. \A q \in Versions' : Sound(q) /\ (~reopened' => Bounded(q))
    BY <1>2, <1>v, <2>3, <2>4, VersionsStep DEF SaveQuiz
  <2>6. Grading' /\ Saved'
    BY <1>2, <1>t DEF SaveQuiz, Finish, Inv, Grading, Saved, Goto, owner, TypeInv, TypeOK
  <2>7. QED
    BY <1>t, <2>5, <2>6 DEF Inv
<1>3. ASSUME NEW w \in Workers, Answer(w) PROVE Inv'
  <2>1. Versions' = Versions /\ reopened' = reopened
    BY <1>3 DEF Answer, Versions, owner
  <2>2. Grading' /\ Saved'
    BY <1>3, <1>t DEF Answer, Inv, Grading, Saved, Goto, owner, TypeInv, TypeOK
  <2>3. QED
    BY <1>t, <1>v, <2>1, <2>2 DEF Inv
<1>4. ASSUME NEW w \in Workers, ReadQuiz(w) PROVE Inv'
  <2>1. Versions' \subseteq Versions \cup {NoQuiz, QuizOf(row)}
    BY <1>4, <1>t DEF ReadQuiz, Finish, Versions, user, owner, TypeInv, TypeOK
  <2>2. \A q \in Versions' : Sound(q) /\ (~reopened' => Bounded(q))
    BY <1>4, <1>v, <1>q, <2>1, VersionsStep DEF ReadQuiz
  <2>3. Grading' /\ Saved'
    BY <1>4, <1>t DEF ReadQuiz, Finish, Inv, Grading, Saved, Goto, owner, TypeInv, TypeOK
  <2>4. QED
    BY <1>t, <2>2, <2>3 DEF Inv
<1>5. ASSUME NEW w \in Workers, GradeAnswer(w) PROVE Inv'
  <2>1. /\ copy[w] \in Quizzes /\ copy[w].status = "in_progress" /\ right[w] \in BOOLEAN
        /\ row' = Graded(copy[w], right[w])
    BY <1>5, <1>t DEF GradeAnswer, TypeInv, TypeOK, HasRead, Inv, Grading
  <2>2. Sound(copy[w]) /\ (~reopened => Bounded(copy[w]))
    BY <1>v DEF Versions
  <2>3. Sound(row') /\ (~reopened' => Bounded(row'))
    BY <1>5, <2>1, <2>2, GradedSound DEF GradeAnswer
  <2>4. Versions' \subseteq Versions \cup {NoQuiz, row'}
    BY <1>5, <1>t DEF GradeAnswer, Finish, Versions, owner, TypeInv, TypeOK
  <2>5. \A q \in Versions' : Sound(q) /\ (~reopened' => Bounded(q))
    BY <1>5, <1>v, <2>3, <2>4, VersionsStep DEF GradeAnswer
  <2>6. Grading' /\ Saved'
    BY <1>5, <1>t DEF GradeAnswer, Finish, Inv, Grading, Saved, Goto, owner, TypeInv, TypeOK
  <2>7. QED
    BY <1>t, <2>5, <2>6 DEF Inv
<1>6. CASE SaveSettings
  <2>1. Versions' = Versions /\ reopened' = reopened
    BY <1>6 DEF SaveSettings, UnchangedByOwner, post, Versions
  <2>2. Grading' /\ Saved'
    BY <1>6, QuizConstants DEF SaveSettings, UnchangedByOwner, post, Inv, Grading, Saved
  <2>3. QED
    BY <1>t, <1>v, <2>1, <2>2 DEF Inv
<1>7. CASE ReadUser
  <2>1. Versions' \subseteq Versions /\ reopened' = reopened
    BY <1>7 DEF ReadUser, UnchangedByOwner, post, Versions
  <2>2. Grading' /\ Saved'
    BY <1>7 DEF ReadUser, UnchangedByOwner, post, Inv, Grading, Saved
  <2>3. QED
    BY <1>t, <1>v, <2>1, <2>2 DEF Inv
<1>8. CASE WriteUser
  <2>1. /\ Sound(ChangeQuiz)
        /\ Bounded(ownerCopy) /\ ~(ask.enabled /\ ~ask.reset) => Bounded(ChangeQuiz)
    BY <1>8, <1>t, <1>v, ChangeSound DEF WriteUser, Inv, Versions
  <2>2. /\ row' = ChangeQuiz
        /\ ~reopened' => ~reopened /\ ~(ask.enabled /\ ~ask.reset)
    BY <1>8 DEF WriteUser
  <2>3. Sound(row') /\ (~reopened' => Bounded(row'))
    BY <1>v, <2>1, <2>2 DEF Versions
  <2>4. Versions' \subseteq Versions \cup {NoQuiz, row'}
    BY <1>8 DEF WriteUser, EndSave, UnchangedByOwner, post, Versions
  <2>5. \A q \in Versions' : Sound(q) /\ (~reopened' => Bounded(q))
    BY <1>v, <2>2, <2>3, <2>4, VersionsStep
  <2>6. Grading' /\ Saved'
    BY <1>8 DEF WriteUser, EndSave, UnchangedByOwner, post, Inv, Grading, Saved
  <2>7. QED
    BY <1>t, <2>5, <2>6 DEF Inv
<1>9. CASE ResetFails
  <2>1. Versions' \subseteq Versions \cup {NoQuiz} /\ reopened' = reopened
    BY <1>9 DEF ResetFails, EndSave, UnchangedByOwner, post, Versions
  <2>2. \A q \in Versions' : Sound(q) /\ (~reopened' => Bounded(q))
    BY <1>v, <2>1 DEF Sound, Bounded
  <2>3. Grading' /\ Saved'
    BY <1>9 DEF ResetFails, EndSave, UnchangedByOwner, post, Inv, Grading, Saved
  <2>4. QED
    BY <1>t, <2>2, <2>3 DEF Inv
<1>10. CASE UNCHANGED vars
  BY <1>10, <1>t DEF vars, user, post, owner, Inv, Grading, Saved, Versions
<1>11. QED
  BY <1>1, <1>2, <1>3, <1>4, <1>5, <1>6, <1>7, <1>8, <1>9, <1>10 DEF Next, Serve

LEMMA Invariant == Spec => []Inv
BY InvInit, InvStep, PTL DEF Spec

\* Whatever copies overwrite each other, a user passes or fails only with the
\* counts that say so.
THEOREM VerdictTheorem == Spec => []VerdictJustified
<1>1. Inv => VerdictJustified
  BY DEF Inv, VerdictJustified, Versions, Sound
<1>2. QED
  BY <1>1, Invariant, PTL

\* A quiz asks no more questions than it has, and is in progress only while some
\* are left, until the owner restarts it without a reset.
THEOREM EndTheorem == Spec => []QuizEnds
<1>1. Inv => QuizEnds
  BY DEF Inv, QuizEnds, Versions, Bounded
<1>2. QED
  BY <1>1, Invariant, PTL

-----------------------------------------------------------------------------
(* Requests that do not overlap count every answer once.                   *)

\* One request at a time.
Turns ==
  /\ \A w, v \in Workers : pc[w] # "idle" /\ pc[v] # "idle" => w = v
  /\ ownerPc # "idle" => \A w \in Workers : pc[w] = "idle"

\* What a request has read is what is in the row.
CopiesCurrent ==
  /\ \A w \in Workers : pc[w] \in {"asked", "save"} => copy[w] = QuizOf(row)
  /\ ownerPc = "write" => ownerCopy = row

Ones(yes) == IF yes THEN 1 ELSE 0
Tally(q) == q.right = given.right /\ q.wrong = given.wrong
TallyWith(q, isRight) ==
  q.right + Ones(isRight) = given.right /\ q.wrong + Ones(~isRight) = given.wrong

\* The answer being graded is the only one that is not in the counts.
Tallied ==
  /\ (\A w \in Workers : pc[w] \notin {"grade", "save"}) => Tally(QuizOf(row))
  /\ \A w \in Workers : pc[w] = "grade" =>
       IF QuizOf(row).status = "in_progress" THEN TallyWith(QuizOf(row), right[w])
       ELSE Tally(QuizOf(row))
  /\ \A w \in Workers : pc[w] = "save" => TallyWith(QuizOf(row), right[w])

CountInv == TypeInv /\ (~overlap => Turns /\ CopiesCurrent /\ Tallied)

LEMMA GradedCounts ==
  ASSUME NEW q \in Quizzes, NEW isRight \in BOOLEAN
  PROVE  /\ Graded(q, isRight).right = q.right + Ones(isRight)
         /\ Graded(q, isRight).wrong = q.wrong + Ones(~isRight)
BY DEF Graded, Quizzes, Ones

LEMMA ChangeCounts ==
  ASSUME TypeOK
  PROVE  IF ask.reset THEN ChangeQuiz.right = 0 /\ ChangeQuiz.wrong = 0
         ELSE /\ ChangeQuiz.right = QuizOf(ownerCopy).right
              /\ ChangeQuiz.wrong = QuizOf(ownerCopy).wrong
<1> DEFINE q == IF ask.reset THEN Fresh ELSE QuizOf(ownerCopy)
<1>1. q \in Quizzes
  BY FreshType, QuizOfType DEF TypeOK
<1>2. ask.reset => q.right = 0 /\ q.wrong = 0
  BY DEF Fresh
<1>3. ChangeQuiz = [q EXCEPT !.status = IF ask.enabled THEN "in_progress" ELSE q.status,
                             !.config.enabled = ask.enabled]
  BY DEF ChangeQuiz
<1>4. ~ask.reset => q = QuizOf(ownerCopy)
  OBVIOUS
<1> HIDE DEF q
<1>5. ChangeQuiz.right = q.right /\ ChangeQuiz.wrong = q.wrong
  BY <1>1, <1>3 DEF Quizzes
<1>6. QED
  BY <1>2, <1>4, <1>5

LEMMA CountInit == Init => CountInv
<1> SUFFICES ASSUME Init PROVE CountInv
  OBVIOUS
<1>1. TypeInv
  BY TypeInit DEF TypeInv, HasRead, Init
<1>2. Turns /\ CopiesCurrent
  BY DEF Init, Turns, CopiesCurrent
<1>3. Tallied
  BY DEF Init, Tallied, Tally, QuizOf, Fresh
<1>4. QED
  BY <1>1, <1>2, <1>3 DEF CountInv

LEMMA CountStep == CountInv /\ [Next]_vars => CountInv'
<1> SUFFICES ASSUME CountInv, [Next]_vars PROVE CountInv'
  OBVIOUS
<1>t. TypeInv /\ TypeInv' /\ TypeOK /\ QuizOf(row) \in Quizzes /\ overlap' = overlap
  BY TypeStep, QuizOfType DEF CountInv, TypeInv, TypeOK, Next, Serve, vars, AskTask, SaveQuiz,
     Answer, ReadQuiz, GradeAnswer, SaveSettings, ReadUser, WriteUser, ResetFails, UnchangedByOwner
<1> SUFFICES ASSUME ~overlap PROVE (Turns /\ CopiesCurrent /\ Tallied)'
  BY <1>t DEF CountInv
<1>i. Turns /\ CopiesCurrent /\ Tallied
  BY DEF CountInv
<1>p. pc \in [Workers -> {"idle", "asked", "grade", "save"}] /\ copy \in [Workers -> Quizzes \cup {NoQuiz}]
      /\ right \in [Workers -> BOOLEAN]
  BY <1>t DEF TypeOK
<1>1. ASSUME NEW w \in Workers, AskTask(w) PROVE (Turns /\ CopiesCurrent /\ Tallied)'
  <2>1. AtRest /\ UNCHANGED <<config, row, answered, right, given>> /\ ownerPc' = ownerPc
    BY <1>1 DEF AskTask, MayBegin, user, owner
  <2>2. QuizOf(row)' = QuizOf(row)
    BY <2>1 DEF QuizOf, Fresh
  <2>3. pc' = [pc EXCEPT ![w] = "asked"] /\ copy' = [copy EXCEPT ![w] = QuizOf(row)]
    BY <1>1 DEF AskTask, Goto
  <2>4. QED
    BY <1>i, <1>p, <2>1, <2>2, <2>3 DEF AtRest, Turns, CopiesCurrent, Tallied, Tally
<1>2. ASSUME NEW w \in Workers, SaveQuiz(w) PROVE (Turns /\ CopiesCurrent /\ Tallied)'
  <2>1. pc[w] = "asked" /\ copy[w] = QuizOf(row) /\ given' = given /\ ownerPc' = ownerPc
    BY <1>2, <1>i DEF SaveQuiz, CopiesCurrent, owner
  <2>2. /\ \A v \in Workers \ {w} : pc[v] = "idle"
        /\ ownerPc = "idle"
    BY <1>i, <2>1 DEF Turns
  <2>3. pc' = [pc EXCEPT ![w] = "idle"]
    BY <1>2 DEF SaveQuiz, Finish, Goto
  <2>4. /\ row' = IF Starts(copy[w]) THEN [copy[w] EXCEPT !.status = "in_progress"] ELSE copy[w]
        /\ Tally(QuizOf(row))
    BY <1>2, <1>i, <2>1, <2>2 DEF SaveQuiz, Tallied
  <2>5. row' \in Quizzes /\ row'.right = QuizOf(row).right /\ row'.wrong = QuizOf(row).wrong
    BY <1>t, <2>1, <2>4 DEF Quizzes, Statuses
  <2>6. QuizOf(row)' = row'
    BY <2>5, QuizConstants DEF QuizOf
  <2>7. \A v \in Workers : pc'[v] = "idle"
    BY <1>p, <2>2, <2>3
  <2>8. QED
    BY <2>1, <2>2, <2>4, <2>5, <2>6, <2>7 DEF Turns, CopiesCurrent, Tallied, Tally
<1>3. ASSUME NEW w \in Workers, Answer(w) PROVE (Turns /\ CopiesCurrent /\ Tallied)'
  <2>1. AtRest /\ UNCHANGED <<config, row, copy>> /\ ownerPc' = ownerPc
    BY <1>3 DEF Answer, MayBegin, owner
  <2>2. QuizOf(row)' = QuizOf(row) /\ Tally(QuizOf(row))
    BY <1>i, <2>1 DEF QuizOf, Fresh, AtRest, Tallied
  <2>3. PICK isRight \in BOOLEAN : right' = [right EXCEPT ![w] = isRight] /\ given' = Note(isRight)
    BY <1>3 DEF Answer
  <2>4. pc' = [pc EXCEPT ![w] = "grade"] /\ right'[w] = isRight
    BY <1>3, <1>p, <2>3 DEF Answer, Goto
  <2>5. IF QuizOf(row).status = "in_progress" THEN TallyWith(QuizOf(row), isRight)'
        ELSE Tally(QuizOf(row))'
    BY <1>t, <2>2, <2>3 DEF Note, Tally, TallyWith, Ones, TypeOK, Quizzes
  <2>6. QED
    BY <1>p, <2>1, <2>2, <2>3, <2>4, <2>5 DEF AtRest, Turns, CopiesCurrent, Tallied, Tally, TallyWith
<1>4. ASSUME NEW w \in Workers, ReadQuiz(w) PROVE (Turns /\ CopiesCurrent /\ Tallied)'
  <2>1. pc[w] = "grade" /\ UNCHANGED <<config, row, given>> /\ ownerPc' = ownerPc
    BY <1>4 DEF ReadQuiz, user, owner
  <2>2. QuizOf(row)' = QuizOf(row)
    BY <2>1 DEF QuizOf, Fresh
  <2>3. ownerPc = "idle" /\ \A v \in Workers \ {w} : pc[v] = "idle"
    BY <1>i, <2>1 DEF Turns
  <2>4. CASE QuizOf(row).status = "in_progress"
    <3>1. /\ pc' = [pc EXCEPT ![w] = "save"] /\ copy' = [copy EXCEPT ![w] = QuizOf(row)]
          /\ right' = right
      BY <1>4, <2>4 DEF ReadQuiz, Goto
    <3>2. TallyWith(QuizOf(row), right[w])
      BY <1>i, <2>1, <2>4 DEF Tallied
    <3>3. QED
      BY <1>p, <2>1, <2>2, <2>3, <3>1, <3>2 DEF Turns, CopiesCurrent, Tallied, TallyWith
  <2>5. CASE QuizOf(row).status # "in_progress"
    <3>1. pc' = [pc EXCEPT ![w] = "idle"]
      BY <1>4, <2>5 DEF ReadQuiz, Finish, Goto
    <3>2. Tally(QuizOf(row))
      BY <1>i, <2>1, <2>5 DEF Tallied
    <3>3. \A v \in Workers : pc'[v] = "idle"
      BY <1>p, <2>3, <3>1
    <3>4. QED
      BY <2>1, <2>2, <2>3, <3>2, <3>3 DEF Turns, CopiesCurrent, Tallied, Tally
  <2>6. QED
    BY <2>4, <2>5
<1>5. ASSUME NEW w \in Workers, GradeAnswer(w) PROVE (Turns /\ CopiesCurrent /\ Tallied)'
  <2>1. /\ pc[w] = "save" /\ copy[w] = QuizOf(row) /\ given' = given /\ ownerPc' = ownerPc
        /\ TallyWith(QuizOf(row), right[w])
    BY <1>5, <1>i DEF GradeAnswer, CopiesCurrent, Tallied, owner
  <2>2. ownerPc = "idle" /\ \A v \in Workers \ {w} : pc[v] = "idle"
    BY <1>i, <2>1 DEF Turns
  <2>3. pc' = [pc EXCEPT ![w] = "idle"] /\ row' = Graded(copy[w], right[w])
    BY <1>5 DEF GradeAnswer, Finish, Goto
  <2>4. \A v \in Workers : pc'[v] = "idle"
    BY <1>p, <2>2, <2>3
  <2>5. /\ row' \in Quizzes
        /\ row'.right = QuizOf(row).right + Ones(right[w])
        /\ row'.wrong = QuizOf(row).wrong + Ones(~right[w])
    BY <1>t, <1>p, <2>1, <2>3, GradedType, GradedCounts
  <2>6. QuizOf(row)' = row'
    BY <2>5, QuizConstants DEF QuizOf
  <2>7. Tally(QuizOf(row))'
    BY <2>1, <2>5, <2>6 DEF Tally, TallyWith
  <2>8. QED
    BY <2>1, <2>2, <2>4, <2>7 DEF Turns, CopiesCurrent, Tallied
<1>6. CASE SaveSettings
  <2>1. /\ \A w \in Workers : pc[w] = "idle" /\ pc'[w] = "idle"
        /\ row' = row /\ given' = given /\ ownerPc' # "write"
    BY <1>6 DEF SaveSettings, MayBegin, AtRest, UnchangedByOwner, post
  <2>2. Tally(QuizOf(row))'
    BY <1>i, <2>1 DEF Tallied, Tally, QuizOf, Fresh
  <2>3. QED
    BY <2>1, <2>2 DEF Turns, CopiesCurrent, Tallied
<1>7. CASE ReadUser
  <2>1. /\ \A w \in Workers : pc[w] = "idle" /\ pc'[w] = "idle"
        /\ UNCHANGED <<config, row, given>> /\ ownerCopy' = row
    BY <1>7, <1>i DEF ReadUser, Turns, UnchangedByOwner, post
  <2>2. Tally(QuizOf(row))'
    BY <1>i, <2>1 DEF Tallied, Tally, QuizOf, Fresh
  <2>3. QED
    BY <2>1, <2>2 DEF Turns, CopiesCurrent, Tallied
<1>8. CASE WriteUser
  <2>1. /\ \A w \in Workers : pc[w] = "idle" /\ pc'[w] = "idle"
        /\ ownerCopy = row /\ row' = ChangeQuiz /\ ownerPc' = "idle"
        /\ given' = IF ask.reset THEN [right |-> 0, wrong |-> 0] ELSE given
    BY <1>8, <1>i DEF WriteUser, EndSave, Turns, CopiesCurrent, UnchangedByOwner, post
  <2>2. Tally(QuizOf(row))
    BY <1>i, <2>1 DEF Tallied
  <2>3. QuizOf(row)' = row'
    BY <1>t, <2>1, ChangeType, QuizConstants DEF QuizOf
  <2>4. Tally(QuizOf(row))'
    BY <1>t, <2>1, <2>2, <2>3, ChangeCounts DEF Tally
  <2>5. QED
    BY <2>1, <2>4 DEF Turns, CopiesCurrent, Tallied
<1>9. CASE ResetFails
  <2>1. /\ \A w \in Workers : pc[w] = "idle" /\ pc'[w] = "idle"
        /\ UNCHANGED <<config, row, given>> /\ ownerPc' = "idle"
    BY <1>9, <1>i DEF ResetFails, EndSave, Turns, UnchangedByOwner, post
  <2>2. Tally(QuizOf(row))'
    BY <1>i, <2>1 DEF Tallied, Tally, QuizOf, Fresh
  <2>3. QED
    BY <2>1, <2>2 DEF Turns, CopiesCurrent, Tallied
<1>10. CASE UNCHANGED vars
  BY <1>10, <1>i DEF vars, user, post, owner, Turns, CopiesCurrent, Tallied, Tally, TallyWith, QuizOf, Fresh
<1>11. QED
  BY <1>1, <1>2, <1>3, <1>4, <1>5, <1>6, <1>7, <1>8, <1>9, <1>10 DEF Next, Serve

\* When requests do not overlap, the counts are those of the answers stored while
\* the quiz was in progress.
THEOREM CountTheorem == Spec => []AnswersCounted
<1>1. Spec => []CountInv
  BY CountInit, CountStep, PTL DEF Spec
<1>2. CountInv => AnswersCounted
  <2> SUFFICES ASSUME CountInv, ~overlap, AtRest, row # NoQuiz
               PROVE  row.right = given.right /\ row.wrong = given.wrong
    BY DEF AnswersCounted
  <2>1. Tally(QuizOf(row))
    BY DEF CountInv, Tallied, AtRest
  <2>2. QED
    BY <2>1 DEF Tally, QuizOf
<1>3. QED
  BY <1>1, <1>2, PTL

-----------------------------------------------------------------------------
(* A failed quiz stands while requests take turns.                         *)

\* No request goes on with a quiz that it read as failed, nor grades one that was not in
\* progress.
OpenCopies ==
  \A w \in Workers :
    /\ pc[w] = "asked" => copy[w].status # "failed"
    /\ pc[w] = "save" => copy[w].status = "in_progress"

LEMMA OpenStep == TypeOK /\ OpenCopies /\ [Next]_vars => OpenCopies'
<1> SUFFICES ASSUME TypeOK, OpenCopies, [Next]_vars PROVE OpenCopies'
  OBVIOUS
<1> USE DEF TypeOK, OpenCopies, Goto, post
<1>1. ASSUME NEW w \in Workers, AskTask(w) \/ ReadQuiz(w) PROVE OpenCopies'
  BY <1>1 DEF AskTask, ReadQuiz, Finish
<1>2. ASSUME NEW w \in Workers, SaveQuiz(w) \/ GradeAnswer(w) PROVE OpenCopies'
  BY <1>2 DEF SaveQuiz, GradeAnswer, Finish
<1>3. ASSUME NEW w \in Workers, Answer(w) PROVE OpenCopies'
  BY <1>3 DEF Answer
<1>4. CASE SaveSettings \/ ReadUser \/ WriteUser \/ ResetFails
  BY <1>4 DEF SaveSettings, ReadUser, WriteUser, ResetFails, UnchangedByOwner
<1>5. CASE UNCHANGED vars
  BY <1>5 DEF vars
<1>6. QED
  BY <1>1, <1>2, <1>3, <1>4, <1>5 DEF Next, Serve

\* While requests take turns only the owner touches a failed quiz: no request writes back
\* what it has read before the verdict, and none grades an answer to a decided quiz.
THEOREM StandsTheorem == ASSUME Modes = {FALSE} PROVE Spec => FailureStands
<1>1. Init => CountInv /\ OpenCopies /\ ~overlap
  BY CountInit DEF Init, OpenCopies
<1>2. CountInv /\ OpenCopies /\ ~overlap /\ [Next]_vars => (CountInv /\ OpenCopies /\ ~overlap)'
  BY CountStep, OpenStep
     DEF CountInv, TypeInv, Next, Serve, vars, AskTask, SaveQuiz, Answer, ReadQuiz, GradeAnswer,
         SaveSettings, ReadUser, WriteUser, ResetFails, UnchangedByOwner
<1>3. CountInv /\ OpenCopies /\ ~overlap /\ [Next]_vars => [Failed /\ ~WriteUser => row' = row]_vars
  <2> SUFFICES ASSUME CountInv, OpenCopies, ~overlap, Next, Failed, ~WriteUser PROVE row' = row
    BY DEF vars
  <2>1. QuizOf(row) = row /\ row.status = "failed"
    BY DEF Failed, QuizOf
  <2>2. \A w \in Workers : pc[w] \notin {"asked", "save"}
    BY <2>1 DEF CountInv, CopiesCurrent, OpenCopies
  <2>3. \A w \in Workers : ~SaveQuiz(w) /\ ~GradeAnswer(w)
    BY <2>2 DEF SaveQuiz, GradeAnswer
  <2>4. QED
    BY <2>3 DEF Next, Serve, AskTask, Answer, ReadQuiz, SaveSettings, ReadUser, ResetFails, user
<1>4. QED
  BY <1>1, <1>2, <1>3, PTL DEF Spec, FailureStands
===============================================================================
