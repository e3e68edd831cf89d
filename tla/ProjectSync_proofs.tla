------------------------- MODULE ProjectSync_proofs -------------------------
(***************************************************************************)
(* What holds of a synchronisation for all requests, settings and          *)
(* categories, and any number of requests and edits.                       *)
(***************************************************************************)
EXTENDS ProjectSync, TLAPS


\* The steps at which a request has read the source.
Syncing == {"get", "category", "again", "post_category", "create", "cache", "put"}

\* What a request has at each of its steps.
Shape(w) ==
  /\ pc[w] \in Syncing => mine[w] # NoProject
  /\ pc[w] \in {"cache", "put", "put_back"} => got[w] # NoProject /\ got[w].enabled
  /\ pc[w] \in {"idle", "get", "create", "read_copy"} => got[w] = NoProject

\* Who has a copy of the target has it of a target that exists.
ShapeInv ==
  /\ \A w \in Workers : Shape(w) /\ (got[w] # NoProject => target # NoProject)
  /\ copy # NoProject => copy.enabled /\ target # NoProject

TypeInv == TypeOK /\ ShapeInv

LEMMA Bases == /\ NoProject \notin Projects
               /\ Unset \in Values /\ Default \in Categories /\ NoCategory \notin Categories
               /\ EditedKeys \subseteq Settings /\ Modes \subseteq BOOLEAN
               /\ MaxRequests \in Nat /\ MaxEdits \in Nat
BY SyncConstants, NoProjectIsNone

\* A record of the right fields is a project.
LEMMA IsProject ==
  ASSUME NEW i \in [Settings -> Values], NEW c \in Categories, NEW e \in BOOLEAN
  PROVE  [info |-> i, category |-> c, enabled |-> e] \in Projects
BY DEF Projects

LEMMA ProjectFields ==
  ASSUME NEW p \in Projects
  PROVE  p.info \in [Settings -> Values] /\ p.category \in Categories /\ p.enabled \in BOOLEAN
BY DEF Projects

LEMMA TypeInit == Init => TypeInv
<1> SUFFICES ASSUME Init PROVE TypeInv
  OBVIOUS
<1>1. Bare \in [Settings -> Values]
  BY Bases DEF Bare
<1>2. source \in Projects
  BY <1>1, IsProject DEF Init
<1>3. target \in Projects \cup {NoProject}
  BY <1>1, IsProject, Bases DEF Init
<1>4. told \in [Settings -> SUBSET Values]
  BY Bases DEF Init
<1>5. TypeOK
  BY <1>2, <1>3, <1>4, Bases DEF Init, TypeOK, Steps
<1>6. ShapeInv
  BY DEF Init, ShapeInv, Shape, Syncing
<1>7. QED
  BY <1>5, <1>6 DEF TypeInv

-----------------------------------------------------------------------------
(* Type correctness, one lemma for the variables of requests.              *)

RequestOK ==
  /\ pc \in [Workers -> Steps]
  /\ mine \in [Workers -> Projects \cup {NoProject}]
  /\ got \in [Workers -> Projects \cup {NoProject}]
  /\ cat \in [Workers -> Categories \cup {NoCategory}]
  /\ failed \in [Workers -> BOOLEAN]

SharedOK ==
  /\ overlap \in BOOLEAN
  /\ source \in Projects
  /\ target \in Projects \cup {NoProject} /\ copy \in Projects \cup {NoProject}
  /\ replaced \in Projects \cup {NoProject}
  /\ names \in SUBSET Categories
  /\ told \in [Settings -> SUBSET Values]
  /\ served \in 0..MaxRequests /\ edits \in 0..MaxEdits

LEMMA TypeParts == TypeOK <=> RequestOK /\ SharedOK
BY DEF TypeOK, RequestOK, SharedOK

\* The parts of the shape that a step of w leaves to the others.
Rest(w) == \A v \in Workers \ {w} : /\ pc'[v] = pc[v] /\ mine'[v] = mine[v]
                                    /\ got'[v] = got[v] /\ cat'[v] = cat[v]
                                    /\ failed'[v] = failed[v]

LEMMA FinishStep ==
  ASSUME TypeOK, NEW w \in Workers, Finish(w)
  PROVE  /\ RequestOK' /\ Rest(w)
         /\ pc'[w] = "idle" /\ got'[w] = NoProject
BY Bases DEF TypeOK, Finish, Goto, RequestOK, Rest, Steps

\* The target does not vanish.
Stays == target # NoProject => target' # NoProject

LEMMA ShapeStep ==
  ASSUME TypeInv, NEW w \in Workers, Rest(w), Stays, Shape(w)',
         got'[w] # NoProject => target' # NoProject,
         copy' # NoProject => copy'.enabled /\ target' # NoProject
  PROVE  ShapeInv'
BY DEF TypeInv, ShapeInv, Shape, Rest, Stays

LEMMA FinishShape ==
  ASSUME TypeInv, NEW w \in Workers, Finish(w), Stays,
         copy' # NoProject => copy'.enabled /\ target' # NoProject
  PROVE  ShapeInv'
<1>1. Rest(w) /\ pc'[w] = "idle" /\ got'[w] = NoProject
  BY FinishStep DEF TypeInv
<1>2. Shape(w)'
  BY <1>1 DEF Shape, Syncing
<1>3. QED
  BY <1>1, <1>2, ShapeStep

LEMMA PayloadStep ==
  ASSUME TypeInv, NEW w \in Workers, pc[w] \in {"category", "post_category"},
         NEW c \in Categories \cup {NoCategory}, NEW f \in BOOLEAN, Payload(w, c, f)
  PROVE  /\ RequestOK' /\ Rest(w) /\ Shape(w)' /\ got'[w] \in {got[w], NoProject}
         /\ pc'[w] \in {"create", "cache", "put"} =>
              cat'[w] = c /\ failed'[w] = f /\ mine'[w] = mine[w]
         /\ pc'[w] \in {"create", "cache", "idle"}
         /\ pc'[w] \in {"create", "cache"} => got'[w] = got[w]
<1>1. CASE Finish(w)
  BY <1>1, FinishStep DEF TypeInv, Shape, Syncing
<1>2. CASE ~Finish(w)
  <2>1. mine[w] # NoProject
    BY DEF TypeInv, ShapeInv, Shape, Syncing
  <2>2. RequestOK' /\ Rest(w)
    BY <1>2 DEF TypeInv, TypeOK, Payload, Goto, RequestOK, Rest, Steps
  <2>3. /\ pc'[w] = IF got[w] = NoProject THEN "create" ELSE "cache"
        /\ got'[w] = got[w] /\ mine'[w] = mine[w]
        /\ cat'[w] = c /\ failed'[w] = f
        /\ got[w] # NoProject => got[w].enabled
    BY <1>2 DEF TypeInv, TypeOK, Payload, Goto
  <2>4. QED
    BY <2>1, <2>2, <2>3 DEF Shape, Syncing
<1>3. QED
  BY <1>1, <1>2

LEMMA NotFoundStep ==
  ASSUME TypeInv, NEW w \in Workers, pc[w] \in {"category", "again"},
         NEW step \in {"again", "post_category"}, NotFound(w, step)
  PROVE  /\ RequestOK' /\ Rest(w) /\ Shape(w)' /\ got'[w] = got[w]
         /\ pc'[w] = step
<1>1. RequestOK' /\ Rest(w) /\ got'[w] = got[w] /\ mine'[w] = mine[w] /\ pc'[w] = step
  BY DEF TypeInv, TypeOK, NotFound, Goto, RequestOK, Rest, Steps
<1>2. QED
  BY <1>1 DEF TypeInv, ShapeInv, Shape, Syncing

-----------------------------------------------------------------------------
(* Each step keeps the types and the shape.                                *)

LEMMA SyncType == ASSUME TypeInv, NEW w \in Workers, Sync(w) PROVE TypeInv'
<1>1. RequestOK' /\ Rest(w) /\ Shape(w)' /\ got' = got
  BY Bases DEF TypeInv, TypeOK, ShapeInv, Shape, Syncing, Sync, Begin, Goto, RequestOK, Rest, Steps
<1>2. SharedOK'
  BY Bases DEF TypeInv, TypeOK, Sync, Begin, SharedOK
<1>3. Stays /\ target' = target /\ copy' = copy
  BY DEF Sync, Begin, Stays
<1>4. ShapeInv'
  BY <1>1, <1>3, ShapeStep DEF TypeInv, ShapeInv
<1>5. QED
  BY <1>1, <1>2, <1>4, TypeParts DEF TypeInv, TypeOK, RequestOK, SharedOK

LEMMA GetTargetType == ASSUME TypeInv, NEW w \in Workers, GetTarget(w) PROVE TypeInv'
<1>1. RequestOK' /\ Rest(w)
  BY DEF TypeInv, TypeOK, GetTarget, Goto, RequestOK, Rest, Steps
<1>2. Shape(w)' /\ got'[w] \in {target, NoProject}
  BY DEF TypeInv, TypeOK, ShapeInv, Shape, Syncing, GetTarget, Goto, Steps
<1>3. SharedOK' /\ Stays /\ target' = target /\ copy' = copy
  BY DEF TypeInv, TypeOK, GetTarget, SharedOK, Stays
<1>4. ShapeInv'
  BY <1>1, <1>2, <1>3, ShapeStep DEF TypeInv, ShapeInv
<1>5. QED
  BY <1>1, <1>3, <1>4 DEF TypeInv, TypeOK, RequestOK, SharedOK

LEMMA GetCategoryType == ASSUME TypeInv, NEW w \in Workers, GetCategory(w) PROVE TypeInv'
<1>1. mine[w] \in Projects /\ mine[w].category \in Categories /\ failed[w] \in BOOLEAN
  BY DEF TypeInv, TypeOK, ShapeInv, Shape, Syncing, GetCategory, Projects
<1>2. RequestOK' /\ Rest(w) /\ Shape(w)' /\ got'[w] \in {got[w], NoProject}
  BY <1>1, PayloadStep, NotFoundStep DEF GetCategory
<1>3. SharedOK' /\ Stays /\ target' = target /\ copy' = copy
  BY DEF TypeInv, TypeOK, GetCategory, SharedOK, Stays
<1>4. ShapeInv'
  BY <1>2, <1>3, ShapeStep DEF TypeInv, ShapeInv
<1>5. QED
  BY <1>2, <1>3, <1>4 DEF TypeInv, TypeOK, RequestOK, SharedOK

LEMMA AgainType == ASSUME TypeInv, NEW w \in Workers, GetCategoryAgain(w) PROVE TypeInv'
<1>1. RequestOK' /\ Rest(w) /\ Shape(w)' /\ got'[w] \in {got[w], NoProject}
  <2>1. CASE Finish(w)
    BY <2>1, FinishStep DEF TypeInv, Shape, Syncing
  <2>2. CASE NotFound(w, "post_category")
    BY <2>2, NotFoundStep DEF GetCategoryAgain
  <2>3. QED
    BY <2>1, <2>2 DEF GetCategoryAgain
<1>2. SharedOK' /\ Stays /\ target' = target /\ copy' = copy
  BY DEF TypeInv, TypeOK, GetCategoryAgain, SharedOK, Stays
<1>3. ShapeInv'
  BY <1>1, <1>2, ShapeStep DEF TypeInv, ShapeInv
<1>4. QED
  BY <1>1, <1>2, <1>3 DEF TypeInv, TypeOK, RequestOK, SharedOK

LEMMA PostCategoryType == ASSUME TypeInv, NEW w \in Workers, PostCategory(w) PROVE TypeInv'
<1>1. mine[w] \in Projects /\ mine[w].category \in Categories /\ failed[w] \in BOOLEAN
  BY DEF TypeInv, TypeOK, ShapeInv, Shape, Syncing, PostCategory, Projects
<1>2. RequestOK' /\ Rest(w) /\ Shape(w)' /\ got'[w] \in {got[w], NoProject}
  <2>1. CASE Finish(w)
    BY <2>1, FinishStep DEF TypeInv, Shape, Syncing
  <2>2. CASE Payload(w, Posted(w), failed[w])
    BY <1>1, <2>2, PayloadStep DEF PostCategory, Posted
  <2>3. CASE Payload(w, NoCategory, TRUE)
    BY <2>3, PayloadStep DEF PostCategory
  <2>4. QED
    BY <2>1, <2>2, <2>3 DEF PostCategory
<1>3. SharedOK' /\ Stays /\ target' = target /\ copy' = copy
  BY <1>1 DEF TypeInv, TypeOK, PostCategory, SharedOK, Stays
<1>4. ShapeInv'
  BY <1>2, <1>3, ShapeStep DEF TypeInv, ShapeInv
<1>5. QED
  BY <1>2, <1>3, <1>4 DEF TypeInv, TypeOK, RequestOK, SharedOK

LEMMA CreatedIsProject ==
  ASSUME TypeInv, NEW w \in Workers, pc[w] = "create"
  PROVE  /\ mine[w] \in Projects /\ Created(w) \in Projects
         /\ Created(w).category = CategoryOf(w)
         /\ \A s \in Settings :
              Created(w).info[s] = IF s \in KeptBack THEN Unset ELSE mine[w].info[s]
<1>1. mine[w] \in Projects
  BY DEF TypeInv, TypeOK, ShapeInv, Shape, Syncing
<1>2. mine[w].info \in [Settings -> Values]
  BY <1>1, ProjectFields
<1>3. [s \in Settings |-> IF s \in KeptBack THEN Unset ELSE mine[w].info[s]] \in [Settings -> Values]
  BY <1>2, Bases
<1>4. CategoryOf(w) \in Categories
  BY Bases DEF CategoryOf, TypeInv, TypeOK
<1>5. QED
  BY <1>1, <1>3, <1>4, IsProject DEF Created

LEMMA CreateType == ASSUME TypeInv, NEW w \in Workers, Create(w) PROVE TypeInv'
<1>1. RequestOK'
  BY FinishStep DEF TypeInv, Create
<1>2. Created(w) \in Projects /\ mine[w] \in Projects
  BY CreatedIsProject DEF Create
<1>3. mine[w].info \in [Settings -> Values]
  BY <1>2, ProjectFields
<1>4. target' \in Projects \cup {NoProject} /\ replaced' \in Projects \cup {NoProject}
  BY <1>2 DEF Create, TypeInv, TypeOK
<1>5. told' \in [Settings -> SUBSET Values]
  BY <1>3, Bases DEF Create, TypeInv, TypeOK
<1>6. SharedOK'
  BY <1>4, <1>5 DEF Create, TypeInv, TypeOK, SharedOK
<1>7. Stays /\ copy' = copy
  BY <1>2, Bases DEF Create, Stays
<1>8. ShapeInv'
  BY <1>7, FinishShape DEF Create, TypeInv, ShapeInv, Stays
<1>9. QED
  BY <1>1, <1>6, <1>8 DEF TypeInv, TypeOK, RequestOK, SharedOK

LEMMA CacheType == ASSUME TypeInv, NEW w \in Workers, CacheTarget(w) PROVE TypeInv'
<1>1. RequestOK' /\ Rest(w) /\ Shape(w)' /\ got' = got
  BY DEF TypeInv, TypeOK, ShapeInv, Shape, Syncing, CacheTarget, Goto, RequestOK, Rest, Steps
<1>2. copy' = got[w] /\ got[w] # NoProject /\ got[w].enabled /\ target # NoProject
  BY DEF TypeInv, ShapeInv, Shape, CacheTarget
<1>3. SharedOK' /\ Stays /\ target' = target
  BY DEF TypeInv, TypeOK, CacheTarget, SharedOK, Stays
<1>4. ShapeInv'
  BY <1>1, <1>2, <1>3, ShapeStep
<1>5. QED
  BY <1>1, <1>3, <1>4 DEF TypeInv, TypeOK, RequestOK, SharedOK

LEMMA FilledType ==
  ASSUME target \in Projects, NEW i \in [Settings -> Values]
  PROVE  /\ Filled(i) \in [Settings -> Values]
         /\ \A s \in Settings :
              Filled(i)[s] = IF i[s] = Unset THEN target.info[s] ELSE i[s]
BY ProjectFields DEF Filled

LEMMA MergedType ==
  ASSUME NEW w \in Workers, mine[w] \in Projects, got[w] \in Projects
  PROVE  /\ Merged(w) \in [Settings -> Values]
         /\ \A s \in Settings \ PassThrough :
              Merged(w)[s] = IF s \in KeptBack THEN Unset ELSE got[w].info[s]
BY ProjectFields, Bases DEF Merged

\* The target that a PUT leaves behind.
Updated(w) == [info     |-> Filled(Merged(w)),
               category |-> IF cat[w] = NoCategory THEN target.category ELSE cat[w],
               enabled  |-> EnabledAfterSync]

LEMMA UpdatedFacts ==
  ASSUME TypeInv, NEW w \in Workers, pc[w] = "put"
  PROVE  /\ Updated(w) \in Projects /\ Updated(w).info = Filled(Merged(w))
         /\ Updated(w).enabled = FALSE
         /\ target \in Projects /\ got[w] \in Projects /\ mine[w] \in Projects
         /\ got[w].enabled
<1>1. target \in Projects /\ got[w] \in Projects /\ mine[w] \in Projects /\ got[w].enabled
  BY DEF TypeInv, TypeOK, ShapeInv, Shape, Syncing
<1>2. Filled(Merged(w)) \in [Settings -> Values]
  BY <1>1, MergedType, FilledType
<1>3. (IF cat[w] = NoCategory THEN target.category ELSE cat[w]) \in Categories
  BY <1>1, ProjectFields DEF TypeInv, TypeOK
<1>4. QED
  BY <1>1, <1>2, <1>3, IsProject DEF Updated, EnabledAfterSync

LEMMA PutType == ASSUME TypeInv, NEW w \in Workers, Put(w) PROVE TypeInv'
<1>1. RequestOK'
  BY FinishStep DEF TypeInv, Put
<1>2. target' \in {target, Updated(w)} /\ replaced' \in {replaced, target}
  BY DEF Put, Updated
<1>3. Updated(w) \in Projects
  BY UpdatedFacts DEF Put
<1>4. SharedOK'
  BY <1>2, <1>3 DEF Put, TypeInv, TypeOK, SharedOK
<1>5. Stays /\ copy' = copy
  BY <1>2, <1>3, Bases DEF Put, Stays
<1>6. ShapeInv'
  BY <1>5, FinishShape DEF Put, TypeInv, ShapeInv, Stays
<1>7. QED
  BY <1>1, <1>4, <1>6 DEF TypeInv, TypeOK, RequestOK, SharedOK

LEMMA UndoType == ASSUME TypeInv, NEW w \in Workers, UndoSync(w) PROVE TypeInv'
<1>1. RequestOK' /\ Rest(w) /\ Shape(w)' /\ got' = got
  BY DEF TypeInv, TypeOK, ShapeInv, Shape, Syncing, UndoSync, Begin, Goto, RequestOK, Rest, Steps
<1>2. SharedOK'
  BY Bases DEF TypeInv, TypeOK, UndoSync, Begin, SharedOK
<1>3. Stays /\ target' = target /\ copy' = copy
  BY DEF UndoSync, Begin, Stays
<1>4. ShapeInv'
  BY <1>1, <1>3, ShapeStep DEF TypeInv, ShapeInv
<1>5. QED
  BY <1>1, <1>2, <1>4 DEF TypeInv, TypeOK, RequestOK, SharedOK

LEMMA ReadCopyType == ASSUME TypeInv, NEW w \in Workers, ReadCopy(w) PROVE TypeInv'
<1>1. RequestOK' /\ Rest(w) /\ Shape(w)' /\ got'[w] \in {copy, NoProject}
  <2>1. CASE Finish(w)
    BY <2>1, FinishStep DEF TypeInv, Shape, Syncing
  <2>2. CASE ~Finish(w)
    BY <2>2 DEF TypeInv, TypeOK, ShapeInv, Shape, Syncing, ReadCopy, Goto, RequestOK, Rest, Steps
  <2>3. QED
    BY <2>1, <2>2
<1>2. SharedOK' /\ Stays /\ target' = target /\ copy' = copy
  BY DEF TypeInv, TypeOK, ReadCopy, SharedOK, Stays
<1>3. ShapeInv'
  BY <1>1, <1>2, ShapeStep DEF TypeInv, ShapeInv
<1>4. QED
  BY <1>1, <1>2, <1>3 DEF TypeInv, TypeOK, RequestOK, SharedOK

\* The target that an undo leaves behind.
Restored(w) == [info     |-> Filled(got[w].info),
                category |-> target.category,
                enabled  |-> got[w].enabled]

LEMMA RestoredFacts ==
  ASSUME TypeInv, NEW w \in Workers, pc[w] = "put_back"
  PROVE  /\ Restored(w) \in Projects /\ Restored(w).info = Filled(got[w].info)
         /\ Restored(w).enabled = TRUE
         /\ target \in Projects /\ got[w] \in Projects
<1>1. target \in Projects /\ got[w] \in Projects /\ got[w].enabled
  BY DEF TypeInv, TypeOK, ShapeInv, Shape, Syncing
<1>2. Filled(got[w].info) \in [Settings -> Values]
  BY <1>1, ProjectFields, FilledType
<1>3. target.category \in Categories /\ got[w].enabled = TRUE
  BY <1>1, ProjectFields
<1>4. QED
  BY <1>1, <1>2, <1>3, IsProject DEF Restored

LEMMA PutBackType == ASSUME TypeInv, NEW w \in Workers, PutBack(w) PROVE TypeInv'
<1>1. RequestOK' /\ Rest(w) /\ Shape(w)' /\ got' = got
  BY DEF TypeInv, TypeOK, ShapeInv, Shape, Syncing, PutBack, Goto, RequestOK, Rest, Steps
<1>2. target' \in {target, Restored(w)} /\ replaced' \in {replaced, NoProject}
  BY DEF PutBack, Restored
<1>3. Restored(w) \in Projects
  BY RestoredFacts DEF PutBack
<1>4. SharedOK'
  BY <1>2, <1>3 DEF PutBack, TypeInv, TypeOK, SharedOK
<1>5. Stays /\ copy' = copy
  BY <1>2, <1>3, Bases DEF PutBack, Stays
<1>6. ShapeInv'
  BY <1>1, <1>5, ShapeStep DEF TypeInv, ShapeInv, Stays
<1>7. QED
  BY <1>1, <1>4, <1>6 DEF TypeInv, TypeOK, RequestOK, SharedOK

LEMMA DeleteType ==
  ASSUME TypeInv, NEW w \in Workers, DeleteCopy(w) \/ Abort(w) PROVE TypeInv'
<1>1. Finish(w) /\ target' = target /\ copy' \in {copy, NoProject}
  BY DEF DeleteCopy, Abort
<1>2. RequestOK'
  BY <1>1, FinishStep DEF TypeInv
<1>3. SharedOK'
  BY DEF TypeInv, TypeOK, SharedOK, DeleteCopy, Abort
<1>4. ShapeInv'
  BY <1>1, FinishShape DEF TypeInv, ShapeInv, Stays
<1>5. QED
  BY <1>2, <1>3, <1>4 DEF TypeInv, TypeOK, RequestOK, SharedOK

LEMMA OwnersType ==
  ASSUME TypeInv, CopyExpires \/ EditSource \/ EditTarget \/ EnableSync \/ UNCHANGED vars
  PROVE  TypeInv'
<1>1. /\ request' = request /\ overlap' = overlap /\ names' = names /\ served' = served
      /\ copy' \in {copy, NoProject} /\ replaced' \in {replaced, NoProject}
      /\ edits' \in 0..MaxEdits
  BY Bases DEF TypeInv, TypeOK, CopyExpires, EditSource, EditTarget, EnableSync, Edits, vars
<1>2. source' \in Projects
  <2>1. CASE \E s \in EditedKeys, v \in Values : source' = [source EXCEPT !.info[s] = v]
    BY <2>1, Bases DEF TypeInv, TypeOK, Projects
  <2>2. CASE \E c \in Categories : source' = [source EXCEPT !.category = c]
    BY <2>2 DEF TypeInv, TypeOK, Projects
  <2>3. QED
    BY <2>1, <2>2 DEF TypeInv, TypeOK, CopyExpires, EditSource, EditTarget, EnableSync, vars
<1>3. /\ target' \in Projects \cup {NoProject}
      /\ target # NoProject <=> target' # NoProject
      /\ told' \in [Settings -> SUBSET Values]
  <2>1. CASE EditTarget
    BY <2>1, Bases DEF TypeInv, TypeOK, EditTarget, Projects
  <2>2. CASE EnableSync
    BY <2>2, Bases DEF TypeInv, TypeOK, EnableSync, Projects
  <2>3. QED
    BY <2>1, <2>2 DEF TypeInv, TypeOK, CopyExpires, EditSource, vars
<1>4. TypeOK'
  BY <1>1, <1>2, <1>3 DEF TypeInv, TypeOK, request
<1>5. ShapeInv'
  BY <1>1, <1>3 DEF TypeInv, ShapeInv, Shape, Syncing, request
<1>6. QED
  BY <1>4, <1>5 DEF TypeInv

LEMMA TypeStep == TypeInv /\ [Next]_vars => TypeInv'
<1> SUFFICES ASSUME TypeInv, [Next]_vars PROVE TypeInv'
  OBVIOUS
<1>1. ASSUME NEW w \in Workers, Step(w) PROVE TypeInv'
  BY <1>1, SyncType, GetTargetType, GetCategoryType, AgainType, PostCategoryType, CreateType,
     CacheType, PutType, UndoType, ReadCopyType, PutBackType, DeleteType DEF Step
<1>2. CASE CopyExpires \/ EditSource \/ EditTarget \/ EnableSync \/ UNCHANGED vars
  BY <1>2, OwnersType
<1>3. QED
  BY <1>1, <1>2 DEF Next, Horizon

\* Every variable has its type.
THEOREM TypeCorrect == Spec => []TypeOK
BY TypeInit, TypeStep, PTL DEF Spec, TypeInv

-----------------------------------------------------------------------------
(* The settings that are not passed on.                                    *)

\* What has been told of each setting covers the target, and every copy of it.
Own(p) == p # NoProject => \A s \in Settings \ PassThrough : p.info[s] \in told[s]

OwnInv ==
  /\ Own(target) /\ Own(copy)
  /\ \A w \in Workers : Own(got[w])

LEMMA OwnInit == Init => OwnInv
<1> SUFFICES ASSUME Init PROVE OwnInv
  OBVIOUS
<1>1. Own(target)
  BY DEF Init, Own, Bare
<1>2. QED
  BY <1>1 DEF Init, OwnInv, Own

\* A step that tells nothing less, and takes its copies from what there is.
LEMMA OwnKept ==
  ASSUME TypeInv, OwnInv, \A s \in Settings : told[s] \subseteq told'[s],
         Own(target)', copy' \in {copy, target, NoProject} \cup {got[w] : w \in Workers},
         \A w \in Workers : got'[w] \in {got[w], copy, target, NoProject}
  PROVE  OwnInv'
BY DEF OwnInv, Own

LEMMA OwnStep == TypeInv /\ OwnInv /\ [Next]_vars => OwnInv'
<1> SUFFICES ASSUME TypeInv, OwnInv, [Next]_vars PROVE OwnInv'
  OBVIOUS
<1> USE DEF TypeInv
<1>1. \A w \in Workers : Finish(w) => \A v \in Workers : got'[v] \in {got[v], NoProject}
  BY FinishStep DEF Rest
<1>2. ASSUME NEW w \in Workers,
             Sync(w) \/ GetTarget(w) \/ GetCategory(w) \/ GetCategoryAgain(w) \/ PostCategory(w)
               \/ UndoSync(w) \/ ReadCopy(w) \/ DeleteCopy(w) \/ Abort(w) \/ CacheTarget(w)
      PROVE  OwnInv'
  <2>1. told' = told /\ target' = target
    BY <1>2 DEF Sync, Begin, GetTarget, GetCategory, GetCategoryAgain, PostCategory,
                UndoSync, ReadCopy, DeleteCopy, Abort, CacheTarget
  <2>2. copy' \in {copy, NoProject} \cup {got[v] : v \in Workers}
    BY <1>2 DEF Sync, Begin, GetTarget, GetCategory, GetCategoryAgain, PostCategory,
                UndoSync, ReadCopy, DeleteCopy, Abort, CacheTarget
  <2>3. \A v \in Workers : got'[v] \in {got[v], copy, target, NoProject}
    <3>1. CASE Finish(w)
      BY <1>1, <3>1
    <3>2. CASE ~Finish(w)
      BY <1>2, <3>2 DEF TypeOK, Sync, Begin, GetTarget, GetCategory, GetCategoryAgain,
                PostCategory, UndoSync, ReadCopy, DeleteCopy, Abort, CacheTarget, Payload, NotFound
    <3>3. QED
      BY <3>1, <3>2
  <2>4. QED
    BY <2>1, <2>2, <2>3, OwnKept DEF OwnInv, Own
<1>3. ASSUME NEW w \in Workers, Create(w) PROVE OwnInv'
  <2>1. CASE target = NoProject /\ target' = Created(w)
    <3>1. told' = [s \in Settings |-> {IF s \in KeptBack THEN Unset ELSE mine[w].info[s]}]
      BY <1>3, <2>1, CreatedIsProject, Bases DEF Create
    <3>2. Own(target)'
      BY <1>3, <2>1, <3>1, CreatedIsProject DEF Create, Own
    <3>3. copy' = NoProject /\ \A v \in Workers : got'[v] = NoProject
      BY <1>1, <1>3, <2>1 DEF Create, ShapeInv
    <3>4. QED
      BY <3>2, <3>3 DEF OwnInv, Own
  <2>2. CASE target' = target /\ told' = told
    BY <1>1, <1>3, <2>2, OwnKept DEF Create, OwnInv, Own
  <2>3. QED
    BY <1>3, <2>1, <2>2 DEF Create
<1>4. ASSUME NEW w \in Workers, Put(w) PROVE OwnInv'
  <2>1. told' = told /\ copy' = copy /\ \A v \in Workers : got'[v] \in {got[v], NoProject}
    BY <1>1, <1>4 DEF Put
  <2>2. target \in Projects /\ got[w] \in Projects /\ mine[w] \in Projects
        /\ Updated(w).info = Filled(Merged(w))
    BY <1>4, UpdatedFacts DEF Put
  <2>3. \A s \in Settings \ PassThrough : Filled(Merged(w))[s] \in {target.info[s], got[w].info[s]}
    BY <2>2, MergedType, FilledType
  <2>4. target' \in {target, Updated(w)}
    BY <1>4 DEF Put, Updated
  <2>5. Own(target)'
    BY <2>1, <2>2, <2>3, <2>4, Bases DEF OwnInv, Own
  <2>6. QED
    BY <2>1, <2>5, OwnKept
<1>5. ASSUME NEW w \in Workers, PutBack(w) PROVE OwnInv'
  <2>1. told' = told /\ copy' = copy /\ got' = got
    BY <1>5 DEF PutBack
  <2>2. target \in Projects /\ got[w] \in Projects
        /\ Restored(w).info = Filled(got[w].info)
    BY <1>5, RestoredFacts DEF PutBack
  <2>3. \A s \in Settings : Filled(got[w].info)[s] \in {target.info[s], got[w].info[s]}
    BY <2>2, ProjectFields, FilledType
  <2>4. target' \in {target, Restored(w)}
    BY <1>5 DEF PutBack, Restored
  <2>5. Own(target)'
    BY <2>1, <2>2, <2>3, <2>4, Bases DEF OwnInv, Own
  <2>6. QED
    BY <2>1, <2>5, OwnKept
<1>6. CASE EditTarget
  <2>1. PICK s \in EditedKeys, v \in Values :
          /\ target' = [target EXCEPT !.info[s] = v]
          /\ told' = [told EXCEPT ![s] = @ \cup {v}]
    BY <1>6 DEF EditTarget
  <2>2. target \in Projects /\ target.info \in [Settings -> Values] /\ s \in Settings
    BY <1>6, ProjectFields, Bases DEF EditTarget, TypeOK
  <2>3. \A k \in Settings : target'.info[k] \in {target.info[k]} \cup (IF k = s THEN {v} ELSE {})
    BY <2>1, <2>2 DEF Projects
  <2>4. told' \in [Settings -> SUBSET Values] /\ told'[s] = told[s] \cup {v}
        /\ \A k \in Settings \ {s} : told'[k] = told[k]
    BY <2>1, <2>2 DEF TypeOK
  <2>5. Own(target)'
    BY <1>6, <2>3, <2>4 DEF OwnInv, Own, EditTarget
  <2>6. copy' = copy /\ got' = got
    BY <1>6 DEF EditTarget, Edits, request
  <2>7. QED
    BY <2>4, <2>5, <2>6, OwnKept
<1>7. CASE CopyExpires \/ EditSource \/ EnableSync \/ UNCHANGED vars
  <2>1. told' = told /\ copy' \in {copy, NoProject} /\ got' = got
    BY <1>7 DEF CopyExpires, EditSource, EnableSync, Edits, request, vars
  <2>2. CASE EnableSync
    <3>1. target \in Projects /\ target' = [target EXCEPT !.enabled = ~@]
      BY <2>2 DEF EnableSync, TypeOK
    <3>2. target'.info = target.info /\ target # NoProject
      BY <3>1, Bases DEF Projects
    <3>3. QED
      BY <2>1, <3>2, OwnKept DEF OwnInv, Own
  <2>3. CASE target' = target
    BY <2>1, <2>3, OwnKept DEF OwnInv, Own
  <2>4. QED
    BY <1>7, <2>2, <2>3 DEF CopyExpires, EditSource, vars
<1>8. QED
  BY <1>2, <1>3, <1>4, <1>5, <1>6, <1>7 DEF Next, Step, Horizon

\* However syncs and undos overlap, a setting of the target that is not passed on is
\* one that the target's owner has set, or that it was created with.
THEOREM OwnTheorem == Spec => []SettingsAreItsOwn
<1>1. OwnInv => SettingsAreItsOwn
  BY DEF OwnInv, Own, SettingsAreItsOwn
<1>2. QED
  BY <1>1, TypeInit, TypeStep, OwnInit, OwnStep, PTL DEF Spec

-----------------------------------------------------------------------------
(* The category of a new project.                                          *)

\* A payload without the source's category is that of a request that was refused.
Categorised(w) ==
  pc[w] \in {"create", "cache", "put"} /\ ~failed[w] => cat[w] = mine[w].category

CategoryInv == \A w \in Workers : Categorised(w)

LEMMA CategoryInit == Init => CategoryInv
BY DEF Init, CategoryInv, Categorised

LEMMA CategoryStep == TypeInv /\ CategoryInv /\ [Next]_vars => CategoryInv'
<1> SUFFICES ASSUME TypeInv, CategoryInv, [Next]_vars PROVE CategoryInv'
  OBVIOUS
<1>1. ASSUME NEW w \in Workers, Rest(w), Categorised(w)' PROVE CategoryInv'
  BY <1>1 DEF CategoryInv, Categorised, Rest
<1>2. ASSUME NEW w \in Workers, Finish(w) PROVE CategoryInv'
  BY <1>1, <1>2, FinishStep DEF TypeInv, Categorised
<1>3. ASSUME NEW w \in Workers, GetCategory(w) PROVE CategoryInv'
  <2>1. mine[w].category \in Categories /\ failed[w] \in BOOLEAN
    BY <1>3 DEF TypeInv, TypeOK, ShapeInv, Shape, Syncing, GetCategory, Projects
  <2>2. CASE Payload(w, mine[w].category, failed[w])
    BY <1>1, <1>3, <2>1, <2>2, PayloadStep DEF GetCategory, Categorised
  <2>3. CASE NotFound(w, "again")
    BY <1>1, <1>3, <2>3, NotFoundStep DEF GetCategory, Categorised
  <2>4. QED
    BY <1>3, <2>2, <2>3 DEF GetCategory
<1>4. ASSUME NEW w \in Workers, GetCategoryAgain(w) PROVE CategoryInv'
  <2>1. CASE NotFound(w, "post_category")
    BY <1>1, <1>4, <2>1, NotFoundStep DEF GetCategoryAgain, Categorised
  <2>2. QED
    BY <1>2, <1>4, <2>1 DEF GetCategoryAgain
<1>5. ASSUME NEW w \in Workers, PostCategory(w) PROVE CategoryInv'
  <2>1. mine[w].category \in Categories /\ failed[w] \in BOOLEAN
    BY <1>5 DEF TypeInv, TypeOK, ShapeInv, Shape, Syncing, PostCategory, Projects
  <2>2. CASE Payload(w, Posted(w), failed[w])
    BY <1>1, <1>5, <2>1, <2>2, PayloadStep DEF PostCategory, Posted, Categorised
  <2>3. CASE Payload(w, NoCategory, TRUE)
    BY <1>1, <1>5, <2>3, PayloadStep DEF PostCategory, Categorised
  <2>4. QED
    BY <1>2, <1>5, <2>2, <2>3 DEF PostCategory
<1>6. ASSUME NEW w \in Workers,
             Sync(w) \/ GetTarget(w) \/ CacheTarget(w) \/ UndoSync(w) \/ PutBack(w) \/ ReadCopy(w)
      PROVE  CategoryInv'
  <2>1. CASE Finish(w)
    BY <1>2, <2>1
  <2>2. CASE ~Finish(w)
    <3>1. Rest(w)
      BY <1>6, <2>2 DEF TypeInv, TypeOK, Sync, GetTarget, CacheTarget, UndoSync, PutBack, ReadCopy,
                        Begin, Goto, Rest
    <3>2. Categorised(w)'
      BY <1>6, <2>2 DEF TypeInv, TypeOK, Sync, GetTarget, CacheTarget, UndoSync, PutBack, ReadCopy,
                        Begin, Goto, CategoryInv, Categorised
    <3>3. QED
      BY <1>1, <3>1, <3>2
  <2>3. QED
    BY <2>1, <2>2
<1>7. ASSUME NEW w \in Workers, Create(w) \/ Put(w) \/ DeleteCopy(w) \/ Abort(w) PROVE CategoryInv'
  BY <1>2, <1>7 DEF Create, Put, DeleteCopy, Abort
<1>8. CASE CopyExpires \/ EditSource \/ EditTarget \/ EnableSync \/ UNCHANGED vars
  BY <1>8 DEF CopyExpires, EditSource, EditTarget, EnableSync, Edits, request, vars,
              CategoryInv, Categorised
<1>9. QED
  BY <1>3, <1>4, <1>5, <1>6, <1>7, <1>8 DEF Next, Step, Horizon

\* What a step may do, without the names of the variables.
Born == target = NoProject /\ target' # NoProject =>
          \A w \in Workers : pc[w] = "create" /\ pc'[w] # "create" /\ ~failed[w] =>
                               target'.category = mine[w].category

LEMMA BornStep == TypeInv /\ CategoryInv /\ [Next]_vars => Born
<1> SUFFICES ASSUME TypeInv, CategoryInv, [Next]_vars, target = NoProject, target' # NoProject,
                    NEW w \in Workers, pc[w] = "create", pc'[w] # "create", ~failed[w]
             PROVE  target'.category = mine[w].category
  BY DEF Born
<1>1. PICK v \in Workers : Create(v)
  <2>1. \A v \in Workers : pc[v] \notin {"put", "put_back"}
    BY DEF TypeInv, ShapeInv, Shape
  <2>2. QED
    BY <2>1 DEF Next, Step, Sync, Begin, GetTarget, GetCategory, GetCategoryAgain, PostCategory,
                CacheTarget, Put, UndoSync, ReadCopy, PutBack, DeleteCopy, Abort,
                CopyExpires, EditSource, EditTarget, EnableSync, Edits, Horizon, vars
<1>2. v = w
  BY <1>1, FinishStep DEF TypeInv, Create, Rest
<1>3. target' = Created(w) /\ Created(w).category = CategoryOf(w) /\ mine[w] \in Projects
  BY <1>1, <1>2, CreatedIsProject DEF Create
<1>4. cat[w] = mine[w].category /\ mine[w].category \in Categories
  BY <1>3, ProjectFields DEF CategoryInv, Categorised
<1>5. QED
  BY <1>3, <1>4, Bases DEF CategoryOf

\* A project is created in the category of the source, unless a call was refused.
THEOREM CategoryTheorem == Spec => BornInCategory
<1>1. Spec => [](TypeInv /\ CategoryInv)
  BY TypeInit, TypeStep, CategoryInit, CategoryStep, PTL DEF Spec
<1>2. TypeInv /\ CategoryInv /\ [Next]_vars => [Born]_vars
  BY BornStep
<1>3. Spec => [][Born]_vars
  BY <1>1, <1>2, PTL DEF Spec
<1>4. QED
  BY <1>3, PTL DEF BornInCategory, Born

-----------------------------------------------------------------------------
(* Undo, while requests and edits take turns.                              *)

\* One request is active.
OneInv == ~overlap => \A v, w \in Workers : pc[v] # "idle" /\ pc[w] # "idle" => v = w

\* The copy in Redis is what the last sync replaced, and a target that a sync has
\* changed is not enabled: no later sync gets as far as the copy.
CopyInv ==
  ~overlap /\ replaced # NoProject =>
    /\ replaced \in Projects /\ replaced.enabled /\ copy \in {NoProject, replaced}
    /\ target # NoProject /\ ~target.enabled

\* What a request has fetched is what the target is.
GotInv ==
  ~overlap => \A w \in Workers :
    /\ pc[w] \in Syncing /\ got[w] # NoProject => got[w] = target
    /\ pc[w] = "put" => copy \in {NoProject, target}
    /\ pc[w] = "put_back" /\ replaced # NoProject => got[w] = replaced

TurnInv == OneInv /\ CopyInv /\ GotInv

LEMMA TurnInit == Init => TurnInv
BY DEF Init, TurnInv, OneInv, CopyInv, GotInv

\* The other requests are idle.
Alone(w) == \A v \in Workers \ {w} : pc[v] = "idle" /\ got[v] = NoProject

LEMMA AloneWhenActive ==
  ASSUME TypeInv, TurnInv, ~overlap, NEW w \in Workers, pc[w] # "idle" PROVE Alone(w)
BY DEF TypeInv, ShapeInv, Shape, TurnInv, OneInv, Alone

\* A step of w with the others at rest.
LEMMA TurnKept ==
  ASSUME TypeInv, TypeInv', NEW w \in Workers, ~overlap, overlap' = overlap, Alone(w), Rest(w),
         CopyInv',
         (pc[w] \in Syncing)' /\ got'[w] # NoProject => got'[w] = target',
         pc'[w] = "put" => copy' \in {NoProject, target'},
         pc'[w] = "put_back" /\ replaced' # NoProject => got'[w] = replaced'
  PROVE  TurnInv'
<1>1. \A v \in Workers \ {w} : pc'[v] = "idle" /\ got'[v] = NoProject
  BY DEF Alone, Rest
<1>2. OneInv'
  BY <1>1 DEF OneInv
<1>3. GotInv'
  BY <1>1 DEF GotInv, Syncing
<1>4. QED
  BY <1>2, <1>3 DEF TurnInv

LEMMA TurnStep == TypeInv /\ TypeInv' /\ TurnInv /\ [Next]_vars => TurnInv'
<1> SUFFICES ASSUME TypeInv, TypeInv', TurnInv, [Next]_vars PROVE TurnInv'
  OBVIOUS
<1>1. overlap' = overlap
  BY DEF Next, Step, Sync, Begin, GetTarget, GetCategory, GetCategoryAgain, PostCategory,
         Create, CacheTarget, Put, UndoSync, ReadCopy, PutBack, DeleteCopy, Abort,
         CopyExpires, EditSource, EditTarget, EnableSync, Edits, Horizon, vars
<1>2. CASE overlap
  BY <1>1, <1>2 DEF TurnInv, OneInv, CopyInv, GotInv
<1>3. CASE ~overlap
  <2> USE <1>1, <1>3
  <2>1. ASSUME NEW w \in Workers, pc[w] # "idle" PROVE Alone(w)
    BY <2>1, AloneWhenActive
  <2>2. ASSUME NEW w \in Workers, Finish(w), Alone(w), CopyInv' PROVE TurnInv'
    BY <2>2, FinishStep, TurnKept DEF TypeInv, Syncing
  <2>3. ASSUME NEW w \in Workers, Sync(w) \/ UndoSync(w) PROVE TurnInv'
    <3>1. Alone(w) /\ got[w] = NoProject
      BY <2>3 DEF Sync, UndoSync, Begin, AtRest, Alone, TypeInv, ShapeInv, Shape
    <3>2. /\ Rest(w) /\ got' = got /\ pc'[w] \in {"get", "read_copy"}
          /\ replaced' = replaced /\ copy' = copy /\ target' = target
      BY <2>3 DEF Sync, UndoSync, Begin, Goto, Rest, TypeInv, TypeOK
    <3>3. CopyInv'
      BY <3>2 DEF TurnInv, CopyInv
    <3>4. QED
      BY <3>1, <3>2, <3>3, TurnKept
  <2>4. ASSUME NEW w \in Workers,
               GetTarget(w) \/ GetCategory(w) \/ GetCategoryAgain(w) \/ PostCategory(w)
        PROVE  TurnInv'
    <3>1. Alone(w) /\ pc[w] \in Syncing
      BY <2>1, <2>4 DEF GetTarget, GetCategory, GetCategoryAgain, PostCategory, Syncing
    <3>2. replaced' = replaced /\ copy' = copy /\ target' = target
      BY <2>4 DEF GetTarget, GetCategory, GetCategoryAgain, PostCategory
    <3>3. CopyInv'
      BY <3>2 DEF TurnInv, CopyInv
    <3>4. CASE Finish(w)
      BY <2>2, <3>1, <3>3, <3>4
    <3>5. CASE ~Finish(w)
      <4>1. Rest(w)
        BY <2>4, <3>5 DEF GetTarget, GetCategory, GetCategoryAgain, PostCategory, Payload, NotFound,
                          Goto, Rest, TypeInv, TypeOK
      <4>2. pc'[w] \notin {"put", "put_back"}
        BY <2>4, <3>5 DEF GetTarget, GetCategory, GetCategoryAgain, PostCategory, Payload, NotFound,
                          Goto, TypeInv, TypeOK
      <4>3. got'[w] \in {got[w], target, NoProject}
        BY <2>4, <3>5 DEF GetTarget, GetCategory, GetCategoryAgain, PostCategory, Payload, NotFound,
                          TypeInv, TypeOK
      <4>4. got'[w] # NoProject => got'[w] = target'
        BY <3>1, <3>2, <4>3 DEF TurnInv, GotInv
      <4>5. QED
        BY <3>1, <3>3, <4>1, <4>2, <4>4, TurnKept
    <3>6. QED
      BY <3>4, <3>5
  <2>5. ASSUME NEW w \in Workers, Create(w) PROVE TurnInv'
    <3>1. Alone(w)
      BY <2>1, <2>5 DEF Create
    <3>2. CopyInv'
      BY <2>5 DEF Create, TurnInv, CopyInv
    <3>3. QED
      BY <2>2, <2>5, <3>1, <3>2 DEF Create
  <2>6. ASSUME NEW w \in Workers, CacheTarget(w) PROVE TurnInv'
    <3>1. Alone(w) /\ got[w] = target /\ got[w] # NoProject /\ got[w].enabled
      BY <2>1, <2>6 DEF CacheTarget, TurnInv, GotInv, Syncing, TypeInv, ShapeInv, Shape
    <3>2. /\ copy' = target /\ target' = target /\ replaced' = replaced /\ got' = got
          /\ Rest(w) /\ pc'[w] = "put"
      BY <2>6, <3>1 DEF CacheTarget, Goto, Rest, TypeInv, TypeOK
    <3>3. replaced = NoProject
      BY <3>1 DEF TurnInv, CopyInv
    <3>4. CopyInv'
      BY <3>2, <3>3 DEF CopyInv
    <3>5. QED
      BY <3>1, <3>2, <3>3, <3>4, TurnKept
  <2>7. ASSUME NEW w \in Workers, Put(w) PROVE TurnInv'
    <3>1. Alone(w) /\ got[w] = target /\ got[w] \in Projects /\ got[w].enabled
      BY <2>1, <2>7, UpdatedFacts DEF Put, TurnInv, GotInv, Syncing, TypeInv, ShapeInv, Shape
    <3>2. copy \in {NoProject, target} /\ copy' = copy
      BY <2>7 DEF Put, TurnInv, GotInv
    <3>3. \/ replaced' = target /\ target' = Updated(w)
          \/ replaced' = replaced /\ target' = target
      BY <2>7 DEF Put, Updated
    <3>4. Updated(w) \in Projects /\ ~Updated(w).enabled
      BY <2>7, UpdatedFacts DEF Put
    <3>5. CopyInv'
      BY <3>1, <3>2, <3>3, <3>4, Bases DEF TurnInv, CopyInv
    <3>6. QED
      BY <2>2, <2>7, <3>1, <3>5 DEF Put
  <2>8. ASSUME NEW w \in Workers, ReadCopy(w) PROVE TurnInv'
    <3>1. Alone(w) /\ replaced' = replaced /\ copy' = copy /\ target' = target
      BY <2>1, <2>8 DEF ReadCopy
    <3>2. CopyInv'
      BY <3>1 DEF TurnInv, CopyInv
    <3>3. CASE Finish(w)
      BY <2>2, <3>1, <3>2, <3>3
    <3>4. CASE ~Finish(w)
      <4>1. Rest(w) /\ got'[w] = copy /\ copy # NoProject /\ pc'[w] = "put_back"
        BY <2>8, <3>4 DEF ReadCopy, Goto, Rest, TypeInv, TypeOK
      <4>2. replaced # NoProject => copy = replaced
        BY <4>1 DEF TurnInv, CopyInv
      <4>3. QED
        BY <3>1, <3>2, <4>1, <4>2, TurnKept DEF Syncing
    <3>5. QED
      BY <3>3, <3>4
  <2>9. ASSUME NEW w \in Workers, PutBack(w) PROVE TurnInv'
    <3>1. Alone(w) /\ copy' = copy /\ got' = got
      BY <2>1, <2>9 DEF PutBack
    <3>2. Rest(w) /\ pc'[w] = "delete_copy"
      BY <2>9 DEF PutBack, Goto, Rest, TypeInv, TypeOK
    <3>3. CopyInv'
      BY <2>9 DEF PutBack, TurnInv, CopyInv
    <3>4. QED
      BY <3>1, <3>2, <3>3, TurnKept DEF Syncing
  <2>10. ASSUME NEW w \in Workers, DeleteCopy(w) \/ Abort(w) PROVE TurnInv'
    <3>1. Alone(w)
      BY <2>1, <2>10 DEF DeleteCopy, Abort
    <3>2. CopyInv'
      BY <2>10 DEF DeleteCopy, Abort, TurnInv, CopyInv
    <3>3. QED
      BY <2>2, <2>10, <3>1, <3>2 DEF DeleteCopy, Abort
  <2>11. CASE CopyExpires \/ UNCHANGED vars
    BY <2>11 DEF CopyExpires, request, vars, TurnInv, OneInv, CopyInv, GotInv
  <2>12. CASE EditSource \/ EditTarget \/ EnableSync
    <3>1. Edits
      BY <2>12 DEF EditSource, EditTarget, EnableSync
    <3>2. /\ pc' = pc /\ copy' = copy
          /\ \A w \in Workers : pc[w] = "idle"
      BY <3>1 DEF Edits, AtRest, request
    <3>3. \/ replaced' = NoProject
          \/ replaced' = replaced /\ target' = target
      BY <2>12 DEF EditSource, EditTarget, EnableSync
    <3>4. QED
      BY <3>2, <3>3 DEF TurnInv, OneInv, CopyInv, GotInv, Syncing
  <2>13. QED
    BY <2>3, <2>4, <2>5, <2>6, <2>7, <2>8, <2>9, <2>10, <2>11, <2>12 DEF Next, Step, Horizon
<1>4. QED
  BY <1>2, <1>3

\* What a step may do, without the names of the variables.
Undone ==
  ~overlap /\ replaced # NoProject =>
    \A w \in Workers :
      pc[w] = "put_back" /\ pc'[w] = "delete_copy" /\ replaced' = NoProject =>
        /\ target'.enabled
        /\ \A s \in Settings : replaced.info[s] # Unset => target'.info[s] = replaced.info[s]

LEMMA UndoneStep == TypeInv /\ TurnInv /\ [Next]_vars => Undone
<1> SUFFICES ASSUME TypeInv, TurnInv, [Next]_vars, ~overlap, replaced # NoProject,
                    NEW w \in Workers, pc[w] = "put_back", pc'[w] = "delete_copy",
                    replaced' = NoProject
             PROVE  /\ target'.enabled
                    /\ \A s \in Settings :
                         replaced.info[s] # Unset => target'.info[s] = replaced.info[s]
  BY DEF Undone
<1>1. \A v \in Workers : Step(v) => v = w
  <2>1. Alone(w)
    BY AloneWhenActive
  <2>2. \A v \in Workers \ {w} : ~Sync(v) /\ ~UndoSync(v)
    BY DEF Sync, UndoSync, Begin, AtRest
  <2>3. QED
    BY <2>1, <2>2 DEF Alone, Step, GetTarget, GetCategory, GetCategoryAgain, PostCategory, Create,
                      CacheTarget, Put, ReadCopy, PutBack, DeleteCopy, Abort
<1>2. PutBack(w)
  <2>1. ~CopyExpires /\ ~EditSource /\ ~EditTarget /\ ~EnableSync /\ ~UNCHANGED vars
    BY DEF CopyExpires, EditSource, EditTarget, EnableSync, Edits, request, vars
  <2>2. Step(w)
    BY <1>1, <2>1 DEF Next, Horizon
  <2>3. ~Abort(w)
    BY FinishStep DEF TypeInv, Abort
  <2>4. QED
    BY <2>2, <2>3 DEF Step, Sync, UndoSync, Begin, GetTarget, GetCategory, GetCategoryAgain,
                      PostCategory, Create, CacheTarget, Put, ReadCopy, DeleteCopy
<1>3. target' = Restored(w)
  BY <1>2 DEF PutBack, Restored
<1>4. got[w] = replaced
  BY DEF TurnInv, GotInv
<1>5. /\ target' .info = Filled(replaced.info) /\ target'.enabled = TRUE
      /\ target \in Projects /\ replaced \in Projects
  BY <1>3, <1>4, RestoredFacts
<1>6. QED
  BY <1>5, ProjectFields, FilledType

\* While requests take turns, an undo brings back the settings that the last sync has
\* replaced, whatever was refused, lost or died in between.
THEOREM UndoTheorem == Spec => UndoRestores
<1>1. Spec => [](TypeInv /\ TurnInv)
  BY TypeInit, TypeStep, TurnInit, TurnStep, PTL DEF Spec
<1>2. TypeInv /\ TurnInv /\ [Next]_vars => [Undone]_vars
  BY UndoneStep
<1>3. Spec => [][Undone]_vars
  BY <1>1, <1>2, PTL DEF Spec
<1>4. QED
  BY <1>3, PTL DEF UndoRestores, Undone
==============================================================================
