----------------------------- MODULE ProjectSync -----------------------------
(***************************************************************************)
(* pybossa/syncer: a project is copied to the instance of PYBOSSA where it *)
(* is in production, by calls of that instance's API, and the last copy    *)
(* can be undone: the syncer keeps in Redis what it is about to replace.   *)
(*                                                                         *)
(* Every call of the other instance and every command of Redis is a step.  *)
(* A call may be refused, or fail after it has had its effect; a reply     *)
(* that is lost is a step after which the request aborts.  The calls are   *)
(* atomic at the target: how requests of one instance overlap on the row   *)
(* of a project is in ProjectDocument.                                     *)
(***************************************************************************)
EXTENDS Naturals

CONSTANTS
  Workers,      \* requests of the source instance
  Values,       \* what a setting can hold
  Unset,        \* the setting is absent
  Categories,
  Default,      \* the category of a project that is created without one
  NoProject,    \* the target has no project of the name; nothing is in Redis
  NoCategory,
  EditedKeys,   \* bound on the settings that owners edit
  MaxRequests,  \* bound on the requests
  MaxEdits,     \* bound on the edits of both owners
  Modes         \* may requests and edits overlap: FALSE, TRUE or either

\* Settings in project.info: a sync of a project that the target has passes on
\* the first two, and one that creates it leaves the next two out; "timeout"
\* stands for all others.
PassThrough == {"task_presenter", "task_guidelines"}
KeptBack    == {"ext_config", "project_users"}
Settings    == PassThrough \cup KeptBack \cup {"timeout"}

ASSUME SyncConstants ==
  /\ Unset \in Values
  /\ Default \in Categories /\ NoCategory \notin Categories
  /\ EditedKeys \subseteq Settings
  /\ MaxRequests \in Nat /\ MaxEdits \in Nat
  /\ Modes \subseteq BOOLEAN

Projects == [info : [Settings -> Values], category : Categories, enabled : BOOLEAN]

ASSUME NoProjectIsNone == NoProject \notin Projects

VARIABLES
  overlap,   \* requests may overlap with each other and with edits
  source,    \* the project of the source instance
  target,    \* the project of the same short name on the target instance
  names,     \* the categories of the target instance
  copy,      \* the target as it was before the last sync, in Redis
  pc,        \* next step of each request
  mine,      \* the source as each request has read it
  got,       \* the target as each request has fetched it, or found it in Redis
  cat,       \* the category in the payload
  failed,    \* history: a call of the request was refused or has failed
  replaced,  \* history: what the last sync replaced, until anything else changes it
  told,      \* history: what each setting of the target was created with or set to
  served, edits  \* numbers of requests and of edits

request == <<pc, mine, got, cat, failed>>
vars == <<overlap, source, target, names, copy, request, replaced, told, served, edits>>

Steps == {"idle", "get", "category", "again", "post_category", "create",
          "cache", "put", "read_copy", "put_back", "delete_copy"}

\* Every variable has its type.
TypeOK ==
  /\ overlap \in BOOLEAN
  /\ source \in Projects
  /\ target \in Projects \cup {NoProject} /\ copy \in Projects \cup {NoProject}
  /\ replaced \in Projects \cup {NoProject}
  /\ names \in SUBSET Categories
  /\ pc \in [Workers -> Steps]
  /\ mine \in [Workers -> Projects \cup {NoProject}]
  /\ got \in [Workers -> Projects \cup {NoProject}]
  /\ cat \in [Workers -> Categories \cup {NoCategory}]
  /\ failed \in [Workers -> BOOLEAN]
  /\ told \in [Settings -> SUBSET Values]
  /\ served \in 0..MaxRequests /\ edits \in 0..MaxEdits

Bare == [s \in Settings |-> Unset]

Init ==
  /\ overlap \in Modes
  /\ \E c \in Categories : source = [info |-> Bare, category |-> c, enabled |-> FALSE]
  /\ \/ target = NoProject
     \/ \E e \in BOOLEAN : target = [info |-> Bare, category |-> Default, enabled |-> e]
  /\ told = [s \in Settings |-> {Unset}]
  /\ names \in SUBSET Categories /\ Default \in names
  /\ copy = NoProject /\ replaced = NoProject
  /\ pc = [w \in Workers |-> "idle"]
  /\ mine = [w \in Workers |-> NoProject] /\ got = [w \in Workers |-> NoProject]
  /\ cat = [w \in Workers |-> NoCategory]
  /\ failed = [w \in Workers |-> FALSE]
  /\ served = 0 /\ edits = 0

AtRest == \A w \in Workers : pc[w] = "idle"

Goto(w, step) == pc' = [pc EXCEPT ![w] = step]

\* The request is over; its variables are gone.
Finish(w) ==
  /\ Goto(w, "idle")
  /\ mine' = [mine EXCEPT ![w] = NoProject]
  /\ got' = [got EXCEPT ![w] = NoProject]
  /\ cat' = [cat EXCEPT ![w] = NoCategory]
  /\ failed' = [failed EXCEPT ![w] = FALSE]

Begin(w, step) ==
  /\ pc[w] = "idle" /\ (overlap \/ AtRest)
  /\ served < MaxRequests /\ served' = served + 1
  /\ Goto(w, step)
  /\ UNCHANGED <<overlap, source, target, names, copy, got, cat, failed, replaced, told, edits>>

-----------------------------------------------------------------------------
(* The button "sync".                                                      *)

Sync(w) ==
  /\ Begin(w, "get")
  /\ mine' = [mine EXCEPT ![w] = source]

\* get_target: a reply that is not ok counts as "there is none".
GetTarget(w) ==
  /\ pc[w] = "get"
  /\ Goto(w, "category")
  /\ \/ got' = [got EXCEPT ![w] = target] /\ UNCHANGED failed
     \/ failed' = [failed EXCEPT ![w] = TRUE] /\ UNCHANGED got
  /\ UNCHANGED <<overlap, source, target, names, copy, mine, cat, replaced, told, served, edits>>

\* The payload is complete, with category c or none: a project is created, or one
\* that is enabled for it is updated; otherwise NotEnabled is raised.
Payload(w, c, f) ==
  \/ /\ got[w] # NoProject => got[w].enabled
     /\ Goto(w, IF got[w] = NoProject THEN "create" ELSE "cache")
     /\ cat' = [cat EXCEPT ![w] = c]
     /\ failed' = [failed EXCEPT ![w] = f]
     /\ UNCHANGED <<mine, got>>
  \/ /\ got[w] # NoProject /\ ~got[w].enabled
     /\ Finish(w)

\* get_target of a CategorySyncer: there is no category, or the reply is not ok.
NotFound(w, step) ==
  /\ \/ mine[w].category \notin names /\ UNCHANGED failed
     \/ failed' = [failed EXCEPT ![w] = TRUE]
  /\ Goto(w, step)
  /\ UNCHANGED <<mine, got, cat>>

GetCategory(w) ==
  /\ pc[w] = "category"
  /\ \/ mine[w].category \in names /\ Payload(w, mine[w].category, failed[w])
     \/ NotFound(w, "again")
  /\ UNCHANGED <<overlap, source, target, names, copy, replaced, told, served, edits>>

\* CategorySyncer.sync asks again; if it finds the category, it returns nothing,
\* and the caller's use of the reply raises.
GetCategoryAgain(w) ==
  /\ pc[w] = "again"
  /\ \/ mine[w].category \in names /\ Finish(w)
     \/ NotFound(w, "post_category")
  /\ UNCHANGED <<overlap, source, target, names, copy, replaced, told, served, edits>>

\* Mutant of Posted: the reply is not looked at.
PostedUnread(w) == NoCategory
Posted(w) == mine[w].category

\* Without a good reply the payload has no category; 403 ends the sync.
PostCategory(w) ==
  /\ pc[w] = "post_category"
  /\ \/ /\ mine[w].category \notin names
        /\ names' = names \cup {mine[w].category}
        /\ Payload(w, Posted(w), failed[w])
     \/ /\ names' \in {names, names \cup {mine[w].category}}
        /\ Payload(w, NoCategory, TRUE)
     \/ UNCHANGED names /\ Finish(w)
  /\ UNCHANGED <<overlap, source, target, copy, replaced, told, served, edits>>

\* Mutant of CategoryOf: there is no default.
CategoryOrNone(w) == cat[w]
CategoryOf(w) == IF cat[w] = NoCategory THEN Default ELSE cat[w]

\* POST /api/project with the payload.
Created(w) ==
  [info     |-> [s \in Settings |-> IF s \in KeptBack THEN Unset ELSE mine[w].info[s]],
   category |-> CategoryOf(w),
   enabled  |-> FALSE]

\* The short name is unique: a second project is refused.
Create(w) ==
  /\ pc[w] = "create"
  /\ \/ /\ target = NoProject
        /\ target' = Created(w)
        /\ told' = [s \in Settings |-> {IF s \in KeptBack THEN Unset ELSE mine[w].info[s]}]
        /\ replaced' = NoProject
     \/ UNCHANGED <<target, told, replaced>>
  /\ Finish(w)
  /\ UNCHANGED <<overlap, source, names, copy, served, edits>>

CacheTarget(w) ==
  /\ pc[w] = "cache"
  /\ copy' = got[w]
  /\ Goto(w, "put")
  /\ UNCHANGED <<overlap, source, target, names, mine, got, cat, failed, replaced, told,
                 served, edits>>

\* PUT /api/project: project.info is replaced, and filled up with what the
\* target's has and the payload has not.
Filled(info) == [s \in Settings |-> IF info[s] = Unset THEN target.info[s] ELSE info[s]]

\* Mutant of Merged: all that the source has set is passed on.
MergedWhole(w) ==
  [s \in Settings |-> IF mine[w].info[s] # Unset THEN mine[w].info[s] ELSE got[w].info[s]]
\* The target's settings, with what is passed through.
Merged(w) ==
  [s \in Settings |->
     IF s \in PassThrough /\ mine[w].info[s] # Unset THEN mine[w].info[s]
     ELSE IF s \in KeptBack THEN Unset
     ELSE got[w].info[s]]

\* Mutant of EnabledAfterSync: the target stays enabled.
StillEnabled == TRUE
EnabledAfterSync == FALSE

Put(w) ==
  /\ pc[w] = "put"
  /\ \/ /\ target' = [info     |-> Filled(Merged(w)),
                      category |-> IF cat[w] = NoCategory THEN target.category ELSE cat[w],
                      enabled  |-> EnabledAfterSync]
        /\ replaced' = target
     \/ UNCHANGED <<target, replaced>>
  /\ Finish(w)
  /\ UNCHANGED <<overlap, source, names, copy, told, served, edits>>

-----------------------------------------------------------------------------
(* The button "undo".                                                      *)

UndoSync(w) == Begin(w, "read_copy") /\ UNCHANGED mine

ReadCopy(w) ==
  /\ pc[w] = "read_copy"
  /\ \/ /\ copy = NoProject
        /\ Finish(w)
     \/ /\ copy # NoProject
        /\ got' = [got EXCEPT ![w] = copy]
        /\ Goto(w, "put_back")
        /\ UNCHANGED <<mine, cat, failed>>
  /\ UNCHANGED <<overlap, source, target, names, copy, replaced, told, served, edits>>

\* The payload has the settings, and not the category.
PutBack(w) ==
  /\ pc[w] = "put_back"
  /\ \/ /\ target' = [info     |-> Filled(got[w].info),
                      category |-> target.category,
                      enabled  |-> got[w].enabled]
        /\ replaced' = NoProject
     \/ UNCHANGED <<target, replaced>>
  /\ Goto(w, "delete_copy")
  /\ UNCHANGED <<overlap, source, names, copy, mine, got, cat, failed, told, served, edits>>

\* Whatever the reply was.
DeleteCopy(w) ==
  /\ pc[w] = "delete_copy"
  /\ copy' = NoProject
  /\ Finish(w)
  /\ UNCHANGED <<overlap, source, target, names, replaced, told, served, edits>>

-----------------------------------------------------------------------------
(* Failures, time, and the owners of both projects.                        *)

\* The worker dies, a call raises, or its reply is lost.
Abort(w) ==
  /\ pc[w] # "idle"
  /\ Finish(w)
  /\ UNCHANGED <<overlap, source, target, names, copy, replaced, told, served, edits>>

\* The copy is kept for a week.
CopyExpires ==
  /\ copy # NoProject
  /\ copy' = NoProject
  /\ UNCHANGED <<overlap, source, target, names, request, replaced, told, served, edits>>

Edits ==
  /\ overlap \/ AtRest
  /\ edits < MaxEdits /\ edits' = edits + 1
  /\ UNCHANGED <<overlap, names, copy, request, served>>

EditSource ==
  /\ Edits
  /\ \/ \E s \in EditedKeys, v \in Values : source' = [source EXCEPT !.info[s] = v]
     \/ \E c \in Categories : source' = [source EXCEPT !.category = c]
  /\ UNCHANGED <<target, replaced, told>>

EditTarget ==
  /\ Edits /\ target # NoProject
  /\ \E s \in EditedKeys, v \in Values :
       /\ target' = [target EXCEPT !.info[s] = v]
       /\ told' = [told EXCEPT ![s] = @ \cup {v}]
  /\ replaced' = NoProject
  /\ UNCHANGED source

\* The form of the project's details has a box for it.
EnableSync ==
  /\ Edits /\ target # NoProject
  /\ target' = [target EXCEPT !.enabled = ~@]
  /\ replaced' = NoProject
  /\ UNCHANGED <<source, told>>

Step(w) ==
  \/ Sync(w) \/ GetTarget(w) \/ GetCategory(w) \/ GetCategoryAgain(w) \/ PostCategory(w)
  \/ Create(w) \/ CacheTarget(w) \/ Put(w)
  \/ UndoSync(w) \/ ReadCopy(w) \/ PutBack(w) \/ DeleteCopy(w) \/ Abort(w)

\* Bound: requests and edits are used up.
Horizon ==
  /\ AtRest /\ served = MaxRequests
  /\ UNCHANGED vars

Next ==
  \/ \E w \in Workers : Step(w)
  \/ CopyExpires \/ EditSource \/ EditTarget \/ EnableSync \/ Horizon

Spec == Init /\ [][Next]_vars

-----------------------------------------------------------------------------
(* Properties.                                                             *)

\* However requests overlap, get lost or fail, a sync passes on the presenter and
\* the guidelines and nothing else: any other setting of the target is one that
\* it was created with or that its owner has set there, and what is kept back
\* never leaves the source.
SettingsAreItsOwn ==
  target # NoProject => \A s \in Settings \ PassThrough : target.info[s] \in told[s]

\* While requests and edits take turns, an undo of the sync that was the last to
\* change the target brings back every setting that the sync has found there,
\* whatever syncs were refused since, replies were lost or workers have died: the
\* copy in Redis is the one that this sync has made.  (Settings that were absent
\* stay, and so does the category.)
UndoRestores ==
  [][~overlap /\ replaced # NoProject =>
       \A w \in Workers :
         pc[w] = "put_back" /\ pc'[w] = "delete_copy" /\ replaced' = NoProject =>
           /\ target'.enabled
           /\ \A s \in Settings :
                replaced.info[s] # Unset => target'.info[s] = replaced.info[s]]_vars

\* A project is created in the category that it has at the source, whether or not the
\* target had it and whoever creates it meanwhile, unless a call of the target was
\* refused: then it gets the default, silently.
BornInCategory ==
  [][target = NoProject /\ target' # NoProject =>
       \A w \in Workers :
         pc[w] = "create" /\ pc'[w] # "create" /\ ~failed[w] =>
           target'.category = mine[w].category]_vars
==============================================================================
