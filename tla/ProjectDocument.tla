--------------------------- MODULE ProjectDocument ---------------------------
(***************************************************************************)
(* The row of one project and its audit log.  Handlers, the API and jobs   *)
(* change it (pybossa/view/projects.py, api/project.py, jobs.py), each in  *)
(* a session of SQLAlchemy of its own: the row is read at first use,       *)
(* changed in memory and written at the next commit, whichever repository  *)
(* commits; then the session forgets what it has read.  A commit writes    *)
(* the columns that have changed, and project.info is one column: whoever  *)
(* saves the project writes all the settings as he has read them.          *)
(***************************************************************************)
EXTENDS Integers, Sequences

CONSTANTS
  Requests,     \* web workers and jobs
  Users,        \* users who can own the project
  Values,       \* what a setting can hold
  Default,      \* the value of a setting nobody has set
  PutFields,    \* bound on the fields that a PUT sets
  MaxRequests,  \* bound on the requests served
  Modes         \* may requests overlap: FALSE, TRUE or either

\* The settings in project.info, and the columns of their own.
InfoKeys == {"task_presenter", "product", "passwd_hash", "allow_taskrun_edit", "thumbnail",
             "autoimporter", "default_n_answers", "sched", "timeout", "progress_reminder",
             "contacts", "ext_config", "project_users", "quiz", "answer_fields",
             "consensus_config", "enrichments", "annotation_config"}
Flags   == {"published", "featured"}
Columns == {"name", "secret_key", "owner_id", "owners_ids"} \cup Flags
Fields  == InfoKeys \cup Columns

ASSUME DocumentConstants ==
  /\ Default \in Values
  /\ PutFields \subseteq InfoKeys \cup {"name"}
  /\ MaxRequests \in Nat
  /\ Modes \subseteq BOOLEAN
  /\ Users # {}

\* The settings whose every writer makes an entry of them in the audit log.
Audited == {"task_presenter", "product", "default_n_answers", "sched", "timeout",
            "contacts", "quiz", "answer_fields", "consensus_config", "enrichments"}

\* What a field can hold, and the rows.
Held(f) == CASE f \in Flags        -> BOOLEAN
             [] f = "owner_id"     -> Users
             [] f = "owners_ids"   -> SUBSET Users
             [] OTHER              -> Values
IsRow(d) == DOMAIN d = Fields /\ \A f \in Fields : d[f] \in Held(f)

\* The steps of a request after its first: a commit by the project's repository,
\* an entry in the log (of values given, read again, or found to differ), an edit.
Kinds == {"save", "tell", "reread", "compare", "edit"}
Steps == [do : Kinds, keys : SUBSET Fields]
Save       == [do |-> "save", keys |-> {}]
Tell(K)    == [do |-> "tell", keys |-> K]
Reread(K)  == [do |-> "reread", keys |-> K]
Compare(K) == [do |-> "compare", keys |-> K]
Edit(K)    == [do |-> "edit", keys |-> K]

VARIABLES
  overlap,     \* requests may overlap
  row,         \* the project in the database
  trail,       \* the new value in the last entry of each audited setting
  todo,        \* the steps each request has still to do
  given,       \* the fields each request is to set, with their values
  base,        \* the row as each request has first read it
  copy,        \* the row as the session of the request holds it, if it does
  dirty,       \* the columns that the session is to write
  overlooked,  \* history: the fields that others have changed since it was read
  served,      \* number of requests
  died         \* history: a request died on its way

request == <<todo, given, base, copy, dirty, overlooked>>
vars == <<overlap, row, trail, request, served, died>>

Nothing == [f \in {} |-> Default]

\* Every variable has its type.
TypeOK ==
  /\ overlap \in BOOLEAN
  /\ IsRow(row)
  /\ trail \in [Audited -> Values]
  /\ todo \in [Requests -> Seq(Steps)]
  /\ DOMAIN given = Requests /\ DOMAIN base = Requests /\ DOMAIN copy = Requests
  /\ \A r \in Requests : /\ DOMAIN given[r] \subseteq Fields
                         /\ \A f \in DOMAIN given[r] : given[r][f] \in Held(f)
                         /\ todo[r] # <<>> => IsRow(base[r])
                         /\ copy[r] # Nothing => IsRow(copy[r])
  /\ dirty \in [Requests -> SUBSET ({"info"} \cup Columns)]
  /\ overlooked \in [Requests -> SUBSET Fields]
  /\ served \in Nat
  /\ died \in BOOLEAN

\* The project as its creator u has left it.
New(u) == [f \in Fields |-> CASE f \in Flags       -> FALSE
                              [] f = "owner_id"   -> u
                              [] f = "owners_ids" -> {u}
                              [] OTHER            -> Default]

Init ==
  /\ overlap \in Modes
  /\ \E u \in Users : row = New(u)
  /\ trail = [k \in Audited |-> Default]
  /\ todo = [r \in Requests |-> <<>>]
  /\ given = [r \in Requests |-> Nothing]
  /\ base = [r \in Requests |-> Nothing]
  /\ copy = [r \in Requests |-> Nothing]
  /\ dirty = [r \in Requests |-> {}]
  /\ overlooked = [r \in Requests |-> {}]
  /\ served = 0 /\ died = FALSE

AtRest == \A r \in Requests : todo[r] = <<>>

(***************************************************************************)
(* Sessions.                                                               *)
(***************************************************************************)

\* The row as the session sees it: it reads the database when it has to.
Session(r) == IF copy[r] = Nothing THEN row ELSE copy[r]

\* Row d with the fields K set as g says, and the columns that this touches: a
\* setting is flagged whatever its value, a column only if it changes.
Set(d, g, K) == [f \in Fields |-> IF f \in K \cap DOMAIN g THEN g[f] ELSE d[f]]
\* Mutant of Touched: a setting is not flagged as changed.
UnflaggedTouched(d, e, K) == {c \in Columns : e[c] # d[c]}
\* Mutant of Touched: every field is taken for a column of its own.
LooseTouched(d, e, K) == {f \in Fields : e[f] # d[f]}
Touched(d, e, K) == {c \in Columns : e[c] # d[c]}
                      \cup (IF K \cap InfoKeys = {} THEN {} ELSE {"info"})

\* A commit writes the columns C of d, and the session forgets the row.
ColumnOf(f) == IF f \in InfoKeys THEN "info" ELSE f
\* Mutant of Written: a commit writes the whole row.
WholeWritten(d, C) == IF C = {} THEN row ELSE d
Written(d, C) == [f \in Fields |-> IF ColumnOf(f) \in C THEN d[f] ELSE row[f]]
Commit(r, d, C) ==
  /\ row' = Written(d, C)
  /\ copy' = [copy EXCEPT ![r] = Nothing]
  /\ dirty' = [dirty EXCEPT ![r] = {}]
  /\ overlooked' = [q \in Requests |->
       IF q = r \/ copy[q] = Nothing THEN {}
       ELSE overlooked[q] \cup {f \in Fields : Written(d, C)[f] # row[f]}]

\* The request of r reads the row, sets the fields `now` of g, and has steps to do.
Serve(r, g, now, steps) ==
  /\ served < MaxRequests /\ todo[r] = <<>> /\ (overlap \/ AtRest)
  /\ served' = served + 1
  /\ todo' = [todo EXCEPT ![r] = steps]
  /\ given' = [given EXCEPT ![r] = g]
  /\ base' = [base EXCEPT ![r] = row]
  /\ copy' = [copy EXCEPT ![r] = Set(row, g, now)]
  /\ dirty' = [dirty EXCEPT ![r] = Touched(row, Set(row, g, now), now)]
  /\ UNCHANGED <<overlap, row, trail, overlooked, died>>

\* The request of r is through with its first step.
Proceed(r) ==
  /\ todo' = [todo EXCEPT ![r] = Tail(@)]
  /\ IF Len(todo[r]) > 1 THEN UNCHANGED <<given, base>>
     ELSE /\ given' = [given EXCEPT ![r] = Nothing]
          /\ base' = [base EXCEPT ![r] = Nothing]

\* The request of r ends here: nothing that it has not committed is kept.
Abandon(r) ==
  /\ todo' = [todo EXCEPT ![r] = <<>>]
  /\ given' = [given EXCEPT ![r] = Nothing]
  /\ base' = [base EXCEPT ![r] = Nothing]
  /\ copy' = [copy EXCEPT ![r] = Nothing]
  /\ dirty' = [dirty EXCEPT ![r] = {}]
  /\ overlooked' = [overlooked EXCEPT ![r] = {}]

(***************************************************************************)
(* Steps.                                                                  *)
(***************************************************************************)

\* Mutant of WithOwner: the owner is not looked for among the owners.
OwnerUnchecked(d) == d

\* _verify_data_classification sets project.info['data_access'] on every save, which
\* flags the settings whatever the handler has changed.
Classified(s, d) == Touched(s, d, InfoKeys)

\* ProjectRepository.save and update: the owner joins the owners if he is missing, the
\* classification is verified, and the session is committed.
WithOwner(d) == [d EXCEPT !["owners_ids"] = @ \cup {d["owner_id"]}]
SaveProject(r) ==
  /\ todo[r] # <<>> /\ Head(todo[r]).do = "save"
  /\ LET d == WithOwner(Session(r))
     IN  Commit(r, d, dirty[r] \cup Classified(Session(r), d))
  /\ Proceed(r)
  /\ UNCHANGED <<overlap, trail, served, died>>

\* AuditLogger: the values that the entries of the step give to its fields.
Entries(r) ==
  LET step == Head(todo[r])
      told == step.keys \cap DOMAIN given[r]
      differ == {f \in step.keys : Session(r)[f] # base[r][f]}
  IN  CASE step.do = "tell"   -> [f \in told |-> given[r][f]]
        [] step.do = "reread" -> [f \in step.keys |-> Session(r)[f]]
        [] OTHER              -> [f \in differ |-> Session(r)[f]]

\* The entries are stored by a commit, which takes along whatever the session has.
EnterLog(r) ==
  /\ todo[r] # <<>> /\ Head(todo[r]).do \in {"tell", "reread", "compare"}
  /\ trail' = [k \in Audited |-> IF k \in DOMAIN Entries(r) THEN Entries(r)[k] ELSE trail[k]]
  /\ Commit(r, Session(r), dirty[r])
  /\ Proceed(r)
  /\ UNCHANGED <<overlap, served, died>>

\* The owners of d without those that the form has struck off since base, and with those
\* that it has added.
Struck(r) == base[r]["owners_ids"] \ given[r]["owners_ids"]
Merged(r, d) == (d["owners_ids"] \ Struck(r)) \cup (given[r]["owners_ids"] \ base[r]["owners_ids"])

\* A later step sets the fields of the form, if any, in the row that it reads anew.
EditProject(r) ==
  /\ todo[r] # <<>> /\ Head(todo[r]).do = "edit"
  /\ LET s == Session(r)
         K == Head(todo[r]).keys
         owners == "owners_ids" \in K \cap DOMAIN given[r]
         d == IF owners THEN [s EXCEPT !["owners_ids"] = Merged(r, s)] ELSE Set(s, given[r], K)
     IN  /\ owners => Struck(r) \subseteq s["owners_ids"]
         /\ copy' = [copy EXCEPT ![r] = d]
         /\ dirty' = [dirty EXCEPT ![r] = @ \cup Touched(s, d, K)]
  /\ Proceed(r)
  /\ UNCHANGED <<overlap, row, trail, overlooked, served, died>>

\* list.remove raises for an owner whom another request has struck off meanwhile.
EditFails(r) ==
  /\ todo[r] # <<>> /\ Head(todo[r]) = Edit({"owners_ids"})
  /\ ~(Struck(r) \subseteq Session(r)["owners_ids"])
  /\ Abandon(r)
  /\ UNCHANGED <<overlap, row, trail, served, died>>

Crash(r) ==
  /\ todo[r] # <<>>
  /\ Abandon(r)
  /\ died' = TRUE
  /\ UNCHANGED <<overlap, row, trail, served>>

(***************************************************************************)
(* Handlers of pybossa/view/projects.py.  v is what the form says; a       *)
(* handler whose form is split over several settings gives all of them v.  *)
(***************************************************************************)

\* A form with the settings K, stored at once and then entered in the log.
Form(r, K, v, steps) == Serve(r, [f \in K |-> v], K, steps)

\* The entries of the presenter are the first commit, after which the save reads the row
\* anew; a form that changes nothing makes no entry, and its save writes all the same.
TaskPresenterEditor(r) ==
  \/ Serve(r, Nothing, {}, <<Save>>)
  \/ \E v \in Values \ {row["task_presenter"]} :
       Form(r, {"task_presenter"}, v, <<Compare(Fields), Edit({}), Save>>)

\* The entries of `update` tell the row as it is after the commit from the row before.
Update(r) == \E v \in Values, K \in {{}, {"passwd_hash"}} :
  Form(r, {"name", "product", "allow_taskrun_edit", "annotation_config"} \cup K, v,
       <<Save, Compare(Fields)>>)

Thumbnail(r)      == \E v \in Values : Form(r, {"thumbnail"}, v, <<Save>>)
RemovePassword(r) == Form(r, {"passwd_hash"}, Default, <<Save>>)

SetupAutoimporter(r) ==
  /\ row["autoimporter"] = Default
  /\ \E v \in Values \ {Default} :
       Form(r, {"autoimporter"}, v, <<Save, Reread({"autoimporter"})>>)
DeleteAutoimporter(r) ==
  /\ row["autoimporter"] # Default
  /\ Form(r, {"autoimporter"}, Default, <<Save, Tell({"autoimporter"})>>)

\* task_n_answers never saves the project: the entry commits it.
DefaultRedundancy(r) == \E v \in Values :
  Form(r, {"default_n_answers"}, v, <<Tell({"default_n_answers"})>>)

TaskScheduler(r) == \E v \in Values : Form(r, {"sched"}, v, <<Save, Compare({"sched"})>>)
TaskTimeout(r)   == \E v \in Values : Form(r, {"timeout"}, v, <<Save, Compare({"timeout"})>>)

\* The entry comes first, and its commit makes the handler read the row again.
TaskNotification(r) == \E v \in Values :
  LET K == {"progress_reminder"} IN Serve(r, [f \in K |-> v], {}, <<Tell(K), Edit(K), Save>>)

\* Publish and unpublish are one handler, which toggles what it has read.
Publish(r) ==
  Form(r, {"published"}, ~row["published"], <<Save, Reread({"published"})>>)

ResetSecretKey(r) == \E v \in Values \ {row["secret_key"]} : Form(r, {"secret_key"}, v, <<Save>>)

TransferOwnership(r) == \E u \in Users :
  LET owners == (row["owners_ids"] \ {row["owner_id"]}) \cup {u}
      g == [f \in {"owner_id", "owners_ids"} |-> IF f = "owner_id" THEN u ELSE owners]
  IN  Serve(r, g, DOMAIN g, <<Save>>)

\* The page of the coowners: their entry, their list, the entry of the contacts, which
\* commits the list, and the contacts.
Coowners(r) == \E owners \in SUBSET Users, v \in Values :
  LET g == [f \in {"owners_ids", "contacts"} |-> IF f = "contacts" THEN v ELSE owners]
  IN  Serve(r, g, {}, <<Tell({"owners_ids"}), Edit({"owners_ids"}),
                        Tell({"contacts"}), Edit({"contacts"}), Save>>)
AddCoowner(r) == \E u \in Users \ row["owners_ids"] :
  Form(r, {"owners_ids"}, row["owners_ids"] \cup {u}, <<Save, Reread({"owners_ids"})>>)
DelCoowner(r) == \E u \in row["owners_ids"] \ {row["owner_id"]} :
  Form(r, {"owners_ids"}, row["owners_ids"] \ {u}, <<Save, Reread({"owners_ids"})>>)

ProjectConfig(r) == \E v \in Values :
  Form(r, {"ext_config", "allow_taskrun_edit"}, v, <<Save>>)
ExtConfig(r) == \E v \in Values : Form(r, {"ext_config"}, v, <<Save>>)

\* The entry tells the users that were asked for, not those that the levels of access
\* let in: no entry is made of what is stored.
AssignUsers(r) == \E v \in Values : Form(r, {"project_users"}, v, <<Save, Tell({})>>)

QuizMode(r) == \E v \in Values : Form(r, {"quiz"}, v, <<Save, Tell({"quiz"})>>)
\* Mutant of AnswerFieldsConfig: no entry of the consensus.
QuietAnswerFieldsConfig(r) == \E v \in Values :
  Form(r, {"answer_fields", "consensus_config"}, v, <<Save, Reread({"answer_fields"})>>)
AnswerFieldsConfig(r) == \E v \in Values :
  Form(r, {"answer_fields", "consensus_config"}, v,
       <<Save, Reread({"answer_fields"}), Reread({"consensus_config"})>>)
ConfigureEnrichment(r) == \E v \in Values \ {Default} :
  Form(r, {"enrichments"}, v, <<Save, Reread({"enrichments"})>>)
AnnotationConfig(r) == \E v \in Values :
  Form(r, {"annotation_config"}, v, <<Save, Reread({"annotation_config"})>>)

(***************************************************************************)
(* PUT /api/project, administrators and jobs.                              *)
(***************************************************************************)

\* A PUT fills project.info up with the settings that it has read: all are written,
\* even if it sets a column.  Its entries are those of `update`.
Put(r) == \E k \in PutFields, v \in Values :
  Serve(r, [f \in {k} |-> v], InfoKeys \cup {k}, <<Save, Compare(Fields)>>)

Featured(r) == Form(r, {"featured"}, ~row["featured"], <<Save>>)

\* check_and_send_task_notifications: the mail and the webhook are sent while it holds
\* the row that it has read; a listener writes project.info by a statement of its own.
SendReminder(r) == \E v \in Values, write \in {Save, Tell({})} :
  /\ row["progress_reminder"] # Default
  /\ Form(r, {"progress_reminder"}, v, <<write>>)

\* warn_old_project_owners unpublishes without an entry.
WarnOldOwners(r) == row["published"] /\ Form(r, {"published"}, FALSE, <<Save>>)

Step(r) == SaveProject(r) \/ EnterLog(r) \/ EditProject(r) \/ EditFails(r) \/ Crash(r)

Begin(r) ==
  \/ TaskPresenterEditor(r) \/ Update(r) \/ Thumbnail(r) \/ RemovePassword(r)
  \/ SetupAutoimporter(r) \/ DeleteAutoimporter(r) \/ DefaultRedundancy(r)
  \/ TaskScheduler(r) \/ TaskTimeout(r) \/ TaskNotification(r) \/ Publish(r)
  \/ ResetSecretKey(r) \/ TransferOwnership(r) \/ Coowners(r) \/ AddCoowner(r)
  \/ DelCoowner(r) \/ ProjectConfig(r) \/ ExtConfig(r) \/ AssignUsers(r) \/ QuizMode(r)
  \/ AnswerFieldsConfig(r) \/ ConfigureEnrichment(r) \/ AnnotationConfig(r)
  \/ Put(r) \/ Featured(r) \/ SendReminder(r) \/ WarnOldOwners(r)

\* Bound: the requests are used up.
Horizon == served = MaxRequests /\ AtRest /\ UNCHANGED vars

Next == Horizon \/ \E r \in Requests : Begin(r) \/ Step(r)
Spec == Init /\ [][Next]_vars

(***************************************************************************)
(* Properties.                                                             *)
(***************************************************************************)

\* However requests overlap, a field changes only by a request that was to set it, or,
\* if it is a setting, by one that had read it before others changed it: a handler takes
\* back nothing that was there when it began, and no column of its own but the owners,
\* to which repository.save adds an owner who is missing.
ChangesAccounted ==
  [][\A f \in Fields : row'[f] # row[f] =>
       \E r \in Requests :
         /\ todo'[r] # todo[r]
         /\ \/ f \in DOMAIN given[r]
            \/ f \in InfoKeys \cap overlooked[r]
            \/ f = "owners_ids" /\ Session(r)["owner_id"] \notin Session(r)["owners_ids"]]_vars

\* While requests take turns and none dies between its commits, the log tells the value
\* of every audited setting, whichever of the handlers, the API or a form of many
\* settings has set it last.
TrailTells ==
  ~overlap /\ ~died /\ AtRest => \A k \in Audited : trail[k] = row[k]

\* While requests take turns and none dies between its commits, the owner is among the
\* owners, on whom all rights to change the project rest (pybossa/auth/project.py); in
\* between, the page of the coowners may have struck him off.
OwnerAmongOwners ==
  ~overlap /\ ~died /\ AtRest => row["owner_id"] \in row["owners_ids"]

\* While requests take turns and none dies, a handler's commits, its entries and whatever
\* its session forgets in between amount to one form that is stored at once, all of it and
\* nothing else: until the last step the project is what it was when the request came.
\* In turns there is but one request that Active can be.
Active  == CHOOSE r \in Requests : todo[r] # <<>>
Settled == IF AtRest THEN row ELSE base[Active]
Logged  == IF AtRest THEN trail ELSE [k \in Audited |-> base[Active][k]]
FormNow == IF AtRest THEN Nothing ELSE given[Active]
Forms == INSTANCE FormDocument WITH
  doc <- Settled, log <- Logged, busy <- ~AtRest, form <- FormNow

\* A request that neither overlaps with another nor dies takes one step of FormDocument: the
\* settings and the entries of the log change once, at its last step, and to what its form
\* says, however many commits, expirations and entries its handler makes on the way.
ImplementsForms ==
  /\ ~overlap => Forms!Init
  /\ [][~overlap /\ ~died' => [Forms!Next]_(Forms!vars)]_vars
==============================================================================
