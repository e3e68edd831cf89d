----------------------- MODULE ProjectDocument_proofs -----------------------
(***************************************************************************)
(* Theorems about ProjectDocument for every set of requests, users and     *)
(* values and any number of requests served.  A handler is a plan of steps *)
(* (Plans below); what all plans have in common is proved once, and the    *)
(* invariants are preserved by Serve and by the steps whatever the handler.*)
(***************************************************************************)
EXTENDS ProjectDocument, TLAPS

USE DocumentConstants

(***************************************************************************)
(* Plans: what Begin gives a request to do, whichever handler it is.       *)
(***************************************************************************)

\* Some step of the plan is of one of the kinds and is about field f.
About(steps, kinds, f) ==
  \E i \in 1 .. Len(steps) : steps[i].do \in kinds /\ f \in steps[i].keys
Entering == {"tell", "reread", "compare"}

\* The page of the coowners, before and after it has set the list of owners.
Contacts == {"contacts"}
Late  == {<<Tell(Contacts), Edit(Contacts), Save>>, <<Edit(Contacts), Save>>}
Early == {<<Tell({"owners_ids"}), Edit({"owners_ids"}), Tell(Contacts), Edit(Contacts), Save>>,
          <<Edit({"owners_ids"}), Tell(Contacts), Edit(Contacts), Save>>}

\* The last step commits; only that page edits the owners; nothing is entered from the
\* row while an edit of it is ahead.
Plan(steps) ==
  /\ steps \in Seq(Steps)
  /\ steps # <<>> => steps[Len(steps)].do # "edit"
  /\ \A f \in {"owner_id", "owners_ids"} : About(steps, {"edit"}, f) => steps \in Early
  /\ \A f \in Fields : About(steps, {"edit"}, f) => ~About(steps, {"reread", "compare"}, f)

\* Every audited field that is given is entered, and what is not set at once is edited;
\* who sets owners at once saves next.
Sound(g, now, steps) ==
  /\ DOMAIN g \subseteq Fields /\ \A f \in DOMAIN g : g[f] \in Held(f)
  /\ now \subseteq Fields /\ now \subseteq DOMAIN g \cup InfoKeys
  /\ Plan(steps) /\ steps # <<>>
  /\ \A f \in Audited \cap DOMAIN g : About(steps, Entering, f)
  /\ \A f \in DOMAIN g \ now : About(steps, {"edit"}, f)
  /\ now \cap {"owner_id", "owners_ids"} # {} => Head(steps) = Save

(***************************************************************************)
(* The invariants.                                                         *)
(***************************************************************************)

\* A request at rest has nothing in its session.
RestInv == \A r \in Requests :
  /\ Plan(todo[r])
  /\ todo[r] = <<>> => copy[r] = Nothing /\ given[r] = Nothing
  /\ copy[r] = Nothing => dirty[r] = {} /\ overlooked[r] = {}

\* A session holds what the row holds, but for what it is to set and what others have
\* changed; and it writes no column but those of the fields it is to set.
CopyInv == \A r \in Requests :
  /\ copy[r] # Nothing => \A f \in Fields :
       f \in DOMAIN given[r] \/ f \in overlooked[r] \/ copy[r][f] = row[f]
  /\ dirty[r] \subseteq {"info"} \cup DOMAIN given[r]

\* In turns: one request at a time, no change overlooked, and a commit stores the whole
\* session, since whatever differs is to be written.
TurnInv == ~overlap => \A r \in Requests :
  /\ \A q \in Requests : todo[r] # <<>> /\ todo[q] # <<>> => q = r
  /\ overlooked[r] = {}
  /\ \A f \in Fields : ColumnOf(f) \in dirty[r] \/ Session(r)[f] = row[f]

\* No owner has come or gone but the owner of d.
OwnersKept(r, d) ==
  \/ d["owners_ids"] = base[r]["owners_ids"]
  \/ d["owners_ids"] = base[r]["owners_ids"] \cup {d["owner_id"]}

\* In turns: a field that is not given is as it was; what the form says is in the
\* session, or an edit is ahead.
GivenInv == ~overlap => \A r \in Requests : todo[r] # <<>> =>
  /\ \A f \in Fields \ (DOMAIN given[r] \cup {"owners_ids"}) : Session(r)[f] = base[r][f]
  /\ "owners_ids" \notin DOMAIN given[r] => OwnersKept(r, Session(r))
  /\ \A f \in DOMAIN given[r] :
       \/ Session(r)[f] = given[r][f]
       \/ f = "owners_ids" /\ Session(r)[f] = given[r][f] \cup {Session(r)["owner_id"]}
       \/ Session(r)[f] = base[r][f] /\ About(todo[r], {"edit"}, f)
  /\ todo[r] \in Early => Session(r)["owners_ids"] = base[r]["owners_ids"]

\* In turns, if none dies: what is audited has been entered or is still to be.
TrailInv == ~overlap /\ ~died =>
  /\ AtRest => \A k \in Audited : trail[k] = row[k]
  /\ \A r \in Requests : todo[r] # <<>> => \A k \in Audited :
       IF k \in DOMAIN given[r]
       THEN \/ trail[k] = given[r][k]
            \/ trail[k] = base[r][k] /\ About(todo[r], Entering, k)
       ELSE trail[k] = base[r][k]

\* In turns, if none dies: the session has the owner among the owners, unless a save is
\* to see to it.
OwnerInv == ~overlap /\ ~died =>
  /\ AtRest => row["owner_id"] \in row["owners_ids"]
  /\ \A r \in Requests : todo[r] # <<>> =>
       \/ Session(r)["owner_id"] \in Session(r)["owners_ids"]
       \/ Head(todo[r]) = Save \/ todo[r] \in Late

-----------------------------------------------------------------------------
(* Sequences and plans.                                                    *)

LEMMA OneLess == Len(<<>>) = 0 /\ \A k \in Nat : k # k - 1 /\ (k - 1 = 0 <=> k = 1)
OBVIOUS

LEMMA TailFacts ==
  ASSUME NEW s \in Seq(Steps), s # <<>>
  PROVE  /\ Head(s) = s[1] /\ Head(s) \in Steps
         /\ Len(s) \in Nat /\ Len(s) > 0
         /\ Tail(s) \in Seq(Steps) /\ Len(Tail(s)) = Len(s) - 1
         /\ \A i \in 1 .. Len(Tail(s)) : Tail(s)[i] = s[i + 1]
         /\ Tail(s) = <<>> <=> Len(s) = 1
         /\ Tail(s) # s
<1>1. /\ Len(s) \in Nat /\ Len(s) > 0 /\ Head(s) = s[1] /\ s[1] \in Steps
  OBVIOUS
<1>2. Tail(s) \in Seq(Steps) /\ Len(Tail(s)) = Len(s) - 1
  OBVIOUS
<1>3. \A i \in 1 .. Len(Tail(s)) : Tail(s)[i] = s[i + 1]
  OBVIOUS
<1>4. Tail(s) = <<>> <=> Len(Tail(s)) = 0
  BY <1>2
<1>5. Tail(s) = <<>> <=> Len(s) = 1
  <2> DEFINE n == Len(s)
  <2>1. n \in Nat /\ Len(Tail(s)) = n - 1
    BY <1>1, <1>2
  <2> HIDE DEF n
  <2>2. Len(Tail(s)) = 0 <=> n = 1
    BY <2>1, OneLess, Zenon
  <2>3. QED
    BY <1>4, <2>2, Zenon DEF n
<1>6. ASSUME Tail(s) = s PROVE FALSE
  <2> DEFINE n == Len(s)
  <2>1. n = n - 1
    BY <1>2, <1>6
  <2>2. n \in Nat
    BY <1>1
  <2> HIDE DEF n
  <2>3. QED
    BY <2>1, <2>2, OneLess, Zenon
<1>7. QED
  BY Zenon, <1>1, <1>2, <1>3, <1>5, <1>6

LEMMA AboutNone ==
  ASSUME NEW kinds, NEW f
  PROVE  ~About(<<>>, kinds, f)
BY DEF About

LEMMA AboutTail ==
  ASSUME NEW s \in Seq(Steps), s # <<>>, NEW kinds, NEW f
  PROVE  About(s, kinds, f) <=>
           (Head(s).do \in kinds /\ f \in Head(s).keys) \/ About(Tail(s), kinds, f)
<1>1. ASSUME NEW i \in 1 .. Len(s), i # 1
      PROVE  /\ i - 1 \in 1 .. Len(Tail(s)) /\ Tail(s)[i - 1] = s[i]
  <2>1. i - 1 \in 1 .. Len(s) - 1 /\ (i - 1) + 1 = i
    BY <1>1, TailFacts
  <2>2. QED
    BY <2>1, TailFacts
<1>2. ASSUME NEW i \in 1 .. Len(Tail(s))
      PROVE  i + 1 \in 1 .. Len(s) /\ Tail(s)[i] = s[i + 1]
  BY TailFacts
<1>3. 1 \in 1 .. Len(s)
  BY TailFacts
<1>4. About(s, kinds, f) =>
        (Head(s).do \in kinds /\ f \in Head(s).keys) \/ About(Tail(s), kinds, f)
  BY <1>1, TailFacts DEF About
<1>5. About(Tail(s), kinds, f) => About(s, kinds, f)
  BY <1>2 DEF About
<1>6. Head(s).do \in kinds /\ f \in Head(s).keys => About(s, kinds, f)
  BY <1>3, TailFacts DEF About
<1>7. QED
  BY <1>4, <1>5, <1>6

LEMMA AboutOne ==
  ASSUME NEW a \in Steps, NEW kinds, NEW f
  PROVE  About(<<a>>, kinds, f) <=> a.do \in kinds /\ f \in a.keys
BY DEF About

LEMMA AboutTwo ==
  ASSUME NEW a \in Steps, NEW b \in Steps, NEW kinds, NEW f
  PROVE  About(<<a, b>>, kinds, f) <=>
           (a.do \in kinds /\ f \in a.keys) \/ (b.do \in kinds /\ f \in b.keys)
BY DEF About

LEMMA AboutThree ==
  ASSUME NEW a \in Steps, NEW b \in Steps, NEW c \in Steps, NEW kinds, NEW f
  PROVE  About(<<a, b, c>>, kinds, f) <=>
           \/ a.do \in kinds /\ f \in a.keys
           \/ b.do \in kinds /\ f \in b.keys
           \/ c.do \in kinds /\ f \in c.keys
BY DEF About

LEMMA AboutFive ==
  ASSUME NEW a \in Steps, NEW b \in Steps, NEW c \in Steps, NEW d \in Steps, NEW e \in Steps,
         NEW kinds, NEW f
  PROVE  About(<<a, b, c, d, e>>, kinds, f) <=>
           \/ a.do \in kinds /\ f \in a.keys
           \/ b.do \in kinds /\ f \in b.keys
           \/ c.do \in kinds /\ f \in c.keys
           \/ d.do \in kinds /\ f \in d.keys
           \/ e.do \in kinds /\ f \in e.keys
BY DEF About

LEMMA StepFacts ==
  /\ Save \in Steps /\ Save.do = "save" /\ Save.keys = {}
  /\ \A K \in SUBSET Fields :
       /\ Tell(K) \in Steps /\ Tell(K).do = "tell" /\ Tell(K).keys = K
       /\ Reread(K) \in Steps /\ Reread(K).do = "reread" /\ Reread(K).keys = K
       /\ Compare(K) \in Steps /\ Compare(K).do = "compare" /\ Compare(K).keys = K
       /\ Edit(K) \in Steps /\ Edit(K).do = "edit" /\ Edit(K).keys = K
BY DEF Steps, Kinds, Save, Tell, Reread, Compare, Edit

LEMMA PageFacts ==
  /\ \A f \in {"owner_id", "owners_ids"}, s \in Late : ~About(s, {"edit"}, f)
  /\ \A s \in Early : /\ s # <<>> /\ (Tail(s) \in Early \/ Tail(s) \in Late)
                      /\ Head(s).do \in {"tell", "edit"}
                      /\ Head(s).keys = {"owners_ids"}
                      /\ Head(s).do = "edit" => Head(s) = Edit({"owners_ids"})
                      /\ Head(s).do = "edit" => Tail(s) \in Late
                      /\ About(s, {"edit"}, "owners_ids")
  /\ \A s \in Late : /\ s # <<>> /\ (Tail(s) \in Late \/ Tail(s) = <<Save>>)
                     /\ Head(s).do \in {"tell", "edit"}
                     /\ Head(s).keys = {"contacts"}
  /\ Early \cap Late = {}
<1> DEFINE a == Tell({"owners_ids"})  b == Edit({"owners_ids"})
           c == Tell(Contacts)        d == Edit(Contacts)
<1>1. /\ a \in Steps /\ b \in Steps /\ c \in Steps /\ d \in Steps /\ Save \in Steps
      /\ a.do = "tell" /\ b.do = "edit" /\ c.do = "tell" /\ d.do = "edit" /\ Save.do = "save"
      /\ a.keys = {"owners_ids"} /\ b.keys = {"owners_ids"}
      /\ c.keys = {"contacts"} /\ d.keys = {"contacts"} /\ Save.keys = {}
  BY StepFacts DEF Contacts, Fields, InfoKeys, Columns
<1>2. /\ Early = {<<a, b, c, d, Save>>, <<b, c, d, Save>>}
      /\ Late = {<<c, d, Save>>, <<d, Save>>}
      /\ b = Edit({"owners_ids"})
  BY DEF Early, Late
<1> HIDE DEF a, b, c, d
<1>3. /\ Tail(<<a, b, c, d, Save>>) = <<b, c, d, Save>> /\ Head(<<a, b, c, d, Save>>) = a
      /\ Tail(<<b, c, d, Save>>) = <<c, d, Save>> /\ Head(<<b, c, d, Save>>) = b
      /\ Tail(<<c, d, Save>>) = <<d, Save>> /\ Head(<<c, d, Save>>) = c
      /\ Tail(<<d, Save>>) = <<Save>> /\ Head(<<d, Save>>) = d
  OBVIOUS
<1>4. \A s \in Early \cup Late : s # <<>>
  BY <1>2
<1>5. \A f \in {"owner_id", "owners_ids"}, s \in Late : ~About(s, {"edit"}, f)
  BY <1>1, <1>2, AboutTwo, AboutThree
<1>6. /\ Early \cap Late = {}
      /\ \A s \in Early : About(s, {"edit"}, "owners_ids")
  <2>1. About(<<a, b, c, d, Save>>, {"edit"}, "owners_ids")
    BY <1>1, AboutFive
  <2>2. About(<<b, c, d, Save>>, {"edit"}, "owners_ids")
    <3>1. <<b, c, d, Save>>[1] = b /\ 1 \in 1 .. Len(<<b, c, d, Save>>)
      OBVIOUS
    <3>2. QED
      BY <1>1, <3>1 DEF About
  <2>3. QED
    BY <1>2, <2>1, <2>2
<1>7. \A s \in Early : /\ Tail(s) \in Early \/ Tail(s) \in Late
                       /\ Head(s).do \in {"tell", "edit"}
                       /\ Head(s).keys = {"owners_ids"}
                       /\ Head(s).do = "edit" => Head(s) = b
                       /\ Head(s).do = "edit" => Tail(s) \in Late
  BY <1>1, <1>2, <1>3
<1>8. \A s \in Late : /\ Tail(s) \in Late \/ Tail(s) = <<Save>>
                      /\ Head(s).do \in {"tell", "edit"}
                      /\ Head(s).keys = {"contacts"}
  BY <1>1, <1>2, <1>3
<1>9. QED
  BY Zenon, <1>2, <1>4, <1>5, <1>6, <1>7, <1>8

\* The rest of a plan is a plan.
LEMMA PlanTail ==
  ASSUME NEW s, Plan(s), s # <<>>
  PROVE  Plan(Tail(s))
<1>1. s \in Seq(Steps) /\ Tail(s) \in Seq(Steps)
  BY TailFacts DEF Plan
<1>2. Tail(s) # <<>> => Tail(s)[Len(Tail(s))] = s[Len(s)]
  BY <1>1, TailFacts
<1>3. ASSUME NEW f \in {"owner_id", "owners_ids"}, About(Tail(s), {"edit"}, f)
      PROVE  Tail(s) \in Early
  BY <1>1, <1>3, AboutTail, PageFacts DEF Plan
<1>4. ASSUME NEW f \in Fields, About(Tail(s), {"edit"}, f)
      PROVE  ~About(Tail(s), {"reread", "compare"}, f)
  BY <1>1, <1>4, AboutTail DEF Plan
<1>5. QED
  BY <1>1, <1>2, <1>3, <1>4 DEF Plan

-----------------------------------------------------------------------------
(* Every handler follows a plan.                                           *)

LEMMA HeldFacts ==
  /\ \A f \in Fields : /\ f \in Flags => Held(f) = BOOLEAN
                       /\ f \in InfoKeys \cup {"name", "secret_key"} => Held(f) = Values
  /\ Held("owner_id") = Users /\ Held("owners_ids") = SUBSET Users
  /\ Audited \subseteq InfoKeys /\ InfoKeys \subseteq Fields /\ Columns \subseteq Fields
BY DEF Held, Flags, Fields, InfoKeys, Columns, Audited

\* Two steps, of which none is an edit.
LEMMA TwoSteps ==
  ASSUME NEW a \in Steps, NEW b \in Steps, a.do # "edit", b.do # "edit"
  PROVE  Plan(<<a, b>>) /\ <<a, b>> # <<>> /\ Head(<<a, b>>) = a
<1>1. \A f : ~About(<<a, b>>, {"edit"}, f)
  BY AboutTwo
<1>2. <<a, b>> \in Seq(Steps) /\ Len(<<a, b>>) = 2 /\ <<a, b>>[2] = b /\ Head(<<a, b>>) = a
  OBVIOUS
<1>3. QED
  BY <1>1, <1>2 DEF Plan

LEMMA OneStep ==
  ASSUME NEW a \in Steps, a.do # "edit"
  PROVE  Plan(<<a>>) /\ <<a>> # <<>> /\ Head(<<a>>) = a
<1>1. \A f : ~About(<<a>>, {"edit"}, f)
  BY AboutOne
<1>2. <<a>> \in Seq(Steps) /\ Len(<<a>>) = 1 /\ <<a>>[1] = a /\ Head(<<a>>) = a
  OBVIOUS
<1>3. QED
  BY <1>1, <1>2 DEF Plan

\* What a request does follows a sound plan.
Planned(r) == \E g, now, plan : Serve(r, g, now, plan) /\ Sound(g, now, plan)

\* A form that saves first and then enters what is audited.
LEMMA FormPlan ==
  ASSUME NEW r, NEW K \in SUBSET Fields, NEW v, \A f \in K : v \in Held(f),
         NEW steps, Plan(steps), steps # <<>>, Form(r, K, v, steps),
         \A f \in Audited \cap K : About(steps, Entering, f),
         K \cap {"owner_id", "owners_ids"} # {} => Head(steps) = Save
  PROVE  Planned(r)
<1> DEFINE g == [f \in K |-> v]
<1>1. Sound(g, K, steps)
  BY DEF Sound
<1>2. Serve(r, g, K, steps)
  BY DEF Form
<1>3. QED
  BY <1>1, <1>2 DEF Planned

\* It is saved, and nothing of it is audited.
LEMMA SavedPlan ==
  ASSUME NEW r, NEW K \in SUBSET Fields, NEW v, \A f \in K : v \in Held(f),
         K \cap Audited = {}, Form(r, K, v, <<Save>>)
  PROVE  Planned(r)
<1>1. Plan(<<Save>>) /\ <<Save>> # <<>> /\ Head(<<Save>>) = Save
  BY StepFacts, OneStep
<1>2. QED
  BY <1>1, FormPlan

\* It is saved, and its entry is of all that is audited.
LEMMA EnteredPlan ==
  ASSUME NEW r, NEW K \in SUBSET Fields, NEW v, \A f \in K : v \in Held(f),
         NEW step \in Steps, step.do \in Entering, K \cap Audited \subseteq step.keys,
         Form(r, K, v, <<Save, step>>)
  PROVE  Planned(r)
<1>1. /\ Plan(<<Save, step>>) /\ <<Save, step>> # <<>> /\ Head(<<Save, step>>) = Save
  BY StepFacts, TwoSteps DEF Entering
<1>2. \A f \in Audited \cap K : About(<<Save, step>>, Entering, f)
  BY StepFacts, AboutTwo
<1>3. QED
  BY <1>1, <1>2, FormPlan

LEMMA PresenterPlan == ASSUME NEW r, TaskPresenterEditor(r) PROVE Planned(r)
<1> DEFINE K == {"task_presenter"}  a == Compare(Fields)  b == Edit({})
           plan == <<a, b, Save>>
<1>1. /\ a \in Steps /\ b \in Steps /\ Save \in Steps
      /\ a.do = "compare" /\ b.do = "edit" /\ Save.do = "save"
      /\ a.keys = Fields /\ b.keys = {}
  BY StepFacts
<1>2. CASE Serve(r, Nothing, {}, <<Save>>)
  <2>1. Plan(<<Save>>) /\ <<Save>> # <<>>
    BY <1>1, OneStep
  <2>2. DOMAIN Nothing = {}
    BY DEF Nothing
  <2>3. Sound(Nothing, {}, <<Save>>)
    BY <2>1, <2>2 DEF Sound
  <2>4. QED
    BY <1>2, <2>3 DEF Planned
<1>3. ASSUME NEW v \in Values \ {row["task_presenter"]}, Form(r, K, v, plan)
      PROVE  Planned(r)
  <2> HIDE DEF a, b
  <2>1. \A f : ~About(plan, {"edit"}, f)
    BY <1>1, AboutThree
  <2>2. plan \in Seq(Steps) /\ Len(plan) = 3 /\ plan[3] = Save /\ plan # <<>>
    BY <1>1
  <2>3. Plan(plan)
    BY <1>1, <2>1, <2>2 DEF Plan
  <2>4. \A f \in Fields : About(plan, Entering, f)
    BY <1>1, AboutThree DEF Entering
  <2>5. /\ K \in SUBSET Fields /\ \A f \in K : v \in Held(f)
        /\ K \cap {"owner_id", "owners_ids"} = {}
    BY HeldFacts DEF InfoKeys
  <2> HIDE DEF K, plan
  <2>6. \A f \in Audited \cap K : About(plan, Entering, f)
    BY <2>4, <2>5
  <2>7. QED
    BY <1>3, <2>2, <2>3, <2>5, <2>6, FormPlan
<1>4. QED
  BY <1>2, <1>3 DEF TaskPresenterEditor

LEMMA RedundancyPlan == ASSUME NEW r, DefaultRedundancy(r) PROVE Planned(r)
<1> DEFINE K == {"default_n_answers"}  plan == <<Tell(K)>>
<1>1. PICK v \in Values : Form(r, K, v, plan)
  BY DEF DefaultRedundancy
<1>2. /\ K \in SUBSET Fields /\ \A f \in K : v \in Held(f)
      /\ K \cap {"owner_id", "owners_ids"} = {}
  BY HeldFacts DEF InfoKeys
<1>3. Tell(K) \in Steps /\ Tell(K).do = "tell" /\ Tell(K).keys = K
  BY <1>2, StepFacts
<1>4. Plan(plan) /\ plan # <<>>
  BY <1>3, OneStep
<1>5. \A f \in K : About(plan, Entering, f)
  BY <1>3, AboutOne DEF Entering
<1> HIDE DEF K, plan
<1>6. QED
  BY <1>1, <1>2, <1>4, <1>5, FormPlan

LEMMA AnswerFieldsPlan == ASSUME NEW r, AnswerFieldsConfig(r) PROVE Planned(r)
<1> DEFINE K == {"answer_fields", "consensus_config"}
           a == Reread({"answer_fields"})  b == Reread({"consensus_config"})
           plan == <<Save, a, b>>
<1>1. PICK v \in Values : Form(r, K, v, plan)
  BY DEF AnswerFieldsConfig
<1>2. /\ K \in SUBSET Fields /\ \A f \in K : v \in Held(f)
      /\ K \cap {"owner_id", "owners_ids"} = {}
      /\ {"answer_fields"} \in SUBSET Fields /\ {"consensus_config"} \in SUBSET Fields
  BY HeldFacts DEF InfoKeys
<1>3. /\ a \in Steps /\ b \in Steps /\ Save \in Steps
      /\ a.do = "reread" /\ b.do = "reread" /\ Save.do = "save"
      /\ a.keys = {"answer_fields"} /\ b.keys = {"consensus_config"}
  BY <1>2, StepFacts
<1>4. \A f \in K : About(plan, Entering, f)
  BY <1>3, AboutThree DEF Entering
<1>5. \A f : ~About(plan, {"edit"}, f)
  BY <1>3, AboutThree
<1> HIDE DEF a, b
<1>6. plan \in Seq(Steps) /\ Len(plan) = 3 /\ plan[3] = b
  BY <1>3
<1>7. plan # <<>>
  BY <1>6
<1> HIDE DEF K, plan
<1>8. Plan(plan)
  BY <1>3, <1>5, <1>6 DEF Plan
<1>9. QED
  BY <1>1, <1>2, <1>4, <1>7, <1>8, FormPlan

LEMMA NotificationPlan == ASSUME NEW r, TaskNotification(r) PROVE Planned(r)
<1> DEFINE K == {"progress_reminder"}  a == Tell(K)  b == Edit(K)  plan == <<a, b, Save>>
<1>1. PICK v \in Values : Serve(r, [f \in K |-> v], {}, plan)
  BY DEF TaskNotification
<1> DEFINE g == [f \in K |-> v]
<1>2. K \in SUBSET Fields /\ K \cap Audited = {} /\ K \cap {"owner_id", "owners_ids"} = {}
  BY HeldFacts DEF InfoKeys, Audited
<1>3. DOMAIN g = K /\ \A f \in DOMAIN g : g[f] \in Held(f)
  BY HeldFacts DEF InfoKeys
<1>4. /\ a \in Steps /\ b \in Steps /\ Save \in Steps
      /\ a.do = "tell" /\ b.do = "edit" /\ Save.do = "save"
      /\ a.keys = K /\ b.keys = K /\ Save.keys = {}
  BY <1>2, StepFacts
<1>5. /\ \A f : About(plan, {"edit"}, f) <=> f \in K
      /\ \A f : ~About(plan, {"reread", "compare"}, f)
  BY <1>4, AboutThree
<1> HIDE DEF a, b
<1>6. plan \in Seq(Steps) /\ Len(plan) = 3 /\ plan[3] = Save
  BY <1>4
<1>7. plan # <<>>
  BY <1>6
<1> HIDE DEF K, g, plan
<1>8. Plan(plan)
  BY <1>2, <1>4, <1>5, <1>6 DEF Plan
<1>9. Sound(g, {}, plan)
  BY <1>2, <1>3, <1>5, <1>7, <1>8 DEF Sound
<1>10. QED
  BY <1>1, <1>9 DEF Planned, g

LEMMA CoownersPlan == ASSUME NEW r, Coowners(r) PROVE Planned(r)
<1> DEFINE K == {"owners_ids", "contacts"}
           a == Tell({"owners_ids"})  b == Edit({"owners_ids"})
           c == Tell({"contacts"})    d == Edit({"contacts"})
           plan == <<a, b, c, d, Save>>
<1>1. PICK owners \in SUBSET Users, v \in Values :
        Serve(r, [f \in K |-> IF f = "contacts" THEN v ELSE owners], {}, plan)
  BY DEF Coowners
<1> DEFINE g == [f \in K |-> IF f = "contacts" THEN v ELSE owners]
<1>2. /\ K \in SUBSET Fields /\ {"owners_ids"} \in SUBSET Fields /\ {"contacts"} \in SUBSET Fields
      /\ K \cap Audited = {"contacts"}
  BY HeldFacts DEF InfoKeys, Columns, Audited
<1>3. DOMAIN g = K /\ \A f \in DOMAIN g : g[f] \in Held(f)
  BY HeldFacts DEF InfoKeys
<1>4. /\ a \in Steps /\ b \in Steps /\ c \in Steps /\ d \in Steps /\ Save \in Steps
      /\ a.do = "tell" /\ b.do = "edit" /\ c.do = "tell" /\ d.do = "edit" /\ Save.do = "save"
      /\ a.keys = {"owners_ids"} /\ b.keys = {"owners_ids"}
      /\ c.keys = {"contacts"} /\ d.keys = {"contacts"} /\ Save.keys = {}
  BY <1>2, StepFacts
<1>5. /\ \A f : About(plan, {"edit"}, f) <=> f \in K
      /\ \A f : ~About(plan, {"reread", "compare"}, f)
      /\ About(plan, Entering, "contacts")
  BY <1>4, AboutFive DEF Entering
<1>6. plan \in Early
  BY DEF Early, Contacts
<1> HIDE DEF a, b, c, d
<1>7. plan \in Seq(Steps) /\ Len(plan) = 5 /\ plan[5] = Save
  BY <1>4
<1>8. plan # <<>>
  BY <1>7
<1> HIDE DEF K, g, plan
<1>9. Plan(plan)
  BY <1>4, <1>5, <1>6, <1>7 DEF Plan
<1>10. Sound(g, {}, plan)
  BY <1>2, <1>3, <1>5, <1>8, <1>9 DEF Sound
<1>11. QED
  BY <1>1, <1>10 DEF Planned, g

LEMMA TransferPlan ==
  ASSUME row["owners_ids"] \subseteq Users, NEW r, TransferOwnership(r) PROVE Planned(r)
<1> DEFINE K == {"owner_id", "owners_ids"}
<1>1. PICK u \in Users, owners \in SUBSET Users :
        Serve(r, [f \in K |-> IF f = "owner_id" THEN u ELSE owners], K, <<Save>>)
  BY DEF TransferOwnership
<1> DEFINE g == [f \in K |-> IF f = "owner_id" THEN u ELSE owners]
<1>2. DOMAIN g = K /\ \A f \in DOMAIN g : g[f] \in Held(f)
  BY HeldFacts
<1>3. K \in SUBSET Fields /\ K \cap Audited = {}
  BY DEF Fields, Columns, Audited
<1>4. Plan(<<Save>>) /\ <<Save>> # <<>> /\ Head(<<Save>>) = Save
  BY StepFacts, OneStep
<1> HIDE DEF K, g
<1>5. Sound(g, K, <<Save>>)
  BY <1>2, <1>3, <1>4 DEF Sound
<1>6. QED
  BY <1>1, <1>5 DEF Planned, g

LEMMA PutPlan == ASSUME NEW r, Put(r) PROVE Planned(r)
<1>1. PICK k \in PutFields, v \in Values :
        Serve(r, [f \in {k} |-> v], InfoKeys \cup {k}, <<Save, Compare(Fields)>>)
  BY DEF Put
<1> DEFINE g == [f \in {k} |-> v]  now == InfoKeys \cup {k}  plan == <<Save, Compare(Fields)>>
<1>2. DOMAIN g = {k} /\ \A f \in DOMAIN g : g[f] \in Held(f)
  <2>1. k \in InfoKeys \cup {"name"} /\ k \in Fields
    BY DEF DocumentConstants, Fields, Columns
  <2>2. QED
    BY <2>1, HeldFacts
<1>3. now \subseteq Fields /\ now \cap {"owner_id", "owners_ids"} = {} /\ k \in now /\ k \in Fields
  BY HeldFacts DEF DocumentConstants, InfoKeys, Fields, Columns
<1>4. /\ Compare(Fields) \in Steps /\ Save \in Steps
      /\ Compare(Fields).do = "compare" /\ Save.do = "save" /\ Compare(Fields).keys = Fields
  BY StepFacts
<1>5. Plan(plan) /\ plan # <<>>
  BY <1>4, TwoSteps
<1>6. \A f \in Fields : About(plan, Entering, f)
  BY <1>4, AboutTwo DEF Entering
<1>7. now \subseteq {k} \cup InfoKeys
  OBVIOUS
<1> HIDE DEF g, now, plan
<1>8. Sound(g, now, plan)
  BY <1>2, <1>3, <1>5, <1>6, <1>7 DEF Sound
<1>9. QED
  BY <1>1, <1>8 DEF Planned, g, now, plan

\* A handler that only saves.
LEMMA SavingPlan ==
  ASSUME NEW r,
         \/ Thumbnail(r) \/ RemovePassword(r) \/ ResetSecretKey(r) \/ ProjectConfig(r)
         \/ ExtConfig(r) \/ Featured(r) \/ WarnOldOwners(r)
  PROVE  Planned(r)
<1>1. \A K \in SUBSET (InfoKeys \cup {"name", "secret_key"}), v \in Values :
        K \cap Audited = {} /\ Form(r, K, v, <<Save>>) => Planned(r)
  <2> SUFFICES ASSUME NEW K \in SUBSET (InfoKeys \cup {"name", "secret_key"}), NEW v \in Values,
                      K \cap Audited = {}, Form(r, K, v, <<Save>>)
               PROVE  Planned(r)
    OBVIOUS
  <2>1. K \in SUBSET Fields /\ \A f \in K : v \in Held(f)
    BY HeldFacts DEF Fields, Columns
  <2>2. QED
    BY <2>1, SavedPlan
<1>2. \A k \in Flags, v \in BOOLEAN : Form(r, {k}, v, <<Save>>) => Planned(r)
  <2> SUFFICES ASSUME NEW k \in Flags, NEW v \in BOOLEAN, Form(r, {k}, v, <<Save>>)
               PROVE  Planned(r)
    OBVIOUS
  <2>1. {k} \in SUBSET Fields /\ \A f \in {k} : v \in Held(f)
    BY DEF Fields, Columns, Held, Flags
  <2>2. {k} \cap Audited = {}
    BY DEF Flags, Audited
  <2>3. QED
    BY <2>1, <2>2, SavedPlan
<1>3. Default \in Values
  BY DEF DocumentConstants
<1>4. CASE Thumbnail(r)
  <2>1. {"thumbnail"} \in SUBSET (InfoKeys \cup {"name", "secret_key"})
        /\ {"thumbnail"} \cap Audited = {}
    BY DEF InfoKeys, Audited
  <2>2. QED
    BY <1>1, <1>4, <2>1 DEF Thumbnail
<1>5. CASE RemovePassword(r)
  <2>1. {"passwd_hash"} \in SUBSET (InfoKeys \cup {"name", "secret_key"})
        /\ {"passwd_hash"} \cap Audited = {}
    BY DEF InfoKeys, Audited
  <2>2. QED
    BY <1>1, <1>3, <1>5, <2>1 DEF RemovePassword
<1>6. CASE ResetSecretKey(r)
  <2>1. {"secret_key"} \in SUBSET (InfoKeys \cup {"name", "secret_key"})
        /\ {"secret_key"} \cap Audited = {}
    BY DEF Audited
  <2>2. QED
    BY <1>1, <1>6, <2>1 DEF ResetSecretKey
<1>7. CASE ProjectConfig(r)
  <2>1. {"ext_config", "allow_taskrun_edit"} \in SUBSET (InfoKeys \cup {"name", "secret_key"})
        /\ {"ext_config", "allow_taskrun_edit"} \cap Audited = {}
    BY DEF InfoKeys, Audited
  <2>2. QED
    BY <1>1, <1>7, <2>1 DEF ProjectConfig
<1>8. CASE ExtConfig(r)
  <2>1. {"ext_config"} \in SUBSET (InfoKeys \cup {"name", "secret_key"})
        /\ {"ext_config"} \cap Audited = {}
    BY DEF InfoKeys, Audited
  <2>2. QED
    BY <1>1, <1>8, <2>1 DEF ExtConfig
<1>9. CASE Featured(r)
  BY <1>2, <1>9 DEF Featured, Flags
<1>10. CASE WarnOldOwners(r)
  BY <1>2, <1>10 DEF WarnOldOwners, Flags
<1>11. QED
  BY <1>4, <1>5, <1>6, <1>7, <1>8, <1>9, <1>10

\* A handler that saves and then enters what it has saved.
LEMMA EnteringPlan ==
  ASSUME NEW r, row["owners_ids"] \subseteq Users,
         \/ Update(r) \/ SetupAutoimporter(r) \/ DeleteAutoimporter(r) \/ TaskScheduler(r)
         \/ TaskTimeout(r) \/ Publish(r) \/ AddCoowner(r) \/ DelCoowner(r) \/ AssignUsers(r)
         \/ QuizMode(r) \/ ConfigureEnrichment(r) \/ AnnotationConfig(r)
  PROVE  Planned(r)
<1> DEFINE Free == InfoKeys \cup {"name", "secret_key"}
<1>1. \A K \in SUBSET Free, v \in Values, step \in Steps :
        /\ step.do \in Entering /\ K \cap Audited \subseteq step.keys
        /\ Form(r, K, v, <<Save, step>>)
        => Planned(r)
  <2> SUFFICES ASSUME NEW K \in SUBSET Free, NEW v \in Values, NEW step \in Steps,
                      step.do \in Entering, K \cap Audited \subseteq step.keys,
                      Form(r, K, v, <<Save, step>>)
               PROVE  Planned(r)
    OBVIOUS
  <2>1. K \in SUBSET Fields /\ \A f \in K : v \in Held(f)
    BY HeldFacts DEF Fields, Columns
  <2> HIDE DEF Free
  <2>2. QED
    BY <2>1, EnteredPlan
<1>2. Default \in Values
  BY DEF DocumentConstants
<1>3. \A K \in SUBSET Fields :
        /\ Tell(K) \in Steps /\ Tell(K).do \in Entering /\ Tell(K).keys = K
        /\ Reread(K) \in Steps /\ Reread(K).do \in Entering /\ Reread(K).keys = K
        /\ Compare(K) \in Steps /\ Compare(K).do \in Entering /\ Compare(K).keys = K
  BY StepFacts DEF Entering
<1>4. Free \subseteq Fields
  BY DEF Fields, Columns
<1>5. CASE Update(r)
  <2>1. \A K \in {{}, {"passwd_hash"}} :
          {"name", "product", "allow_taskrun_edit", "annotation_config"} \cup K \in SUBSET Free
    BY DEF InfoKeys
  <2> HIDE DEF Free
  <2>2. QED
    BY <1>1, <1>3, <1>4, <1>5, <2>1 DEF Update
<1>6. CASE SetupAutoimporter(r)
  <2>1. {"autoimporter"} \in SUBSET Free
    BY DEF InfoKeys
  <2> HIDE DEF Free
  <2>2. QED
    BY <1>1, <1>2, <1>3, <1>4, <1>6, <2>1 DEF SetupAutoimporter
<1>7. CASE DeleteAutoimporter(r)
  <2>1. {"autoimporter"} \in SUBSET Free
    BY DEF InfoKeys
  <2> HIDE DEF Free
  <2>2. QED
    BY <1>1, <1>2, <1>3, <1>4, <1>7, <2>1 DEF DeleteAutoimporter
<1>8. CASE TaskScheduler(r)
  <2>1. {"sched"} \in SUBSET Free
    BY DEF InfoKeys
  <2> HIDE DEF Free
  <2>2. QED
    BY <1>1, <1>2, <1>3, <1>4, <1>8, <2>1 DEF TaskScheduler
<1>9. CASE TaskTimeout(r)
  <2>1. {"timeout"} \in SUBSET Free
    BY DEF InfoKeys
  <2> HIDE DEF Free
  <2>2. QED
    BY <1>1, <1>2, <1>3, <1>4, <1>9, <2>1 DEF TaskTimeout
<1>10. CASE QuizMode(r)
  <2>1. {"quiz"} \in SUBSET Free
    BY DEF InfoKeys
  <2> HIDE DEF Free
  <2>2. QED
    BY <1>1, <1>2, <1>3, <1>4, <1>10, <2>1 DEF QuizMode
<1>11. CASE ConfigureEnrichment(r)
  <2>1. {"enrichments"} \in SUBSET Free
    BY DEF InfoKeys
  <2> HIDE DEF Free
  <2>2. QED
    BY <1>1, <1>2, <1>3, <1>4, <1>11, <2>1 DEF ConfigureEnrichment
<1>12. CASE AnnotationConfig(r)
  <2>1. {"annotation_config"} \in SUBSET Free
    BY DEF InfoKeys
  <2> HIDE DEF Free
  <2>2. QED
    BY <1>1, <1>2, <1>3, <1>4, <1>12, <2>1 DEF AnnotationConfig
<1>13. CASE AssignUsers(r)
  <2>1. {"project_users"} \in SUBSET Free /\ {"project_users"} \cap Audited = {}
        /\ {} \in SUBSET Fields
    BY DEF InfoKeys, Audited
  <2> HIDE DEF Free
  <2>2. QED
    BY <1>1, <1>3, <1>13, <2>1 DEF AssignUsers
<1>14. \A k \in {"published", "owners_ids"} : \A v \in Held(k) :
        Form(r, {k}, v, <<Save, Reread({k})>>) => Planned(r)
  <2> SUFFICES ASSUME NEW k \in {"published", "owners_ids"}, NEW v \in Held(k),
                      Form(r, {k}, v, <<Save, Reread({k})>>)
               PROVE  Planned(r)
    OBVIOUS
  <2>1. {k} \in SUBSET Fields /\ {k} \cap Audited = {}
    BY DEF Fields, Columns, Flags, Audited
  <2>2. QED
    BY <1>3, <2>1, EnteredPlan
<1>15. CASE Publish(r)
  <2>1. Held("published") = BOOLEAN
    BY HeldFacts DEF Flags, Fields, Columns
  <2>2. \A b \in BOOLEAN :
          Form(r, {"published"}, b, <<Save, Reread({"published"})>>) => Planned(r)
    BY <1>14, <2>1
  <2>3. QED
    BY <1>15, <2>2 DEF Publish
<1>16. CASE AddCoowner(r)
  BY <1>14, <1>16, HeldFacts DEF AddCoowner
<1>17. CASE DelCoowner(r)
  BY <1>14, <1>17, HeldFacts DEF DelCoowner
<1>18. QED
  BY <1>5, <1>6, <1>7, <1>8, <1>9, <1>10, <1>11, <1>12, <1>13, <1>14, <1>15, <1>16, <1>17

LEMMA ReminderPlan == ASSUME NEW r, SendReminder(r) PROVE Planned(r)
<1> DEFINE K == {"progress_reminder"}
<1>1. PICK v \in Values, write \in {Save, Tell({})} : Form(r, K, v, <<write>>)
  BY DEF SendReminder
<1>2. /\ K \in SUBSET Fields /\ \A f \in K : v \in Held(f)
      /\ K \cap Audited = {} /\ K \cap {"owner_id", "owners_ids"} = {}
  BY HeldFacts DEF InfoKeys, Audited
<1>3. write \in Steps /\ write.do # "edit"
  BY StepFacts
<1>4. Plan(<<write>>) /\ <<write>> # <<>>
  BY <1>3, OneStep
<1> HIDE DEF K
<1>5. QED
  BY <1>1, <1>2, <1>4, FormPlan

\* Every request follows a sound plan, whichever handler serves it.
LEMMA Handlers == ASSUME NEW r, row["owners_ids"] \subseteq Users, Begin(r) PROVE Planned(r)
BY Zenon, PresenterPlan, RedundancyPlan, AnswerFieldsPlan, NotificationPlan, CoownersPlan,
   TransferPlan, PutPlan, SavingPlan, EnteringPlan, ReminderPlan DEF Begin

-----------------------------------------------------------------------------
(* Rows, commits and the kinds of steps.                                   *)

LEMMA RowFacts ==
  ASSUME NEW d, IsRow(d)
  PROVE  /\ d # Nothing
         /\ d["owner_id"] \in Users /\ d["owners_ids"] \subseteq Users
         /\ \A k \in InfoKeys : d[k] \in Values
BY HeldFacts DEF IsRow, Nothing, Fields, Columns

LEMMA SessionRow == ASSUME TypeOK, NEW r \in Requests PROVE IsRow(Session(r))
BY DEF TypeOK, Session

LEMMA SetRow ==
  ASSUME NEW d, IsRow(d), NEW g, NEW K, \A f \in K \cap DOMAIN g : g[f] \in Held(f)
  PROVE  IsRow(Set(d, g, K))
BY DEF IsRow, Set

LEMMA NothingFacts == DOMAIN Nothing = {}
BY DEF Nothing

\* The request r commits row d, by columns C that hold all that differs from the row.
Stores(r, d, C) ==
  /\ todo[r] # <<>> /\ Head(todo[r]).do # "edit" /\ IsRow(d)
  /\ Commit(r, d, C) /\ Proceed(r) /\ UNCHANGED <<overlap, served, died>>
  /\ dirty[r] \subseteq C
  /\ C \subseteq dirty[r] \cup {"info", "owners_ids"}
  /\ \A f \in Fields \ {"owners_ids"} : d[f] = Session(r)[f]
  /\ \/ d["owners_ids"] = Session(r)["owners_ids"]
     \/ /\ "owners_ids" \in C /\ Session(r)["owner_id"] \notin Session(r)["owners_ids"]
        /\ d["owners_ids"] = Session(r)["owners_ids"] \cup {Session(r)["owner_id"]}
  /\ IF Head(todo[r]).do = "save" THEN d["owner_id"] \in d["owners_ids"] ELSE d = Session(r)
  /\ "owners_ids" \notin C => d["owners_ids"] = Session(r)["owners_ids"]
  /\ "owners_ids" \in C \ dirty[r] => d["owners_ids"] # Session(r)["owners_ids"]

LEMMA EntryStores ==
  ASSUME TypeOK, NEW r \in Requests, EnterLog(r)
  PROVE  Stores(r, Session(r), dirty[r])
BY SessionRow DEF EnterLog, Stores

LEMMA SaveStores ==
  ASSUME TypeOK, NEW r \in Requests, SaveProject(r)
  PROVE  \E d, C : Stores(r, d, C) /\ trail' = trail /\ Head(todo[r]).do = "save"
<1> DEFINE e == Session(r)  d == WithOwner(e)  C == dirty[r] \cup Classified(e, d)
<1>1. IsRow(e)
  BY SessionRow
<1>2. /\ \A f \in Fields \ {"owners_ids"} : d[f] = e[f]
      /\ d["owners_ids"] = e["owners_ids"] \cup {e["owner_id"]}
      /\ DOMAIN d = Fields
  BY <1>1 DEF WithOwner, IsRow, Fields, Columns
<1>3. /\ IsRow(d) /\ d["owner_id"] \in d["owners_ids"]
  <2>1. d["owners_ids"] \in Held("owners_ids")
    BY <1>1, <1>2, RowFacts, HeldFacts
  <2>2. "owner_id" \in Fields \ {"owners_ids"}
    BY DEF Fields, Columns
  <2>3. \A f \in Fields : d[f] \in Held(f)
    BY <1>1, <1>2, <2>1 DEF IsRow
  <2>4. QED
    BY <1>2, <2>2, <2>3 DEF IsRow
<1>4. Classified(e, d) \ {"info"} = {c \in Columns : d[c] # e[c]}
  BY DEF Classified, Touched, Columns, Flags
<1>5. Columns \subseteq Fields /\ "owners_ids" \in Columns
  BY DEF Fields, Columns
<1>6. C \subseteq dirty[r] \cup {"info", "owners_ids"}
  BY <1>2, <1>4, <1>5
<1>7. /\ "owners_ids" \in C \/ d["owners_ids"] = e["owners_ids"]
      /\ "owners_ids" \in C \ dirty[r] => d["owners_ids"] # e["owners_ids"]
  BY <1>4, <1>5
<1>8. \/ d["owners_ids"] = e["owners_ids"]
      \/ "owners_ids" \in C /\ e["owner_id"] \notin e["owners_ids"]
  BY <1>2, <1>7
<1>9. /\ todo[r] # <<>> /\ Head(todo[r]).do = "save" /\ Commit(r, d, C) /\ Proceed(r)
      /\ UNCHANGED <<overlap, trail, served, died>>
  BY DEF SaveProject
<1> HIDE DEF d, C
<1>10. Stores(r, d, C)
  BY <1>2, <1>3, <1>6, <1>7, <1>8, <1>9 DEF Stores, C
<1>11. QED
  BY <1>9, <1>10

\* Whatever happens is the start of a sound plan or a step of a request.
LEMMA Moves ==
  ASSUME TypeOK, Next, vars' # vars
  PROVE  \E r \in Requests : Planned(r) \/ Step(r)
<1>1. row["owners_ids"] \subseteq Users
  BY RowFacts DEF TypeOK
<1>2. QED
  BY Zenon, <1>1, Handlers DEF Next, Horizon

LEMMA ProceedFacts ==
  ASSUME TypeOK, NEW r \in Requests, todo[r] # <<>>, Proceed(r)
  PROVE  /\ todo' \in [Requests -> Seq(Steps)] /\ todo'[r] = Tail(todo[r])
         /\ \A q \in Requests \ {r} : todo'[q] = todo[q]
         /\ DOMAIN given' = Requests /\ DOMAIN base' = Requests
         /\ \A q \in Requests \ {r} : given'[q] = given[q] /\ base'[q] = base[q]
         /\ IF todo'[r] = <<>> THEN given'[r] = Nothing /\ base'[r] = Nothing
            ELSE given'[r] = given[r] /\ base'[r] = base[r]
         /\ todo'[r] # todo[r]
<1>1. todo[r] \in Seq(Steps)
  BY DEF TypeOK
<1>2. /\ Len(todo[r]) \in Nat /\ Len(todo[r]) > 0 /\ Tail(todo[r]) \in Seq(Steps)
      /\ Tail(todo[r]) = <<>> <=> Len(todo[r]) = 1
      /\ Tail(todo[r]) # todo[r]
  BY <1>1, TailFacts
<1>3. /\ todo' \in [Requests -> Seq(Steps)] /\ todo'[r] = Tail(todo[r])
      /\ \A q \in Requests \ {r} : todo'[q] = todo[q]
  BY <1>2 DEF Proceed, TypeOK
<1>4. Len(todo[r]) > 1 <=> Tail(todo[r]) # <<>>
  <2> DEFINE n == Len(todo[r])
  <2>1. n \in Nat /\ n > 0 /\ (Tail(todo[r]) = <<>> <=> n = 1)
    BY <1>2
  <2> HIDE DEF n
  <2>2. n > 1 <=> n # 1
    BY <2>1
  <2>3. QED
    BY <2>1, <2>2 DEF n
<1>5. CASE Len(todo[r]) > 1
  BY <1>2, <1>3, <1>4, <1>5 DEF Proceed, TypeOK
<1>6. CASE ~(Len(todo[r]) > 1)
  <2>1. /\ given' = [given EXCEPT ![r] = Nothing] /\ base' = [base EXCEPT ![r] = Nothing]
    BY <1>6 DEF Proceed
  <2>2. /\ DOMAIN given' = Requests /\ DOMAIN base' = Requests
        /\ given'[r] = Nothing /\ base'[r] = Nothing
        /\ \A q \in Requests \ {r} : given'[q] = given[q] /\ base'[q] = base[q]
    BY <2>1 DEF TypeOK
  <2>3. todo'[r] = <<>>
    BY <1>3, <1>4, <1>6
  <2>4. QED
    BY <1>2, <1>3, <2>2, <2>3
<1>7. QED
  BY <1>5, <1>6

LEMMA CommitFacts ==
  ASSUME TypeOK, NEW r \in Requests, NEW d, NEW C, IsRow(d), Commit(r, d, C)
  PROVE  /\ IsRow(row')
         /\ \A f \in Fields : row'[f] = IF ColumnOf(f) \in C THEN d[f] ELSE row[f]
         /\ DOMAIN copy' = Requests /\ copy'[r] = Nothing
         /\ dirty' \in [Requests -> SUBSET ({"info"} \cup Columns)] /\ dirty'[r] = {}
         /\ \A q \in Requests \ {r} : copy'[q] = copy[q] /\ dirty'[q] = dirty[q]
         /\ overlooked' \in [Requests -> SUBSET Fields] /\ overlooked'[r] = {}
         /\ \A q \in Requests \ {r} :
              overlooked'[q] = IF copy[q] = Nothing THEN {}
                               ELSE overlooked[q] \cup {f \in Fields : row'[f] # row[f]}
BY DEF TypeOK, Commit, Written, IsRow

-----------------------------------------------------------------------------
(* Type correctness.                                                       *)

LEMMA TypeInit == Init => TypeOK
<1>1. ASSUME NEW u \in Users PROVE IsRow(New(u))
  BY DocumentConstants DEF IsRow, New, Held, Flags, DocumentConstants
<1>2. \A d : IsRow(d) => d # Nothing
  BY RowFacts
<1>3. 0 \in Nat /\ <<>> \in Seq(Steps)
  OBVIOUS
<1>4. [k \in Audited |-> Default] \in [Audited -> Values]
  BY DocumentConstants
<1>5. SUFFICES ASSUME Init PROVE TypeOK
  OBVIOUS
<1>6. IsRow(row)
  BY <1>1, <1>5 DEF Init
<1>7. overlap \in BOOLEAN /\ trail \in [Audited -> Values]
  BY <1>4, <1>5, DocumentConstants DEF Init
<1>8. \A r \in Requests : todo[r] = <<>> /\ given[r] = Nothing /\ copy[r] = Nothing
  BY <1>5 DEF Init
<1>9. /\ todo \in [Requests -> Seq(Steps)]
      /\ dirty \in [Requests -> SUBSET ({"info"} \cup Columns)]
      /\ overlooked \in [Requests -> SUBSET Fields]
      /\ DOMAIN given = Requests /\ DOMAIN base = Requests /\ DOMAIN copy = Requests
  BY <1>3, <1>5 DEF Init
<1>10. served \in Nat /\ died \in BOOLEAN
  BY <1>5 DEF Init
<1>11. QED
  BY <1>6, <1>7, <1>8, <1>9, <1>10, NothingFacts DEF TypeOK

LEMMA ServeType ==
  ASSUME TypeOK, NEW r \in Requests, NEW g, NEW now, NEW plan,
         Serve(r, g, now, plan), Sound(g, now, plan)
  PROVE  TypeOK'
<1> DEFINE d == Set(row, g, now)
<1>1. IsRow(d)
  BY SetRow DEF Sound, TypeOK
<1>2. Touched(row, d, now) \subseteq {"info"} \cup Columns
  BY DEF Touched
<1>3. plan \in Seq(Steps) /\ DOMAIN g \subseteq Fields /\ \A f \in DOMAIN g : g[f] \in Held(f)
  BY DEF Sound, Plan
<1>4. /\ served' = served + 1 /\ todo' = [todo EXCEPT ![r] = plan]
      /\ given' = [given EXCEPT ![r] = g] /\ base' = [base EXCEPT ![r] = row]
      /\ copy' = [copy EXCEPT ![r] = d] /\ dirty' = [dirty EXCEPT ![r] = Touched(row, d, now)]
      /\ UNCHANGED <<overlap, row, trail, overlooked, died>>
  BY DEF Serve
<1> HIDE DEF d
<1>5. /\ todo' \in [Requests -> Seq(Steps)]
      /\ dirty' \in [Requests -> SUBSET ({"info"} \cup Columns)]
      /\ DOMAIN given' = Requests /\ DOMAIN base' = Requests /\ DOMAIN copy' = Requests
  BY <1>2, <1>3, <1>4 DEF TypeOK
<1>6. ASSUME NEW q \in Requests
      PROVE  /\ DOMAIN given'[q] \subseteq Fields
             /\ \A f \in DOMAIN given'[q] : given'[q][f] \in Held(f)
             /\ todo'[q] # <<>> => IsRow(base'[q])
             /\ copy'[q] # Nothing => IsRow(copy'[q])
  BY <1>1, <1>3, <1>4 DEF TypeOK
<1>7. overlap' \in BOOLEAN /\ died' \in BOOLEAN /\ served' \in Nat
  BY <1>4 DEF TypeOK
<1>8. IsRow(row)' /\ trail' \in [Audited -> Values] /\ overlooked' \in [Requests -> SUBSET Fields]
  BY <1>4 DEF TypeOK, IsRow
<1>9. QED
  BY <1>5, <1>6, <1>7, <1>8 DEF TypeOK, IsRow

\* What an entry says of an audited setting.
LEMMA EntryFacts ==
  ASSUME TypeOK, NEW r \in Requests, EnterLog(r)
  PROVE  /\ trail' \in [Audited -> Values]
         /\ Head(todo[r]).do \in Entering
         /\ \A k \in Audited :
              trail'[k] =
                IF /\ k \in Head(todo[r]).keys
                   /\ Head(todo[r]).do = "tell" => k \in DOMAIN given[r]
                   /\ Head(todo[r]).do = "compare" => Session(r)[k] # base[r][k]
                THEN IF Head(todo[r]).do = "tell" THEN given[r][k] ELSE Session(r)[k]
                ELSE trail[k]
<1>1. IsRow(Session(r)) /\ \A k \in Audited : k \in InfoKeys /\ Session(r)[k] \in Values
  BY SessionRow, RowFacts, HeldFacts
<1>2. \A k \in Audited \cap DOMAIN given[r] : given[r][k] \in Values
  BY HeldFacts DEF TypeOK
<1>3. Head(todo[r]).do \in {"tell", "reread", "compare"}
  BY DEF EnterLog
<1>4. trail' = [k \in Audited |-> IF k \in DOMAIN Entries(r) THEN Entries(r)[k] ELSE trail[k]]
  BY DEF EnterLog
<1> DEFINE step == Head(todo[r])
<1>5. CASE step.do = "tell"
  <2>1. Entries(r) = [f \in step.keys \cap DOMAIN given[r] |-> given[r][f]]
    BY <1>5 DEF Entries
  <2>2. \A k \in Audited : trail'[k] = IF k \in step.keys \cap DOMAIN given[r]
                                        THEN given[r][k] ELSE trail[k]
    BY <1>4, <2>1
  <2>3. trail' \in [Audited -> Values]
    BY <1>2, <1>4, <2>1 DEF TypeOK
  <2>4. QED
    BY <1>3, <1>5, <2>2, <2>3 DEF Entering
<1>6. CASE step.do = "reread"
  <2>1. Entries(r) = [f \in step.keys |-> Session(r)[f]]
    BY <1>6 DEF Entries
  <2>2. \A k \in Audited : trail'[k] = IF k \in step.keys THEN Session(r)[k] ELSE trail[k]
    BY <1>4, <2>1
  <2>3. trail' \in [Audited -> Values]
    BY <1>1, <1>4, <2>1 DEF TypeOK
  <2>4. QED
    BY <1>3, <1>6, <2>2, <2>3 DEF Entering
<1>7. CASE step.do = "compare"
  <2>1. Entries(r) = [f \in {f \in step.keys : Session(r)[f] # base[r][f]} |-> Session(r)[f]]
    BY <1>7 DEF Entries
  <2>2. \A k \in Audited : trail'[k] = IF k \in step.keys /\ Session(r)[k] # base[r][k]
                                        THEN Session(r)[k] ELSE trail[k]
    BY <1>4, <2>1
  <2>3. trail' \in [Audited -> Values]
    BY <1>1, <1>4, <2>1 DEF TypeOK
  <2>4. QED
    BY <1>3, <1>7, <2>2, <2>3 DEF Entering
<1>8. QED
  BY <1>3, <1>5, <1>6, <1>7

LEMMA StoreType ==
  ASSUME TypeOK, NEW r \in Requests, NEW d, NEW C, Stores(r, d, C),
         trail' \in [Audited -> Values]
  PROVE  TypeOK'
<1>1. /\ todo[r] # <<>> /\ IsRow(d) /\ Commit(r, d, C) /\ Proceed(r)
      /\ UNCHANGED <<overlap, served, died>>
  BY DEF Stores
<1>2. /\ todo' \in [Requests -> Seq(Steps)]
      /\ DOMAIN given' = Requests /\ DOMAIN base' = Requests
      /\ \A q \in Requests : given'[q] \in {given[q], Nothing}
      /\ \A q \in Requests : todo'[q] # <<>> => todo[q] # <<>> /\ base'[q] = base[q]
  BY <1>1, ProceedFacts
<1>3. /\ IsRow(row') /\ DOMAIN copy' = Requests
      /\ dirty' \in [Requests -> SUBSET ({"info"} \cup Columns)]
      /\ overlooked' \in [Requests -> SUBSET Fields]
      /\ \A q \in Requests : copy'[q] \in {copy[q], Nothing}
  BY <1>1, CommitFacts
<1>4. ASSUME NEW q \in Requests
      PROVE  /\ DOMAIN given'[q] \subseteq Fields
             /\ \A f \in DOMAIN given'[q] : given'[q][f] \in Held(f)
             /\ todo'[q] # <<>> => IsRow(base'[q])
             /\ copy'[q] # Nothing => IsRow(copy'[q])
  BY <1>2, <1>3, NothingFacts DEF TypeOK
<1>5. overlap' \in BOOLEAN /\ died' \in BOOLEAN /\ served' \in Nat
  BY <1>1 DEF TypeOK
<1>6. QED
  BY <1>2, <1>3, <1>4, <1>5 DEF TypeOK, IsRow

\* The request r sets the fields K that it is given in the session, which then holds d.
Edits(r, d, K) ==
  /\ todo[r] # <<>> /\ Head(todo[r]).do = "edit" /\ K = Head(todo[r]).keys
  /\ Proceed(r) /\ UNCHANGED <<overlap, row, trail, overlooked, served, died>>
  /\ IsRow(d)
  /\ copy' = [copy EXCEPT ![r] = d]
  /\ dirty' = [dirty EXCEPT ![r] = @ \cup Touched(Session(r), d, K)]
  /\ \A f \in Fields : d[f] # Session(r)[f] => f \in DOMAIN given[r] \cap K
  /\ "owners_ids" \in K \cap DOMAIN given[r] => d["owners_ids"] = Merged(r, Session(r))
  /\ "owners_ids" \notin K \cap DOMAIN given[r] =>
       \A f \in DOMAIN given[r] \cap K \cap Fields : d[f] = given[r][f]

LEMMA EditFacts ==
  ASSUME TypeOK, NEW r \in Requests, EditProject(r)
  PROVE  \E d, K : Edits(r, d, K)
<1> DEFINE s == Session(r)  K == Head(todo[r]).keys
           owners == "owners_ids" \in K \cap DOMAIN given[r]
           d == IF owners THEN [s EXCEPT !["owners_ids"] = Merged(r, s)] ELSE Set(s, given[r], K)
           Good == /\ IsRow(d)
                   /\ \A f \in Fields : d[f] # s[f] => f \in DOMAIN given[r] \cap K
                   /\ owners => d["owners_ids"] = Merged(r, s)
                   /\ ~owners => \A f \in DOMAIN given[r] \cap K \cap Fields : d[f] = given[r][f]
<1>1. IsRow(s) /\ \A f \in DOMAIN given[r] : given[r][f] \in Held(f)
  BY SessionRow DEF TypeOK
<1>2. ASSUME owners PROVE Good
  <2>1. Merged(r, s) \in Held("owners_ids")
    BY <1>1, <1>2, RowFacts, HeldFacts DEF Merged
  <2>2. d = [s EXCEPT !["owners_ids"] = Merged(r, s)] /\ "owners_ids" \in Fields
    BY <1>2 DEF Fields, Columns
  <2>3. /\ DOMAIN d = Fields /\ d["owners_ids"] = Merged(r, s)
        /\ \A f \in Fields \ {"owners_ids"} : d[f] = s[f]
    BY <1>1, <2>2 DEF IsRow
  <2>4. IsRow(d)
    BY <1>1, <2>1, <2>3 DEF IsRow
  <2> HIDE DEF d
  <2>5. QED
    BY <1>2, <2>3, <2>4
<1>3. ASSUME ~owners PROVE Good
  <2>1. d = Set(s, given[r], K)
    BY <1>3
  <2>2. IsRow(d)
    BY <1>1, <2>1, SetRow
  <2>3. \A f \in Fields : d[f] = IF f \in K \cap DOMAIN given[r] THEN given[r][f] ELSE s[f]
    BY <2>1 DEF Set
  <2> HIDE DEF d
  <2>4. QED
    BY <1>3, <2>2, <2>3
<1>4. /\ todo[r] # <<>> /\ Head(todo[r]).do = "edit" /\ Proceed(r)
      /\ UNCHANGED <<overlap, row, trail, overlooked, served, died>>
      /\ copy' = [copy EXCEPT ![r] = d]
      /\ dirty' = [dirty EXCEPT ![r] = @ \cup Touched(s, d, K)]
  BY DEF EditProject
<1>5. Good
  BY <1>2, <1>3
<1> HIDE DEF d
<1>6. Edits(r, d, K)
  BY <1>4, <1>5 DEF Edits
<1>7. QED
  BY <1>6

LEMMA EditType ==
  ASSUME TypeOK, NEW r \in Requests, EditProject(r)
  PROVE  TypeOK'
<1>1. PICK d, K :
        /\ todo[r] # <<>> /\ Proceed(r) /\ UNCHANGED <<overlap, row, trail, overlooked, served, died>>
        /\ IsRow(d) /\ copy' = [copy EXCEPT ![r] = d]
        /\ dirty' = [dirty EXCEPT ![r] = @ \cup Touched(Session(r), d, K)]
  BY EditFacts DEF Edits
<1>2. /\ todo' \in [Requests -> Seq(Steps)]
      /\ DOMAIN given' = Requests /\ DOMAIN base' = Requests
      /\ \A q \in Requests : given'[q] \in {given[q], Nothing}
      /\ \A q \in Requests : todo'[q] # <<>> => todo[q] # <<>> /\ base'[q] = base[q]
  BY <1>1, ProceedFacts
<1>3. Touched(Session(r), d, K) \subseteq {"info"} \cup Columns
  BY DEF Touched
<1>4. /\ dirty' \in [Requests -> SUBSET ({"info"} \cup Columns)] /\ DOMAIN copy' = Requests
      /\ \A q \in Requests : copy'[q] \in {copy[q], d}
  BY <1>1, <1>3 DEF TypeOK
<1>5. ASSUME NEW q \in Requests
      PROVE  /\ DOMAIN given'[q] \subseteq Fields
             /\ \A f \in DOMAIN given'[q] : given'[q][f] \in Held(f)
             /\ todo'[q] # <<>> => IsRow(base'[q])
             /\ copy'[q] # Nothing => IsRow(copy'[q])
  BY <1>1, <1>2, <1>4, NothingFacts DEF TypeOK
<1>6. /\ overlap' \in BOOLEAN /\ died' \in BOOLEAN /\ served' \in Nat
      /\ IsRow(row)' /\ trail' \in [Audited -> Values] /\ overlooked' \in [Requests -> SUBSET Fields]
  BY <1>1 DEF TypeOK, IsRow
<1>7. QED
  BY <1>2, <1>4, <1>5, <1>6 DEF TypeOK, IsRow

LEMMA AbandonFacts ==
  ASSUME TypeOK, NEW r \in Requests, EditFails(r) \/ Crash(r)
  PROVE  /\ todo[r] # <<>> /\ Abandon(r) /\ UNCHANGED <<overlap, row, trail, served>>
         /\ \A q \in Requests \ {r} :
              /\ todo'[q] = todo[q] /\ given'[q] = given[q] /\ base'[q] = base[q]
              /\ copy'[q] = copy[q] /\ dirty'[q] = dirty[q] /\ overlooked'[q] = overlooked[q]
         /\ todo'[r] = <<>> /\ given'[r] = Nothing /\ copy'[r] = Nothing
         /\ dirty'[r] = {} /\ overlooked'[r] = {}
BY DEF EditFails, Crash, Abandon, TypeOK

LEMMA AbandonType ==
  ASSUME TypeOK, NEW r \in Requests, EditFails(r) \/ Crash(r)
  PROVE  TypeOK'
<1>1. Abandon(r) /\ UNCHANGED <<overlap, row, trail, served>> /\ died' \in BOOLEAN
  BY AbandonFacts DEF EditFails, Crash, TypeOK
<1>2. <<>> \in Seq(Steps)
  OBVIOUS
<1>3. /\ todo' \in [Requests -> Seq(Steps)]
      /\ dirty' \in [Requests -> SUBSET ({"info"} \cup Columns)]
      /\ overlooked' \in [Requests -> SUBSET Fields]
      /\ DOMAIN given' = Requests /\ DOMAIN base' = Requests /\ DOMAIN copy' = Requests
  BY <1>1, <1>2 DEF Abandon, TypeOK
<1>4. ASSUME NEW q \in Requests
      PROVE  /\ DOMAIN given'[q] \subseteq Fields
             /\ \A f \in DOMAIN given'[q] : given'[q][f] \in Held(f)
             /\ todo'[q] # <<>> => IsRow(base'[q])
             /\ copy'[q] # Nothing => IsRow(copy'[q])
  BY AbandonFacts, NothingFacts DEF TypeOK
<1>5. overlap' \in BOOLEAN /\ served' \in Nat /\ IsRow(row)' /\ trail' \in [Audited -> Values]
  BY <1>1 DEF TypeOK, IsRow
<1>6. QED
  BY <1>1, <1>3, <1>4, <1>5 DEF TypeOK, IsRow

LEMMA TypeStep == TypeOK /\ [Next]_vars => TypeOK'
<1> SUFFICES ASSUME TypeOK, [Next]_vars PROVE TypeOK'
  OBVIOUS
<1>1. CASE vars' = vars
  BY <1>1 DEF vars, request, TypeOK, IsRow
<1>2. CASE vars' # vars
  <2>1. PICK r \in Requests : Planned(r) \/ Step(r)
    BY <1>2, Moves
  <2>2. CASE Planned(r)
    BY <2>2, ServeType DEF Planned
  <2>3. CASE SaveProject(r)
    <3>1. trail' \in [Audited -> Values]
      BY <2>3 DEF SaveProject, TypeOK
    <3>2. QED
      BY <2>3, <3>1, SaveStores, StoreType
  <2>4. CASE EnterLog(r)
    BY <2>4, EntryStores, EntryFacts, StoreType
  <2>5. CASE EditProject(r)
    BY <2>5, EditType
  <2>6. CASE EditFails(r) \/ Crash(r)
    BY <2>6, AbandonType
  <2>7. QED
    BY <2>1, <2>2, <2>3, <2>4, <2>5, <2>6 DEF Step
<1>3. QED
  BY <1>1, <1>2

\* Theorem: every variable has its type, for every set of requests, users and values.
THEOREM TypeCorrect == Spec => []TypeOK
BY TypeInit, TypeStep, PTL DEF Spec

-----------------------------------------------------------------------------
(* Requests at rest, and what sessions hold however requests overlap.      *)

\* The part of RestInv that is about one request, and that of CopyInv.
RestOf(r) ==
  /\ Plan(todo[r])
  /\ todo[r] = <<>> => copy[r] = Nothing /\ given[r] = Nothing
  /\ copy[r] = Nothing => dirty[r] = {} /\ overlooked[r] = {}
CopyOf(r) ==
  /\ copy[r] # Nothing => \A f \in Fields :
       f \in DOMAIN given[r] \/ f \in overlooked[r] \/ copy[r][f] = row[f]
  /\ dirty[r] \subseteq {"info"} \cup DOMAIN given[r]

LEMMA RestCopyInit == Init => RestInv /\ CopyInv
<1>1. Plan(<<>>)
  BY AboutNone DEF Plan
<1>2. QED
  BY <1>1 DEF Init, RestInv, CopyInv

\* A session without the row sees the row.
LEMMA SessionCopy ==
  ASSUME CopyInv, RestInv, NEW r \in Requests, NEW f \in Fields
  PROVE  \/ f \in DOMAIN given[r] \/ f \in overlooked[r] \/ Session(r)[f] = row[f]
BY DEF CopyInv, Session

LEMMA ServeRestCopy ==
  ASSUME TypeOK, RestInv, CopyInv, NEW r \in Requests, NEW g, NEW now, NEW plan,
         Serve(r, g, now, plan), Sound(g, now, plan)
  PROVE  RestInv' /\ CopyInv'
<1> DEFINE d == Set(row, g, now)
<1>1. IsRow(d)
  BY SetRow DEF Sound, TypeOK
<1>2. /\ todo' = [todo EXCEPT ![r] = plan] /\ given' = [given EXCEPT ![r] = g]
      /\ copy' = [copy EXCEPT ![r] = d] /\ dirty' = [dirty EXCEPT ![r] = Touched(row, d, now)]
      /\ UNCHANGED <<row, overlooked>>
  BY DEF Serve
<1>3. Plan(plan) /\ plan # <<>>
  BY DEF Sound
<1>4. \A f \in Fields : f \in DOMAIN g \/ d[f] = row[f]
  BY DEF Set
<1>5. Touched(row, d, now) \subseteq {"info"} \cup DOMAIN g
  BY <1>4, HeldFacts DEF Touched
<1>6. d # Nothing
  BY <1>1, RowFacts
<1> HIDE DEF d
<1>7. ASSUME NEW q \in Requests PROVE RestOf(q)' /\ CopyOf(q)'
  <2>1. CASE q = r
    BY <1>2, <1>3, <1>4, <1>5, <1>6, <2>1 DEF RestOf, CopyOf, TypeOK
  <2>2. CASE q # r
    BY <1>2, <2>2 DEF RestOf, CopyOf, TypeOK, RestInv, CopyInv
  <2>3. QED
    BY <2>1, <2>2
<1>8. QED
  BY <1>7 DEF RestInv, CopyInv, RestOf, CopyOf

LEMMA StoreRestCopy ==
  ASSUME TypeOK, RestInv, CopyInv, NEW r \in Requests, NEW d, NEW C, Stores(r, d, C)
  PROVE  RestInv' /\ CopyInv'
<1>1. todo[r] # <<>> /\ IsRow(d) /\ Commit(r, d, C) /\ Proceed(r)
  BY DEF Stores
<1>2. /\ copy'[r] = Nothing /\ dirty'[r] = {} /\ overlooked'[r] = {}
      /\ \A q \in Requests \ {r} :
           /\ copy'[q] = copy[q] /\ dirty'[q] = dirty[q]
           /\ overlooked'[q] = IF copy[q] = Nothing THEN {}
                               ELSE overlooked[q] \cup {f \in Fields : row'[f] # row[f]}
  BY <1>1, CommitFacts
<1>3. /\ todo'[r] = Tail(todo[r]) /\ (todo'[r] = <<>> => given'[r] = Nothing)
      /\ \A q \in Requests \ {r} : todo'[q] = todo[q] /\ given'[q] = given[q]
  BY <1>1, ProceedFacts
<1>4. Plan(Tail(todo[r]))
  BY <1>1, PlanTail DEF RestInv
<1>5. ASSUME NEW q \in Requests PROVE RestOf(q)' /\ CopyOf(q)'
  <2>1. CASE q = r
    BY <1>2, <1>3, <1>4, <2>1 DEF RestOf, CopyOf
  <2>2. CASE q # r
    <3>1. RestOf(q)'
      BY <1>2, <1>3, <2>2 DEF RestOf, RestInv
    <3>2. CopyOf(q)'
      <4>1. /\ given'[q] = given[q] /\ copy'[q] = copy[q] /\ dirty'[q] = dirty[q]
            /\ copy[q] # Nothing => overlooked'[q] =
                 overlooked[q] \cup {f \in Fields : row'[f] # row[f]}
        BY <1>2, <1>3, <2>2
      <4>2. CopyOf(q)
        BY DEF CopyInv, CopyOf
      <4>3. ASSUME copy'[q] # Nothing, NEW f \in Fields
            PROVE  f \in DOMAIN given'[q] \/ f \in overlooked'[q] \/ copy'[q][f] = row'[f]
        BY <4>1, <4>2, <4>3 DEF CopyOf
      <4>4. QED
        BY <4>1, <4>2, <4>3 DEF CopyOf
    <3>3. QED
      BY <3>1, <3>2
  <2>3. QED
    BY <2>1, <2>2
<1>6. QED
  BY <1>5 DEF RestInv, CopyInv, RestOf, CopyOf

\* An edit is never the last step, so that the request goes on.
LEMMA EditGoesOn ==
  ASSUME TypeOK, RestInv, NEW r \in Requests, NEW d, NEW K, Edits(r, d, K)
  PROVE  /\ todo'[r] = Tail(todo[r]) /\ todo'[r] # <<>> /\ Plan(todo'[r])
         /\ given'[r] = given[r] /\ base'[r] = base[r]
<1>1. /\ todo[r] # <<>> /\ Head(todo[r]).do = "edit" /\ Proceed(r) /\ todo[r] \in Seq(Steps)
  BY DEF Edits, TypeOK
<1>2. todo'[r] = Tail(todo[r]) /\ (todo'[r] # <<>> => given'[r] = given[r] /\ base'[r] = base[r])
  BY <1>1, ProceedFacts
<1>3. Tail(todo[r]) # <<>>
  BY <1>1, TailFacts DEF RestInv, Plan
<1>4. Plan(Tail(todo[r]))
  BY <1>1, PlanTail DEF RestInv
<1>5. QED
  BY <1>2, <1>3, <1>4

LEMMA EditRestCopy ==
  ASSUME TypeOK, RestInv, CopyInv, NEW r \in Requests, NEW d, NEW K, Edits(r, d, K)
  PROVE  RestInv' /\ CopyInv'
<1>1. /\ todo[r] # <<>> /\ Proceed(r) /\ UNCHANGED <<row, overlooked>> /\ IsRow(d)
      /\ copy' = [copy EXCEPT ![r] = d]
      /\ dirty' = [dirty EXCEPT ![r] = @ \cup Touched(Session(r), d, K)]
      /\ \A f \in Fields : d[f] # Session(r)[f] => f \in DOMAIN given[r]
  BY DEF Edits
<1>2. /\ todo'[r] # <<>> /\ Plan(todo'[r]) /\ given'[r] = given[r]
  BY EditGoesOn
<1>3. \A q \in Requests \ {r} : todo'[q] = todo[q] /\ given'[q] = given[q]
  BY <1>1, ProceedFacts
<1>4. /\ copy'[r] = d /\ dirty'[r] = dirty[r] \cup Touched(Session(r), d, K)
      /\ \A q \in Requests \ {r} : copy'[q] = copy[q] /\ dirty'[q] = dirty[q]
  BY <1>1 DEF TypeOK
<1>5. d # Nothing
  BY <1>1, RowFacts
<1>6. Touched(Session(r), d, K) \subseteq {"info"} \cup DOMAIN given[r]
  BY <1>1, HeldFacts DEF Touched
<1>7. \A f \in Fields : f \in DOMAIN given[r] \/ f \in overlooked[r] \/ d[f] = row[f]
  BY <1>1, SessionCopy
<1>8. ASSUME NEW q \in Requests PROVE RestOf(q)' /\ CopyOf(q)'
  <2>1. CASE q = r
    BY <1>1, <1>2, <1>4, <1>5, <1>6, <1>7, <2>1 DEF RestOf, CopyOf, CopyInv
  <2>2. CASE q # r
    BY <1>1, <1>3, <1>4, <2>2 DEF RestOf, CopyOf, RestInv, CopyInv
  <2>3. QED
    BY <2>1, <2>2
<1>9. QED
  BY <1>8 DEF RestInv, CopyInv, RestOf, CopyOf

LEMMA AbandonRestCopy ==
  ASSUME TypeOK, RestInv, CopyInv, NEW r \in Requests, EditFails(r) \/ Crash(r)
  PROVE  RestInv' /\ CopyInv'
<1>1. Plan(<<>>)
  BY AboutNone DEF Plan
<1>2. row' = row
  BY AbandonFacts
<1>3. ASSUME NEW q \in Requests PROVE RestOf(q)' /\ CopyOf(q)'
  <2>1. CASE q = r
    BY <1>1, <2>1, AbandonFacts DEF RestOf, CopyOf
  <2>2. CASE q # r
    BY <1>2, <2>2, AbandonFacts DEF RestOf, CopyOf, RestInv, CopyInv
  <2>3. QED
    BY <2>1, <2>2
<1>4. QED
  BY <1>3 DEF RestInv, CopyInv, RestOf, CopyOf

LEMMA RestCopyStep == TypeOK /\ RestInv /\ CopyInv /\ [Next]_vars => RestInv' /\ CopyInv'
<1> SUFFICES ASSUME TypeOK, RestInv, CopyInv, [Next]_vars PROVE RestInv' /\ CopyInv'
  OBVIOUS
<1>1. CASE vars' = vars
  BY <1>1 DEF vars, request, RestInv, CopyInv
<1>2. CASE vars' # vars
  <2>1. PICK r \in Requests : Planned(r) \/ Step(r)
    BY <1>2, Moves
  <2>2. CASE Planned(r)
    BY <2>2, ServeRestCopy DEF Planned
  <2>3. CASE SaveProject(r)
    BY <2>3, SaveStores, StoreRestCopy
  <2>4. CASE EnterLog(r)
    BY <2>4, EntryStores, StoreRestCopy
  <2>5. CASE EditProject(r)
    BY <2>5, EditFacts, EditRestCopy
  <2>6. CASE EditFails(r) \/ Crash(r)
    BY <2>6, AbandonRestCopy
  <2>7. QED
    BY <2>1, <2>2, <2>3, <2>4, <2>5, <2>6 DEF Step
<1>3. QED
  BY <1>1, <1>2

\* The step formula of ChangesAccounted.
Accounted ==
  \A f \in Fields : row'[f] # row[f] =>
    \E r \in Requests :
      /\ todo'[r] # todo[r]
      /\ \/ f \in DOMAIN given[r]
         \/ f \in InfoKeys \cap overlooked[r]
         \/ f = "owners_ids" /\ Session(r)["owner_id"] \notin Session(r)["owners_ids"]

LEMMA StoreAccounted ==
  ASSUME TypeOK, RestInv, CopyInv, NEW r \in Requests, NEW d, NEW C, Stores(r, d, C)
  PROVE  Accounted
<1> SUFFICES ASSUME NEW f \in Fields, row'[f] # row[f]
             PROVE  \/ f \in DOMAIN given[r]
                    \/ f \in InfoKeys \cap overlooked[r]
                    \/ f = "owners_ids" /\ Session(r)["owner_id"] \notin Session(r)["owners_ids"]
  <2>1. todo'[r] # todo[r]
    BY ProceedFacts DEF Stores
  <2>2. QED
    BY <2>1 DEF Accounted
<1>1. IsRow(d) /\ Commit(r, d, C)
  BY DEF Stores
<1>2. ColumnOf(f) \in C /\ d[f] # row[f]
  BY <1>1, CommitFacts
<1>3. CASE d[f] # Session(r)[f]
  BY <1>3 DEF Stores
<1>4. CASE d[f] = Session(r)[f] /\ f \notin DOMAIN given[r]
  <2>1. f \in overlooked[r]
    BY <1>2, <1>4, SessionCopy
  <2>2. CASE f \in InfoKeys
    BY <2>1, <2>2
  <2>3. CASE f \notin InfoKeys
    <3>1. ColumnOf(f) = f /\ f # "info"
      BY <2>3 DEF ColumnOf, Fields, Columns, Flags
    <3>2. f \notin dirty[r]
      BY <1>4, <3>1 DEF CopyInv
    <3>3. f = "owners_ids"
      BY <1>2, <3>1, <3>2 DEF Stores
    <3>4. QED
      BY <1>2, <1>4, <3>1, <3>2, <3>3 DEF Stores
  <2>4. QED
    BY <2>2, <2>3
<1>5. QED
  BY <1>3, <1>4

LEMMA AccountedStep == TypeOK /\ RestInv /\ CopyInv /\ [Next]_vars => Accounted
<1> SUFFICES ASSUME TypeOK, RestInv, CopyInv, [Next]_vars, row' # row PROVE Accounted
  BY DEF Accounted
<1>1. vars' # vars
  BY DEF vars
<1>2. PICK r \in Requests : Planned(r) \/ Step(r)
  BY <1>1, Moves
<1>3. ~Planned(r)
  BY DEF Planned, Serve
<1>4. ~EditProject(r) /\ ~EditFails(r) /\ ~Crash(r)
  BY DEF EditProject, EditFails, Crash
<1>5. CASE SaveProject(r)
  BY <1>5, SaveStores, StoreAccounted
<1>6. CASE EnterLog(r)
  BY <1>6, EntryStores, StoreAccounted
<1>7. QED
  BY <1>2, <1>3, <1>4, <1>5, <1>6 DEF Step

\* Theorem, however requests overlap: a field changes only by a request that was to
\* set it, or, if it is a setting, by one that had read it before others changed it.
THEOREM AccountedTheorem == Spec => ChangesAccounted
<1>1. Spec => [](TypeOK /\ RestInv /\ CopyInv)
  BY TypeInit, TypeStep, RestCopyInit, RestCopyStep, PTL DEF Spec
<1>2. TypeOK /\ RestInv /\ CopyInv /\ [Next]_vars => [Accounted]_vars
  BY AccountedStep
<1>3. Spec => [][Accounted]_vars
  BY <1>1, <1>2, PTL DEF Spec
<1>4. QED
  BY <1>3, PTL DEF ChangesAccounted, Accounted

-----------------------------------------------------------------------------
(* Requests that take turns.                                               *)

\* The parts of the invariants that are about one request.
TurnOf(r) ==
  /\ overlooked[r] = {}
  /\ \A f \in Fields : ColumnOf(f) \in dirty[r] \/ Session(r)[f] = row[f]
GivenOf(r) == todo[r] # <<>> =>
  /\ \A f \in Fields \ (DOMAIN given[r] \cup {"owners_ids"}) : Session(r)[f] = base[r][f]
  /\ "owners_ids" \notin DOMAIN given[r] => OwnersKept(r, Session(r))
  /\ \A f \in DOMAIN given[r] :
       \/ Session(r)[f] = given[r][f]
       \/ f = "owners_ids" /\ Session(r)[f] = given[r][f] \cup {Session(r)["owner_id"]}
       \/ Session(r)[f] = base[r][f] /\ About(todo[r], {"edit"}, f)
  /\ todo[r] \in Early => Session(r)["owners_ids"] = base[r]["owners_ids"]
TrailOf(r) == \A k \in Audited :
  IF k \in DOMAIN given[r]
  THEN \/ trail[k] = given[r][k]
       \/ trail[k] = base[r][k] /\ About(todo[r], Entering, k)
  ELSE trail[k] = base[r][k]
OwnerOf(r) ==
  \/ Session(r)["owner_id"] \in Session(r)["owners_ids"]
  \/ Head(todo[r]) = Save \/ todo[r] \in Late

TurnsInv == TurnInv /\ GivenInv /\ TrailInv /\ OwnerInv

\* They hold of all requests if they hold of the one r that moves.
LEMMA OneMoves ==
  ASSUME NEW r \in Requests, \A q \in Requests \ {r} : todo'[q] = <<>>,
         \A q \in Requests : TurnOf(q)', GivenOf(r)',
         ~died' => /\ todo'[r] # <<>> => TrailOf(r)' /\ OwnerOf(r)'
                   /\ todo'[r] = <<>> =>
                        /\ \A k \in Audited : trail'[k] = row'[k]
                        /\ row'["owner_id"] \in row'["owners_ids"]
  PROVE  TurnsInv'
<1>1. TurnInv'
  BY DEF TurnInv, TurnOf
<1>2. GivenInv'
  BY DEF GivenInv, GivenOf
<1>3. AtRest' <=> todo'[r] = <<>>
  BY DEF AtRest
<1>4. TrailInv'
  BY <1>3 DEF TrailInv, TrailOf
<1>5. OwnerInv'
  BY <1>3 DEF OwnerInv, OwnerOf
<1>6. QED
  BY <1>1, <1>2, <1>4, <1>5 DEF TurnsInv

LEMMA TurnsInit == Init => TurnsInv
<1> SUFFICES ASSUME Init PROVE TurnsInv
  OBVIOUS
<1>1. PICK u \in Users : row = New(u)
  BY DEF Init
<1>2. row["owner_id"] = u /\ row["owners_ids"] = {u} /\ \A k \in Audited : row[k] = Default
  BY <1>1 DEF New, Fields, Columns, Flags, Audited, InfoKeys
<1>3. \A r \in Requests : todo[r] = <<>> /\ overlooked[r] = {} /\ copy[r] = Nothing
  BY DEF Init
<1>4. TurnInv
  BY <1>3 DEF TurnInv, Session
<1>5. GivenInv
  BY <1>3 DEF GivenInv
<1>6. TrailInv
  BY <1>2, <1>3 DEF TrailInv, Init
<1>7. OwnerInv
  BY <1>2, <1>3 DEF OwnerInv
<1>8. QED
  BY <1>4, <1>5, <1>6, <1>7 DEF TurnsInv

LEMMA TouchedColumn ==
  ASSUME NEW d, NEW e, NEW K, NEW f \in K \cap Fields, e[f] # d[f]
  PROVE  ColumnOf(f) \in Touched(d, e, K)
BY DEF ColumnOf, Touched, Fields

LEMMA ServeTurns ==
  ASSUME TypeOK, RestInv, TurnsInv, NEW r \in Requests, NEW g, NEW now, NEW plan,
         Serve(r, g, now, plan), Sound(g, now, plan)
  PROVE  TurnsInv'
<1> SUFFICES ASSUME ~overlap PROVE TurnsInv'
  BY DEF Serve, TurnsInv, TurnInv, GivenInv, TrailInv, OwnerInv
<1> DEFINE d == Set(row, g, now)
<1>1. IsRow(d)
  BY SetRow DEF Sound, TypeOK
<1>2. /\ todo' = [todo EXCEPT ![r] = plan] /\ given' = [given EXCEPT ![r] = g]
      /\ base' = [base EXCEPT ![r] = row]
      /\ copy' = [copy EXCEPT ![r] = d] /\ dirty' = [dirty EXCEPT ![r] = Touched(row, d, now)]
      /\ UNCHANGED <<row, trail, overlooked, died>> /\ AtRest
  BY DEF Serve
<1>3. \A f \in Fields : d[f] = IF f \in now \cap DOMAIN g THEN g[f] ELSE row[f]
  BY DEF Set
<1>4. \A f \in Fields : d[f] # row[f] => ColumnOf(f) \in Touched(row, d, now)
  <2> HIDE DEF d
  <2>1. QED
    BY <1>3, TouchedColumn
<1>5. d # Nothing
  BY <1>1, RowFacts
<1> HIDE DEF d
<1>6. /\ todo'[r] = plan /\ given'[r] = g /\ base'[r] = row /\ copy'[r] = d
      /\ dirty'[r] = Touched(row, d, now) /\ Session(r)' = d
      /\ \A q \in Requests \ {r} : todo'[q] = <<>> /\ Session(q)' = Session(q) /\ dirty'[q] = dirty[q]
  BY <1>2, <1>5 DEF TypeOK, Session, AtRest
<1>7. ASSUME NEW q \in Requests PROVE TurnOf(q)'
  BY <1>2, <1>4, <1>6 DEF TurnOf, TurnsInv, TurnInv
<1>8. DOMAIN g \subseteq Fields /\ plan # <<>>
  BY DEF Sound
<1>9. GivenOf(r)'
  <2>1. \A f \in Fields \ (DOMAIN g \cup {"owners_ids"}) : d[f] = row[f]
    BY <1>3
  <2>2. \A f \in DOMAIN g : d[f] = g[f] \/ (d[f] = row[f] /\ About(plan, {"edit"}, f))
    BY <1>3, <1>8 DEF Sound
  <2>3. plan \in Early => d["owners_ids"] = row["owners_ids"]
    <3>1. plan \in Early => Head(plan) # Save
      BY PageFacts, StepFacts
    <3>2. "owners_ids" \in Fields
      BY DEF Fields, Columns
    <3>3. QED
      BY <1>3, <3>1, <3>2 DEF Sound
  <2>4. "owners_ids" \notin DOMAIN g => d["owners_ids"] = row["owners_ids"]
    BY <1>3 DEF Fields, Columns
  <2>5. QED
    BY <1>6, <2>1, <2>2, <2>3, <2>4 DEF GivenOf, OwnersKept
<1>10. ~died' => TrailOf(r)' /\ OwnerOf(r)'
  <2> SUFFICES ASSUME ~died PROVE TrailOf(r)' /\ OwnerOf(r)'
    BY <1>2
  <2>1. \A k \in Audited : trail'[k] = row[k]
    BY <1>2 DEF TurnsInv, TrailInv
  <2>2. TrailOf(r)'
    BY <1>6, <2>1 DEF TrailOf, Sound
  <2>3. row["owner_id"] \in row["owners_ids"]
    BY <1>2 DEF TurnsInv, OwnerInv
  <2>4. \/ d["owner_id"] = row["owner_id"] /\ d["owners_ids"] = row["owners_ids"]
        \/ Head(plan) = Save
    <3>1. {"owner_id", "owners_ids"} \subseteq Fields
      BY DEF Fields, Columns
    <3>2. QED
      BY <1>3, <3>1 DEF Sound
  <2>5. OwnerOf(r)'
    BY <1>6, <2>3, <2>4 DEF OwnerOf
  <2>6. QED
    BY <2>2, <2>5
<1>11. QED
  BY <1>6, <1>7, <1>8, <1>9, <1>10, OneMoves

\* In turns the others are at rest.
LEMMA Alone ==
  ASSUME RestInv, TurnInv, ~overlap, NEW r \in Requests, todo[r] # <<>>
  PROVE  \A q \in Requests \ {r} : todo[q] = <<>> /\ copy[q] = Nothing
BY DEF RestInv, TurnInv

\* In turns a commit stores the whole session.
LEMMA StoresAll ==
  ASSUME TypeOK, TurnInv, ~overlap, NEW r \in Requests, NEW d, NEW C, Stores(r, d, C)
  PROVE  \A f \in Fields : row'[f] = d[f]
<1> SUFFICES ASSUME NEW f \in Fields PROVE row'[f] = d[f]
  OBVIOUS
<1>1. row'[f] = IF ColumnOf(f) \in C THEN d[f] ELSE row[f]
  BY CommitFacts DEF Stores
<1>2. ColumnOf(f) \in dirty[r] \/ Session(r)[f] = row[f]
  BY DEF TurnInv
<1>3. ColumnOf("owners_ids") = "owners_ids"
  BY DEF ColumnOf, InfoKeys
<1>4. d[f] = Session(r)[f] \/ ColumnOf(f) \in C
  BY <1>3 DEF Stores
<1>5. dirty[r] \subseteq C
  BY DEF Stores
<1>6. QED
  BY <1>1, <1>2, <1>4, <1>5

LEMMA EarlyTail ==
  ASSUME NEW s, Plan(s), s # <<>>, Tail(s) \in Early
  PROVE  s \in Early
<1>1. About(Tail(s), {"edit"}, "owners_ids") /\ s \in Seq(Steps)
  BY PageFacts DEF Plan
<1>2. About(s, {"edit"}, "owners_ids")
  BY <1>1, AboutTail
<1>3. QED
  BY <1>2 DEF Plan

\* What a request that is given f has stored, whenever it commits.
LEMMA StoresGiven ==
  ASSUME TypeOK, RestInv, TurnsInv, ~overlap, NEW r \in Requests, NEW d, NEW C, Stores(r, d, C)
  PROVE  /\ \A f \in Fields \ (DOMAIN given[r] \cup {"owners_ids"}) : row'[f] = base[r][f]
         /\ "owners_ids" \notin DOMAIN given[r] => OwnersKept(r, row')
         /\ \A f \in DOMAIN given[r] :
              \/ row'[f] = given[r][f]
              \/ f = "owners_ids" /\ row'[f] = given[r][f] \cup {row'["owner_id"]}
              \/ row'[f] = base[r][f] /\ About(Tail(todo[r]), {"edit"}, f)
         /\ Tail(todo[r]) \in Early => row'["owners_ids"] = base[r]["owners_ids"]
<1>1. \A f \in Fields : row'[f] = d[f]
  BY StoresAll DEF TurnsInv
<1>2. /\ todo[r] # <<>> /\ Head(todo[r]).do # "edit" /\ Plan(todo[r]) /\ todo[r] \in Seq(Steps)
      /\ "owner_id" \in Fields \ {"owners_ids"} /\ "owners_ids" \in Fields
  BY DEF Stores, RestInv, Plan, Fields, Columns
<1>3. GivenOf(r) /\ DOMAIN given[r] \subseteq Fields
  BY DEF TurnsInv, GivenInv, GivenOf, TypeOK
<1>4. \A f \in Fields \ {"owners_ids"} : row'[f] = Session(r)[f]
  BY <1>1 DEF Stores
<1>5. \A f : About(todo[r], {"edit"}, f) => About(Tail(todo[r]), {"edit"}, f)
  BY <1>2, AboutTail
<1>6. todo[r] \in Early => row'["owners_ids"] = Session(r)["owners_ids"]
  <2>1. todo[r] \in Early => Head(todo[r]).do # "save"
    BY PageFacts
  <2>2. QED
    BY <1>1, <1>2, <2>1 DEF Stores
<1>7. ASSUME NEW f \in DOMAIN given[r]
      PROVE  \/ row'[f] = given[r][f]
             \/ f = "owners_ids" /\ row'[f] = given[r][f] \cup {row'["owner_id"]}
             \/ row'[f] = base[r][f] /\ About(Tail(todo[r]), {"edit"}, f)
  <2>1. CASE f # "owners_ids"
    BY <1>2, <1>3, <1>4, <1>5, <2>1 DEF GivenOf
  <2>2. CASE f = "owners_ids"
    <3>1. \/ row'[f] = Session(r)[f]
          \/ row'[f] = Session(r)[f] \cup {Session(r)["owner_id"]}
      BY <1>1, <1>2, <2>2 DEF Stores
    <3>2. row'["owner_id"] = Session(r)["owner_id"]
      BY <1>2, <1>4
    <3>3. CASE Session(r)[f] = given[r][f]
      BY <2>2, <3>1, <3>2, <3>3
    <3>4. CASE Session(r)[f] = given[r][f] \cup {Session(r)["owner_id"]}
      BY <2>2, <3>1, <3>2, <3>4
    <3>5. CASE Session(r)[f] = base[r][f] /\ About(todo[r], {"edit"}, f)
      <4>1. todo[r] \in Early
        BY <1>2, <2>2, <3>5 DEF Plan
      <4>2. QED
        BY <1>5, <1>6, <2>2, <3>5, <4>1
    <3>6. QED
      BY <1>2, <1>3, <3>3, <3>4, <3>5 DEF GivenOf
  <2>3. QED
    BY <2>1, <2>2
<1>8. \A f \in Fields \ (DOMAIN given[r] \cup {"owners_ids"}) : row'[f] = base[r][f]
  BY <1>2, <1>3, <1>4 DEF GivenOf
<1>9. Tail(todo[r]) \in Early => row'["owners_ids"] = base[r]["owners_ids"]
  BY <1>2, <1>3, <1>6, EarlyTail DEF GivenOf
<1>10. ASSUME "owners_ids" \notin DOMAIN given[r] PROVE OwnersKept(r, row')
  <2>1. OwnersKept(r, Session(r))
    BY <1>2, <1>3, <1>10 DEF GivenOf
  <2>2. \/ row'["owners_ids"] = Session(r)["owners_ids"]
        \/ row'["owners_ids"] = Session(r)["owners_ids"] \cup {Session(r)["owner_id"]}
    BY <1>1, <1>2 DEF Stores
  <2>3. row'["owner_id"] = Session(r)["owner_id"]
    BY <1>2, <1>4
  <2>4. QED
    BY <2>1, <2>2, <2>3 DEF OwnersKept
<1>11. QED
  BY <1>7, <1>8, <1>9, <1>10

\* What the log tells of the audited settings once r has committed.
Told(r) == \A k \in Audited :
  IF k \in DOMAIN given[r]
  THEN \/ trail'[k] = given[r][k]
       \/ trail'[k] = base[r][k] /\ About(Tail(todo[r]), Entering, k)
  ELSE trail'[k] = base[r][k]

LEMMA StoreTurns ==
  ASSUME TypeOK, RestInv, TurnsInv, ~overlap, NEW r \in Requests, NEW d, NEW C, Stores(r, d, C),
         ~died => Told(r)
  PROVE  TurnsInv'
<1>1. /\ todo[r] # <<>> /\ Commit(r, d, C) /\ Proceed(r) /\ IsRow(d)
      /\ Plan(todo[r]) /\ todo[r] \in Seq(Steps) /\ died' = died
  BY DEF Stores, RestInv, Plan
<1>2. \A q \in Requests \ {r} : todo[q] = <<>> /\ copy[q] = Nothing
  BY <1>1, Alone DEF TurnsInv
<1>3. ASSUME NEW q \in Requests PROVE copy'[q] = Nothing /\ overlooked'[q] = {}
  <2>1. CASE q = r
    BY <1>1, <2>1, CommitFacts
  <2>2. CASE q # r
    BY <1>1, <1>2, <2>2, CommitFacts
  <2>3. QED
    BY <2>1, <2>2
<1>4. \A q \in Requests : Session(q)' = row' /\ TurnOf(q)'
  BY <1>3 DEF Session, TurnOf
<1>5. /\ todo'[r] = Tail(todo[r]) /\ \A q \in Requests \ {r} : todo'[q] = <<>>
      /\ todo'[r] # <<>> => given'[r] = given[r] /\ base'[r] = base[r]
  BY <1>1, <1>2, ProceedFacts
<1>6. GivenOf(r)'
  <2>1. todo'[r] # <<>> => (OwnersKept(r, Session(r))' <=> OwnersKept(r, row'))
    BY <1>4, <1>5 DEF OwnersKept
  <2>2. QED
    BY <1>4, <1>5, <2>1, StoresGiven DEF GivenOf
<1>7. ASSUME ~died, todo'[r] # <<>> PROVE TrailOf(r)'
  BY <1>5, <1>7 DEF TrailOf, Told
<1>8. ASSUME ~died, todo'[r] = <<>> PROVE \A k \in Audited : trail'[k] = row'[k]
  <2> SUFFICES ASSUME NEW k \in Audited PROVE trail'[k] = row'[k]
    OBVIOUS
  <2>1. k \in Fields /\ k # "owners_ids"
    BY HeldFacts DEF Audited
  <2>2. ~About(Tail(todo[r]), Entering, k) /\ ~About(Tail(todo[r]), {"edit"}, k)
    BY <1>5, <1>8, AboutNone
  <2>3. QED
    BY <1>8, <2>1, <2>2, StoresGiven DEF Told
<1>9. row'["owner_id"] = d["owner_id"] /\ row'["owners_ids"] = d["owners_ids"]
  <2>1. {"owner_id", "owners_ids"} \subseteq Fields
    BY DEF Fields, Columns
  <2>2. QED
    BY <2>1, StoresAll DEF TurnsInv
<1>10. ASSUME ~died
       PROVE  \/ row'["owner_id"] \in row'["owners_ids"]
              \/ Tail(todo[r]) \in Late \/ Tail(todo[r]) = <<Save>>
  <2>1. OwnerOf(r)
    BY <1>1, <1>10 DEF TurnsInv, OwnerInv, OwnerOf
  <2>2. "owner_id" \in Fields \ {"owners_ids"}
    BY DEF Fields, Columns
  <2>3. CASE Session(r)["owner_id"] \in Session(r)["owners_ids"]
    BY <1>9, <2>2, <2>3 DEF Stores
  <2>4. CASE Head(todo[r]) = Save
    BY <1>9, <2>4, StepFacts DEF Stores
  <2>5. CASE todo[r] \in Late
    BY <2>5, PageFacts
  <2>6. QED
    BY <2>1, <2>3, <2>4, <2>5 DEF OwnerOf
<1>11. Head(<<Save>>) = Save /\ <<Save>> # <<>> /\ \A s \in Late : s # <<>>
  BY PageFacts
<1>12. ASSUME ~died, todo'[r] # <<>> PROVE OwnerOf(r)'
  BY <1>4, <1>5, <1>10, <1>11, <1>12 DEF OwnerOf
<1>13. ASSUME ~died, todo'[r] = <<>> PROVE row'["owner_id"] \in row'["owners_ids"]
  BY <1>5, <1>10, <1>11, <1>13
<1>14. QED
  BY <1>1, <1>4, <1>5, <1>6, <1>7, <1>8, <1>12, <1>13, OneMoves

LEMMA SaveTold ==
  ASSUME TypeOK, RestInv, TurnsInv, ~overlap, ~died, NEW r \in Requests,
         todo[r] # <<>>, Head(todo[r]).do = "save", trail' = trail
  PROVE  Told(r)
<1>1. TrailOf(r) /\ todo[r] \in Seq(Steps)
  BY DEF TurnsInv, TrailInv, TrailOf, RestInv, Plan
<1>2. \A k : About(todo[r], Entering, k) => About(Tail(todo[r]), Entering, k)
  BY <1>1, AboutTail DEF Entering
<1>3. QED
  BY <1>1, <1>2 DEF TrailOf, Told

LEMMA EntryTold ==
  ASSUME TypeOK, RestInv, TurnsInv, ~overlap, ~died, NEW r \in Requests, EnterLog(r)
  PROVE  Told(r)
<1> DEFINE step == Head(todo[r])
<1>1. /\ todo[r] # <<>> /\ Plan(todo[r]) /\ todo[r] \in Seq(Steps)
      /\ step.do \in Entering /\ step.do # "edit"
  BY EntryFacts DEF EnterLog, RestInv, Plan, Entering
<1>2. TrailOf(r) /\ GivenOf(r)
  BY <1>1 DEF TurnsInv, TrailInv, TrailOf, GivenInv, GivenOf
<1> SUFFICES ASSUME NEW k \in Audited
             PROVE  IF k \in DOMAIN given[r]
                    THEN \/ trail'[k] = given[r][k]
                         \/ trail'[k] = base[r][k] /\ About(Tail(todo[r]), Entering, k)
                    ELSE trail'[k] = base[r][k]
  BY DEF Told
<1>3. k \in Fields /\ k # "owners_ids"
  BY HeldFacts DEF Audited
<1>4. trail'[k] =
        IF /\ k \in step.keys
           /\ step.do = "tell" => k \in DOMAIN given[r]
           /\ step.do = "compare" => Session(r)[k] # base[r][k]
        THEN IF step.do = "tell" THEN given[r][k] ELSE Session(r)[k]
        ELSE trail[k]
  BY EntryFacts
<1>5. CASE k \notin DOMAIN given[r]
  BY <1>1, <1>2, <1>3, <1>4, <1>5 DEF TrailOf, GivenOf
<1>6. CASE k \in DOMAIN given[r] /\ k \notin step.keys
  BY <1>1, <1>2, <1>4, <1>6, AboutTail DEF TrailOf
<1>7. CASE k \in DOMAIN given[r] /\ k \in step.keys /\ step.do = "tell"
  BY <1>4, <1>7
<1>8. CASE k \in DOMAIN given[r] /\ k \in step.keys /\ step.do # "tell"
  <2>1. About(todo[r], {"reread", "compare"}, k)
    BY <1>1, <1>8, AboutTail DEF Entering
  <2>2. ~About(todo[r], {"edit"}, k)
    BY <1>1, <1>3, <2>1 DEF Plan
  <2>3. Session(r)[k] = given[r][k]
    BY <1>1, <1>2, <1>3, <1>8, <2>2 DEF GivenOf
  <2>4. trail[k] = given[r][k] \/ trail[k] = base[r][k]
    BY <1>2, <1>8 DEF TrailOf
  <2>5. trail'[k] = given[r][k]
    BY <1>4, <1>8, <2>3, <2>4
  <2>6. QED
    BY <1>8, <2>5
<1>9. QED
  BY <1>5, <1>6, <1>7, <1>8

\* An edit of the owners is that of the page of the coowners, and sets their list.
LEMMA EditOwners ==
  ASSUME TypeOK, RestInv, NEW r \in Requests, NEW d, NEW K, Edits(r, d, K)
  PROVE  /\ {"owner_id", "owners_ids"} \cap K # {} =>
              todo[r] \in Early /\ K = {"owners_ids"} /\ Tail(todo[r]) \in Late
         /\ todo[r] \in Early => Head(todo[r]).keys = {"owners_ids"} /\ Tail(todo[r]) \in Late
<1>1. /\ todo[r] # <<>> /\ Head(todo[r]).do = "edit" /\ K = Head(todo[r]).keys
      /\ Plan(todo[r]) /\ todo[r] \in Seq(Steps)
  BY DEF Edits, RestInv, Plan
<1>2. \A f : f \in K => About(todo[r], {"edit"}, f)
  BY <1>1, AboutTail
<1>3. {"owner_id", "owners_ids"} \cap K # {} => todo[r] \in Early
  BY <1>1, <1>2 DEF Plan
<1>4. todo[r] \in Early => Head(todo[r]).keys = {"owners_ids"} /\ Tail(todo[r]) \in Late
  BY <1>1, PageFacts
<1>5. QED
  BY <1>1, <1>3, <1>4

LEMMA EditTurns ==
  ASSUME TypeOK, RestInv, TurnsInv, ~overlap, NEW r \in Requests, NEW d, NEW K, Edits(r, d, K)
  PROVE  TurnsInv'
<1> DEFINE s == Session(r)
<1>1. /\ todo[r] # <<>> /\ Head(todo[r]).do = "edit" /\ K = Head(todo[r]).keys /\ Proceed(r)
      /\ UNCHANGED <<row, trail, overlooked, died>> /\ IsRow(d)
      /\ copy' = [copy EXCEPT ![r] = d]
      /\ dirty' = [dirty EXCEPT ![r] = @ \cup Touched(s, d, K)]
      /\ \A f \in Fields : d[f] # s[f] => f \in DOMAIN given[r] \cap K
      /\ todo[r] \in Seq(Steps)
  BY DEF Edits, RestInv, Plan
<1>2. /\ todo'[r] = Tail(todo[r]) /\ todo'[r] # <<>>
      /\ given'[r] = given[r] /\ base'[r] = base[r]
  BY EditGoesOn
<1>3. \A q \in Requests \ {r} : todo'[q] = <<>>
  BY <1>1, Alone, ProceedFacts DEF TurnsInv
<1>4. d # Nothing
  BY <1>1, RowFacts
<1> HIDE DEF s
<1>5. /\ Session(r)' = d /\ dirty'[r] = dirty[r] \cup Touched(s, d, K)
      /\ \A q \in Requests \ {r} : Session(q)' = Session(q) /\ dirty'[q] = dirty[q]
  BY <1>1, <1>4 DEF Session, TypeOK
<1>6. ASSUME NEW q \in Requests PROVE TurnOf(q)'
  <2>1. CASE q = r
    <3>1. ASSUME NEW f \in Fields, d[f] # row[f] PROVE ColumnOf(f) \in dirty'[r]
      <4>1. CASE s[f] # row[f]
        BY <1>5, <4>1 DEF TurnsInv, TurnInv, s
      <4>2. CASE d[f] # s[f]
        BY <1>1, <1>5, <4>2, TouchedColumn
      <4>3. QED
        BY <3>1, <4>1, <4>2
    <3>2. QED
      BY <1>1, <1>5, <2>1, <3>1 DEF TurnOf, TurnsInv, TurnInv
  <2>2. CASE q # r
    BY <1>1, <1>5, <2>2 DEF TurnOf, TurnsInv, TurnInv
  <2>3. QED
    BY <2>1, <2>2
<1>7. GivenOf(r) /\ DOMAIN given[r] \subseteq Fields
  BY DEF TurnsInv, GivenInv, GivenOf, TypeOK
<1>8. \A f : About(todo[r], {"edit"}, f) => f \in K \/ About(Tail(todo[r]), {"edit"}, f)
  BY <1>1, AboutTail
<1>9. /\ "owners_ids" \in K => todo[r] \in Early /\ K = {"owners_ids"}
      /\ "owner_id" \notin K
      /\ todo[r] \in Early => Tail(todo[r]) \in Late
  BY EditOwners
<1>10. ASSUME NEW f \in DOMAIN given[r]
       PROVE  \/ d[f] = given[r][f]
              \/ f = "owners_ids" /\ d[f] = given[r][f] \cup {d["owner_id"]}
              \/ d[f] = base[r][f] /\ About(Tail(todo[r]), {"edit"}, f)
  <2>1. CASE f \in K /\ "owners_ids" \in K
    <3>1. f = "owners_ids" /\ s["owners_ids"] = base[r]["owners_ids"]
      BY <1>1, <1>7, <1>9, <2>1 DEF GivenOf, s
    <3>2. d["owners_ids"] = Merged(r, s)
      BY <2>1, <3>1 DEF Edits, s
    <3>3. Merged(r, s) = given[r]["owners_ids"]
      BY <3>1 DEF Merged, Struck
    <3>4. QED
      BY <3>1, <3>2, <3>3
  <2>2. CASE f \in K /\ "owners_ids" \notin K
    BY <1>7, <2>2 DEF Edits
  <2>3. CASE f \notin K
    <3>1. d[f] = s[f] /\ d["owner_id"] = s["owner_id"]
      BY <1>1, <1>7, <1>9, <2>3 DEF Fields, Columns
    <3>2. QED
      BY <1>1, <1>7, <1>8, <2>3, <3>1 DEF GivenOf, s
  <2>4. QED
    BY <2>1, <2>2, <2>3
<1>11. \A f \in Fields \ (DOMAIN given[r] \cup {"owners_ids"}) : d[f] = base[r][f]
  BY <1>1, <1>7 DEF GivenOf, s
<1>12. Tail(todo[r]) \notin Early
  <2>1. Plan(todo[r])
    BY DEF RestInv
  <2>2. QED
    BY <1>1, <1>9, <2>1, EarlyTail, PageFacts
<1>13. GivenOf(r)'
  <2>1. ASSUME "owners_ids" \notin DOMAIN given[r] PROVE OwnersKept(r, d)
    <3>1. d["owners_ids"] = s["owners_ids"] /\ d["owner_id"] = s["owner_id"]
      BY <1>1, <1>9, <2>1 DEF Fields, Columns
    <3>2. OwnersKept(r, s)
      BY <1>1, <1>7, <2>1 DEF GivenOf, s
    <3>3. QED
      BY <3>1, <3>2 DEF OwnersKept
  <2>2. OwnersKept(r, Session(r))' <=> OwnersKept(r, d)
    BY <1>2, <1>5 DEF OwnersKept
  <2>3. QED
    BY <1>2, <1>5, <1>10, <1>11, <1>12, <2>1, <2>2 DEF GivenOf
<1>14. ASSUME ~died PROVE TrailOf(r)' /\ OwnerOf(r)'
  <2>1. TrailOf(r) /\ OwnerOf(r)
    BY <1>1, <1>14 DEF TurnsInv, TrailInv, TrailOf, OwnerInv, OwnerOf
  <2>2. \A k : About(todo[r], Entering, k) => About(Tail(todo[r]), Entering, k)
    BY <1>1, AboutTail DEF Entering
  <2>3. TrailOf(r)'
    BY <1>1, <1>2, <2>1, <2>2 DEF TrailOf
  <2>4. ASSUME "owners_ids" \in K PROVE OwnerOf(r)'
    BY <1>2, <1>9, <2>4 DEF OwnerOf
  <2>5. ASSUME todo[r] \in Late PROVE OwnerOf(r)'
    <3>1. Tail(todo[r]) \in Late \/ Tail(todo[r]) = <<Save>>
      BY <2>5, PageFacts
    <3>2. Head(<<Save>>) = Save
      OBVIOUS
    <3>3. QED
      BY <1>2, <3>1, <3>2 DEF OwnerOf
  <2>6. ASSUME "owners_ids" \notin K, s["owner_id"] \in s["owners_ids"] PROVE OwnerOf(r)'
    <3>1. d["owner_id"] = s["owner_id"] /\ d["owners_ids"] = s["owners_ids"]
      BY <1>1, <1>9, <2>6 DEF Fields, Columns
    <3>2. QED
      BY <1>5, <2>6, <3>1 DEF OwnerOf
  <2>7. Head(todo[r]) # Save
    BY <1>1, StepFacts
  <2>8. OwnerOf(r)'
    BY <2>1, <2>4, <2>5, <2>6, <2>7 DEF OwnerOf, s
  <2>9. QED
    BY <2>3, <2>8
<1>15. QED
  BY <1>1, <1>2, <1>3, <1>6, <1>13, <1>14, OneMoves

LEMMA AbandonTurns ==
  ASSUME TypeOK, RestInv, TurnsInv, ~overlap, NEW r \in Requests, Crash(r)
  PROVE  TurnsInv'
<1>1. /\ todo[r] # <<>> /\ row' = row /\ died'
      /\ todo'[r] = <<>> /\ copy'[r] = Nothing /\ overlooked'[r] = {}
      /\ \A q \in Requests \ {r} : todo'[q] = todo[q] /\ copy'[q] = copy[q]
                                   /\ overlooked'[q] = overlooked[q]
  BY AbandonFacts DEF Crash
<1>2. \A q \in Requests \ {r} : todo[q] = <<>> /\ copy[q] = Nothing
  BY <1>1, Alone DEF TurnsInv
<1>3. \A q \in Requests : TurnOf(q)'
  BY <1>1, <1>2 DEF TurnOf, Session, TurnsInv, TurnInv
<1>4. GivenOf(r)'
  BY <1>1 DEF GivenOf
<1>5. QED
  BY <1>1, <1>2, <1>3, <1>4, OneMoves

\* In turns nobody has struck off an owner meanwhile.
LEMMA NoFailure ==
  ASSUME TypeOK, RestInv, TurnsInv, ~overlap, NEW r \in Requests
  PROVE  ~EditFails(r)
<1> SUFFICES ASSUME EditFails(r) PROVE FALSE
  OBVIOUS
<1>1. /\ todo[r] # <<>> /\ Head(todo[r]) = Edit({"owners_ids"})
      /\ ~(Struck(r) \subseteq Session(r)["owners_ids"])
      /\ Plan(todo[r]) /\ todo[r] \in Seq(Steps)
  BY DEF EditFails, RestInv, Plan
<1>2. {"owners_ids"} \subseteq Fields
  BY DEF Fields, Columns
<1>3. Head(todo[r]).do = "edit" /\ Head(todo[r]).keys = {"owners_ids"}
  BY <1>1, <1>2, StepFacts
<1>4. todo[r] \in Early
  BY <1>1, <1>3, AboutTail DEF Plan
<1>5. Session(r)["owners_ids"] = base[r]["owners_ids"]
  BY <1>1, <1>4 DEF TurnsInv, GivenInv
<1>6. QED
  BY <1>1, <1>5 DEF Struck

LEMMA TurnsStep == TypeOK /\ RestInv /\ TurnsInv /\ [Next]_vars => TurnsInv'
<1> SUFFICES ASSUME TypeOK, RestInv, TurnsInv, [Next]_vars PROVE TurnsInv'
  OBVIOUS
<1>1. CASE vars' = vars
  BY <1>1 DEF vars, request, TurnsInv, TurnInv, GivenInv, TrailInv, OwnerInv, AtRest, Session,
              OwnersKept
<1>2. CASE vars' # vars
  <2>1. PICK r \in Requests : Planned(r) \/ Step(r)
    BY <1>2, Moves
  <2>2. CASE Planned(r)
    BY <2>2, ServeTurns DEF Planned
  <2>3. CASE Step(r) /\ overlap
    <3>1. overlap'
      BY <2>3 DEF Step, SaveProject, EnterLog, EditProject, EditFails, Crash
    <3>2. QED
      BY <3>1 DEF TurnsInv, TurnInv, GivenInv, TrailInv, OwnerInv
  <2>4. CASE SaveProject(r) /\ ~overlap
    <3>1. PICK d, C : Stores(r, d, C) /\ trail' = trail /\ Head(todo[r]).do = "save"
      BY <2>4, SaveStores
    <3>2. ~died => Told(r)
      BY <2>4, <3>1, SaveTold DEF Stores
    <3>3. QED
      BY <2>4, <3>1, <3>2, StoreTurns
  <2>5. CASE EnterLog(r) /\ ~overlap
    BY <2>5, EntryStores, EntryTold, StoreTurns
  <2>6. CASE EditProject(r) /\ ~overlap
    BY <2>6, EditFacts, EditTurns
  <2>7. CASE EditFails(r) /\ ~overlap
    BY <2>7, NoFailure
  <2>8. CASE Crash(r) /\ ~overlap
    BY <2>8, AbandonTurns
  <2>9. QED
    BY <2>1, <2>2, <2>3, <2>4, <2>5, <2>6, <2>7, <2>8 DEF Step
<1>3. QED
  BY <1>1, <1>2

\* Theorem, in turns: the owner is among the owners whenever no request is under way.
THEOREM OwnerTheorem == Spec => []OwnerAmongOwners
<1>1. Spec => [](TypeOK /\ RestInv /\ CopyInv /\ TurnsInv)
  BY TypeInit, TypeStep, RestCopyInit, RestCopyStep, TurnsInit, TurnsStep, PTL DEF Spec
<1>2. TurnsInv => OwnerAmongOwners
  BY DEF TurnsInv, OwnerInv, OwnerAmongOwners
<1>3. QED
  BY <1>1, <1>2, PTL

\* Theorem, in turns: the log tells the value of every audited setting, whichever
\* handlers have changed them, for every number of requests and every value.
THEOREM TrailTheorem == Spec => []TrailTells
<1>1. Spec => [](TypeOK /\ RestInv /\ CopyInv /\ TurnsInv)
  BY TypeInit, TypeStep, RestCopyInit, RestCopyStep, TurnsInit, TurnsStep, PTL DEF Spec
<1>2. TurnsInv => TrailTells
  BY DEF TurnsInv, TrailInv, TrailTells
<1>3. QED
  BY <1>1, <1>2, PTL

-----------------------------------------------------------------------------
(* In turns the handlers store forms.                                      *)

TurnsHold == TypeOK /\ RestInv /\ TurnsInv

LEMMA TurnsInvariant == Spec => []TurnsHold
<1>1. Spec => [](TypeOK /\ RestInv /\ CopyInv /\ TurnsInv)
  BY TypeInit, TypeStep, RestCopyInit, RestCopyStep, TurnsInit, TurnsStep, PTL DEF Spec
<1>2. QED
  BY <1>1, PTL DEF TurnsHold

\* The request under way is the only one.
LEMMA ActiveIs ==
  ASSUME TurnInv, ~overlap, NEW r \in Requests, todo[r] # <<>>
  PROVE  Active = r
<1>1. \A q \in Requests : todo[q] # <<>> => q = r
  BY DEF TurnInv
<1>2. QED
  BY <1>1 DEF Active

LEMMA UnderWay ==
  ASSUME TurnInv, ~overlap, NEW r \in Requests, todo[r] # <<>>
  PROVE  /\ ~AtRest /\ Settled = base[r] /\ FormNow = given[r]
         /\ Logged = [k \in Audited |-> base[r][k]]
BY ActiveIs DEF AtRest, Settled, FormNow, Logged

\* A request that comes hands in its form.
LEMMA ServeForm ==
  ASSUME TurnsHold, ~overlap, ~died, TurnsHold', NEW r \in Requests, Planned(r)
  PROVE  Forms!HandIn
<1>1. PICK g, now, plan : Serve(r, g, now, plan) /\ Sound(g, now, plan)
  BY DEF Planned
<1>2. /\ AtRest /\ row' = row /\ ~overlap'
      /\ todo'[r] = plan /\ base'[r] = row /\ given'[r] = g
      /\ plan # <<>> /\ DOMAIN g \subseteq Fields
  BY <1>1 DEF Serve, Sound, TurnsHold, TypeOK
<1>3. ~AtRest' /\ Settled' = row /\ FormNow' = g /\ Logged' = [k \in Audited |-> row[k]]
  <2>1. \A q \in Requests : todo'[q] # <<>> => q = r
    BY <1>2 DEF TurnsHold, TurnsInv, TurnInv
  <2>2. Active' = r
    BY <1>2, <2>1 DEF Active
  <2>3. ~AtRest'
    BY <1>2 DEF AtRest
  <2>4. QED
    BY <1>2, <2>2, <2>3 DEF Settled, FormNow, Logged
<1>4. Settled = row /\ Logged = trail
  BY <1>2 DEF Settled, Logged
<1>5. trail = [k \in Audited |-> row[k]]
  BY <1>2 DEF TurnsHold, TurnsInv, TrailInv, TypeOK
<1>6. QED
  BY <1>2, <1>3, <1>4, <1>5 DEF Forms!HandIn

\* Of its steps, all but the last are nobody's business.
LEMMA StepStutters ==
  ASSUME TurnsHold, ~overlap, ~overlap', TurnsHold', NEW r \in Requests,
         todo[r] # <<>>, todo'[r] # <<>>, base'[r] = base[r], given'[r] = given[r]
  PROVE  UNCHANGED <<Settled, Logged, ~AtRest, FormNow>>
<1>1. /\ ~AtRest /\ Settled = base[r] /\ FormNow = given[r]
      /\ Logged = [k \in Audited |-> base[r][k]]
  BY UnderWay DEF TurnsHold, TurnsInv
<1>2. \A q \in Requests : todo'[q] # <<>> => q = r
  BY DEF TurnsHold, TurnsInv, TurnInv
<1>3. Active' = r
  BY <1>2 DEF Active
<1>4. /\ ~AtRest' /\ Settled' = base[r] /\ FormNow' = given[r]
      /\ Logged' = [k \in Audited |-> base[r][k]]
  BY <1>3 DEF AtRest, Settled, FormNow, Logged
<1>5. QED
  BY <1>1, <1>4

\* The last one stores the form.
LEMMA LastStores ==
  ASSUME TurnsHold, ~overlap, ~died, TurnsHold', NEW r \in Requests, NEW d, NEW C,
         Stores(r, d, C), todo'[r] = <<>>
  PROVE  Forms!Store
<1>1. /\ todo[r] # <<>> /\ ~overlap' /\ ~died' /\ Tail(todo[r]) = <<>>
      /\ \A q \in Requests \ {r} : todo'[q] = todo[q]
  BY ProceedFacts DEF Stores, TurnsHold
<1>2. AtRest'
  BY <1>1, Alone DEF AtRest, TurnsHold, TurnsInv
<1>3. Settled' = row' /\ Logged' = trail'
  BY <1>2 DEF Settled, Logged
<1>4. ~AtRest /\ Settled = base[r] /\ FormNow = given[r]
  BY <1>1, UnderWay DEF TurnsHold, TurnsInv
<1>5. /\ \A k \in Audited : trail'[k] = row'[k]
      /\ row'["owner_id"] \in row'["owners_ids"] /\ IsRow(row')
  BY <1>1, <1>2 DEF TurnsHold, TurnsInv, TrailInv, OwnerInv, TypeOK
<1>6. \A f : ~About(Tail(todo[r]), {"edit"}, f)
  BY <1>1, AboutNone
<1>7. \A f \in Fields \ {"owners_ids"} :
        row'[f] = IF f \in DOMAIN given[r] THEN given[r][f] ELSE base[r][f]
  BY <1>6, StoresGiven DEF TurnsHold
<1>8. row'["owners_ids"] = (IF "owners_ids" \in DOMAIN given[r]
                            THEN given[r]["owners_ids"] ELSE base[r]["owners_ids"])
                             \cup {row'["owner_id"]}
  <2>1. CASE "owners_ids" \in DOMAIN given[r]
    <3>1. \/ row'["owners_ids"] = given[r]["owners_ids"]
          \/ row'["owners_ids"] = given[r]["owners_ids"] \cup {row'["owner_id"]}
      BY <1>6, <2>1, StoresGiven DEF TurnsHold
    <3>2. QED
      BY <1>5, <2>1, <3>1
  <2>2. CASE "owners_ids" \notin DOMAIN given[r]
    <3>1. OwnersKept(r, row')
      BY <2>2, StoresGiven DEF TurnsHold
    <3>2. QED
      BY <1>5, <2>2, <3>1 DEF OwnersKept
  <2>3. QED
    BY <2>1, <2>2
<1>9. Forms!InOrder(row', trail')
  BY <1>5 DEF Forms!InOrder, IsRow
<1>10. QED
  BY <1>2, <1>3, <1>4, <1>7, <1>8, <1>9 DEF Forms!Store, Forms!Filled

LEMMA FormsStep ==
  ASSUME TurnsHold, TurnsHold', [Next]_vars, ~overlap, ~died'
  PROVE  [Forms!Next]_(Forms!vars)
<1>1. CASE vars' = vars
  BY <1>1 DEF vars, request, AtRest, Active, Settled, Logged, FormNow, Forms!vars
<1>2. CASE vars' # vars
  <2>1. PICK r \in Requests : Planned(r) \/ Step(r)
    BY <1>2, Moves DEF TurnsHold
  <2>2. CASE Planned(r)
    <3>1. ~died
      BY <2>2 DEF Planned, Serve
    <3>2. QED
      BY <2>2, <3>1, ServeForm DEF Forms!Next
  <2>3. CASE Step(r) /\ ~Planned(r)
    <3>1. ~Crash(r) /\ ~EditFails(r)
      BY NoFailure DEF Crash, TurnsHold
    <3>2. CASE EditProject(r)
      <4>1. PICK d, K : Edits(r, d, K)
        BY <3>2, EditFacts DEF TurnsHold
      <4>2. /\ todo[r] # <<>> /\ todo'[r] # <<>> /\ ~overlap'
            /\ base'[r] = base[r] /\ given'[r] = given[r]
        BY <4>1, EditGoesOn DEF TurnsHold, Edits
      <4>3. QED
        BY <4>2, StepStutters DEF Forms!vars
    <3>3. CASE SaveProject(r) \/ EnterLog(r)
      <4>1. PICK d, C : Stores(r, d, C)
        BY <3>3, SaveStores, EntryStores DEF TurnsHold
      <4>2. todo[r] # <<>> /\ Proceed(r) /\ ~overlap' /\ ~died
        BY <4>1 DEF Stores
      <4>3. CASE todo'[r] = <<>>
        BY <4>1, <4>2, <4>3, LastStores DEF Forms!Next
      <4>4. CASE todo'[r] # <<>>
        <5>1. base'[r] = base[r] /\ given'[r] = given[r]
          BY <4>2, <4>4, ProceedFacts DEF TurnsHold
        <5>2. QED
          BY <4>2, <4>4, <5>1, StepStutters DEF Forms!vars
      <4>5. QED
        BY <4>3, <4>4
    <3>4. QED
      BY <2>3, <3>1, <3>2, <3>3 DEF Step
  <2>4. QED
    BY <2>1, <2>2, <2>3
<1>3. QED
  BY <1>1, <1>2

LEMMA FormsInit == Init => Forms!Init
<1> SUFFICES ASSUME Init PROVE Forms!Init
  OBVIOUS
<1>1. AtRest /\ Settled = row /\ Logged = trail
  BY DEF Init, AtRest, Settled, Logged
<1>2. IsRow(row)
  BY TypeInit DEF TypeOK
<1>3. /\ \A k \in Audited : trail[k] = row[k]
      /\ row["owner_id"] \in row["owners_ids"]
  <2>1. PICK u \in Users : row = New(u)
    BY DEF Init
  <2>2. row["owner_id"] = u /\ row["owners_ids"] = {u} /\ \A k \in Audited : row[k] = Default
    BY <2>1 DEF New, Fields, Columns, Flags, Audited, InfoKeys
  <2>3. QED
    BY <2>2 DEF Init
<1>4. QED
  BY <1>1, <1>2, <1>3 DEF Forms!Init, Forms!InOrder, IsRow

\* Theorem, in turns and without deaths: whatever commits, entries and edits a handler
\* makes, they amount to one form that is stored at once, and nothing else.
THEOREM FormsTheorem == Spec => ImplementsForms
<1>1. Init => (~overlap => Forms!Init)
  BY FormsInit
<1>2. TurnsHold /\ TurnsHold' /\ [Next]_vars
        => [~overlap /\ ~died' => [Forms!Next]_(Forms!vars)]_vars
  BY FormsStep
<1>3. QED
  BY <1>1, <1>2, TurnsInvariant, PTL DEF Spec, ImplementsForms

\* Corollary: a behaviour in which requests take turns and none dies is one of
\* FormDocument.
THEOREM TurnsRefine == Spec /\ [](~overlap /\ ~died) => Forms!Spec
<1>1. Spec => ImplementsForms
  BY FormsTheorem
<1>2. Init => (~overlap => Forms!Init)
  BY FormsInit
<1>3. /\ ~overlap /\ ~died /\ ~died'
      /\ [~overlap /\ ~died' => [Forms!Next]_(Forms!vars)]_vars
      => [Forms!Next]_(Forms!vars)
  <2>1. vars' = vars => UNCHANGED Forms!vars
    BY DEF vars, request, AtRest, Active, Settled, Logged, FormNow, Forms!vars
  <2>2. QED
    BY <2>1
<1>4. QED
  BY <1>1, <1>2, <1>3, PTL DEF Spec, ImplementsForms, Forms!Spec
=============================================================================
