----------------------------- MODULE FormDocument -----------------------------
(***************************************************************************)
(* What the people who keep a project may expect of its settings: a form   *)
(* that is handed in sets the fields that it says, all of them at once and *)
(* no other; only the owner joins the owners without being asked for, and  *)
(* always does; and the log then tells every audited setting.              *)
(***************************************************************************)

CONSTANTS Fields, Audited

VARIABLES
  doc,   \* the project
  log,   \* the value that the log tells of each audited setting
  busy,  \* a form has been handed in
  form   \* what it says

vars == <<doc, log, busy, form>>

\* The log tells the settings, and the owner is among the owners.
InOrder(d, l) ==
  /\ DOMAIN d = Fields
  /\ \A k \in Audited : l[k] = d[k]
  /\ d["owner_id"] \in d["owners_ids"]

Init == ~busy /\ InOrder(doc, log)

HandIn ==
  /\ ~busy /\ busy'
  /\ DOMAIN form' \subseteq Fields
  /\ UNCHANGED <<doc, log>>

\* What the form leaves of a field.
Filled(f) == IF f \in DOMAIN form THEN form[f] ELSE doc[f]

Store ==
  /\ busy /\ ~busy'
  /\ \A f \in Fields \ {"owners_ids"} : doc'[f] = Filled(f)
  /\ doc'["owners_ids"] = Filled("owners_ids") \cup {doc'["owner_id"]}
  /\ InOrder(doc', log')

Next == HandIn \/ Store

Spec == Init /\ [][Next]_vars
==============================================================================
