-------------------------------- MODULE Checklist --------------------------------
(***************************************************************************)
(* todo_manage_checklist (tools/write.rs): the checklist of one task is    *)
(* read once, and the operations of the call go through it in a fixed      *)
(* order, each sent by itself and then repeated on the copy, which later   *)
(* operations look names up in and which is returned as checklist_after.   *)
(*                                                                         *)
(* An item is [id, name, checked]; names that differ in the case of ASCII   *)
(* letters or in blanks around them are one name. A call is the five       *)
(* arrays; an operation [op, key, to], the key being an id or a name.      *)
(***************************************************************************)
EXTENDS Integers, Sequences, FiniteSets

CONSTANTS
  Requests,       \* the calls a client may make, [remove, rename, uncheck, check, add, confirm]
  Checklists,     \* what the checklist may be
  Names,          \* names that an item may be given
  Keys,           \* what an operation may name an item by
  NewIds,         \* ids of items that are added, by the number of the operation
  MaxDisturbed    \* bound on the changes of other clients

VARIABLES
  phase,          \* of the call: "idle", "running", "refused", "returned"
  server,         \* the checklist at Graph, a set of items
  todo,           \* the operations still to do
  items,          \* the copy of it, a set
  expired,        \* writes.expired()
  touched,
  outcomes,       \* what each operation so far is reported as
  cached,         \* whether the task's list is still in the cache
  written,        \* history: whether any operation was carried out
  disturbed       \* history: changes of other clients since the read

progressVars  == <<todo, outcomes>>
checklistVars == <<phase, server, progressVars, items, expired, touched, cached, written, disturbed>>

Op(op, key, to) == [op |-> op, key |-> key, to |-> to]

\* In the order of the code, whatever the order of the arguments.
Operations(m) ==
  LET Each(op, keys) == [i \in DOMAIN keys |-> Op(op, keys[i], "none")]
  IN  Each("remove", m.remove)
      \o [i \in DOMAIN m.rename |-> Op("rename", m.rename[i].from, m.rename[i].to)]
      \o Each("uncheck", m.uncheck) \o Each("check", m.check) \o Each("add", m.add)

IsItem(i) == i = [id |-> i.id, name |-> i.name, checked |-> i.checked]

\* The arguments as the schema has them. Graph gives each item an id of its own.
ASSUME RequestsAssumption ==
  \A m \in Requests :
    /\ m.remove \in Seq(Keys) /\ m.uncheck \in Seq(Keys) /\ m.check \in Seq(Keys) /\ m.add \in Seq(Keys)
    /\ m.rename \in Seq([from : Keys, to : Names])
ASSUME ChecklistsAssumption ==
  \A c \in Checklists : (\A i \in c : IsItem(i)) /\ \A i, j \in c : i.id = j.id => i = j
ASSUME NewIdsAssumption ==
  /\ \A m \in Requests : Len(Operations(m)) <= Len(NewIds)
  /\ Len(NewIds) \in Nat /\ \A n, k \in 1 .. Len(NewIds) : NewIds[n] = NewIds[k] => n = k
  /\ \A c \in Checklists : \A i \in c, n \in 1 .. Len(NewIds) : i.id # NewIds[n]

--------------------------------------------------------------------------------
\* Without a confirmation (G3) or anything to do, and when the task is not
\* found or its checklist not read to its end, the call is refused.
Manage(m) ==
  /\ phase = "idle"
  /\ \/ phase' = "refused" /\ UNCHANGED <<todo, items>>
     \/ /\ m.remove = <<>> \/ m.confirm
        /\ Operations(m) # <<>>
        /\ phase' = "running" /\ todo' = Operations(m) /\ items' = server
  /\ UNCHANGED <<server, outcomes, expired, touched, cached, written, disturbed>>

\* Another client adds, renames, checks or removes something.
Disturb ==
  /\ phase = "running" /\ disturbed < MaxDisturbed /\ disturbed' = disturbed + 1
  /\ \E i \in server :
       \/ server' = server \ {i}
       \/ server' = (server \ {i}) \cup {[i EXCEPT !.checked = ~i.checked]}
       \/ \E n \in Names : server' = (server \ {i}) \cup {[i EXCEPT !.name = n]}
  /\ UNCHANGED <<phase, progressVars, items, expired, touched, cached, written>>

ChecklistDeadline ==
  /\ phase = "running" /\ ~expired /\ expired' = TRUE
  /\ UNCHANGED <<phase, server, progressVars, items, touched, cached, written, disturbed>>

--------------------------------------------------------------------------------
(***************************************************************************)
(* find: an id, or else a name that one item has.                          *)
(***************************************************************************)
Found(key) ==
  LET byId == {i \in items : i.id = key}
  IN  IF byId # {} THEN byId ELSE {i \in items : i.name = key}

Current == Head(todo)

\* The item an operation is about: a new one, or the one found.
NewItem == [id |-> NewIds[Len(outcomes) + 1], name |-> Current.key, checked |-> FALSE]

Subjects ==
  IF todo = <<>> THEN {}
  ELSE IF Current.op = "add" THEN IF Current.key = "blank" THEN {} ELSE {NewItem}
  ELSE IF Cardinality(Found(Current.key)) = 1 THEN Found(Current.key) ELSE {}

ReportAs(outcome) == outcomes' = Append(outcomes, outcome) /\ todo' = Tail(todo)

Quietly == UNCHANGED <<phase, server, items, expired, touched, cached, written, disturbed>>

\* Not found, ambiguous, or a name that is blank.
RefuseOperation == todo # <<>> /\ Subjects = {} /\ ReportAs("refused") /\ Quietly

\* Reported as done even after the deadline.
AlreadyChecked(i) == Current.op \in {"check", "uncheck"} /\ i.checked = (Current.op = "check")

NothingToSend == (\E i \in Subjects : AlreadyChecked(i)) /\ ReportAs("done") /\ Quietly

TooLateToSend ==
  /\ expired /\ \E i \in Subjects : ~AlreadyChecked(i)
  /\ ReportAs("deadline") /\ Quietly

\* What the operation makes of an item; a patch keeps what it does not name.
Changed(i) ==
  CASE Current.op = "rename"  -> {[i EXCEPT !.name = Current.to]}
    [] Current.op = "check"   -> {[i EXCEPT !.checked = TRUE]}
    [] Current.op = "uncheck" -> {[i EXCEPT !.checked = FALSE]}
    [] Current.op = "add"     -> {i}
    [] Current.op = "remove"  -> {}

\* The item as the server has it: what a patch is applied to.
AtServer(i) == IF Current.op = "add" THEN {i} ELSE {s \in server : s.id = i.id}

Apply(i) == server' = (server \ AtServer(i)) \cup UNION {Changed(s) : s \in AtServer(i)}

\* Wrong: the copy keeps the item that was removed.
KeepRemoved(i) ==
  items' = IF Current.op = "remove" THEN items
           ELSE (items \ {i}) \cup UNION {Changed(s) : s \in AtServer(i)}

\* The copy takes over what the server answers.
TakeOver(i) == items' = (items \ {i}) \cup UNION {Changed(s) : s \in AtServer(i)}

\* Carried out and answered; a removal of what is gone already counts as done.
SendAnswered ==
  /\ ~expired
  /\ \E i \in Subjects :
       /\ ~AlreadyChecked(i)
       /\ AtServer(i) # {} \/ Current.op = "remove"
       /\ Apply(i) /\ TakeOver(i)
  /\ touched' = TRUE /\ written' = TRUE
  /\ ReportAs("done")
  /\ UNCHANGED <<phase, expired, cached, disturbed>>

\* Refused by the server, or not answered, and then it may have been done.
SendFailed ==
  /\ ~expired
  /\ \E i \in Subjects :
       /\ ~AlreadyChecked(i)
       /\ \/ UNCHANGED <<server, written>>
          \/ Apply(i) /\ written' = TRUE
  /\ touched' = TRUE
  /\ ReportAs("failed")
  /\ UNCHANGED <<phase, items, expired, cached, disturbed>>

\* The report; a list that was touched leaves the cache.
ReturnChecklist ==
  /\ phase = "running" /\ todo = <<>> /\ phase' = "returned"
  /\ cached' = (cached /\ ~touched)
  /\ UNCHANGED <<server, progressVars, items, expired, touched, written, disturbed>>

\* By the next call the checklist is what others have made of it.
Forget ==
  /\ phase \in {"refused", "returned"} /\ phase' = "idle"
  /\ server' \in Checklists
  /\ todo' = <<>> /\ items' = {} /\ expired' = FALSE /\ touched' = FALSE /\ outcomes' = <<>>
  /\ cached' = TRUE /\ written' = FALSE /\ disturbed' = 0

--------------------------------------------------------------------------------
ChecklistInit ==
  /\ phase = "idle" /\ server \in Checklists /\ todo = <<>> /\ items = {}
  /\ expired = FALSE /\ touched = FALSE /\ outcomes = <<>> /\ cached = TRUE
  /\ written = FALSE /\ disturbed = 0

ChecklistNext ==
  \/ \E m \in Requests : Manage(m)
  \/ Disturb \/ ChecklistDeadline
  \/ RefuseOperation \/ NothingToSend \/ TooLateToSend \/ SendAnswered \/ SendFailed
  \/ ReturnChecklist \/ Forget

ChecklistSpec == ChecklistInit /\ [][ChecklistNext]_checklistVars

--------------------------------------------------------------------------------
(***************************************************************************)
(* checklist_after is the checklist: when no operation failed and nobody   *)
(* else was at it, the copy that each operation was looked up in, and that *)
(* is returned, is what the server has, whatever the operations before did *)
(* to names and items. And whatever was carried out, known or not, the     *)
(* cached list is dropped (write.rs todo_manage_checklist).                *)
(***************************************************************************)
ChecklistAfterIsTheServers ==
  phase = "returned" =>
    /\ disturbed = 0 /\ "failed" \notin {outcomes[n] : n \in DOMAIN outcomes} => items = server
    /\ written => ~cached
================================================================================
