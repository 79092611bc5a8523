------------------------------- MODULE WriteTools -------------------------------
(***************************************************************************)
(* The tools that write (tools/write.rs): todo_create_tasks, _update_,     *)
(* _complete_ and _delete_tasks, from the guards to the report. A call     *)
(* looks up the list of each of its tasks before the first write, then     *)
(* writes one by one until the deadline, and reports each item. Other      *)
(* clients, other calls of this server and the cache's TTL go on beside it.*)
(*                                                                         *)
(* A call is [tool, ids, list, confirm, wanted, items]: list is the list   *)
(* argument, or "none"; wanted the status a write is to leave; items[i]    *)
(* how many checklist items the i-th task to create has. A task is "open", *)
(* "completed" or "gone", which is also what it is before it is created.   *)
(* An id never changes its list. A request and its answer are one step:    *)
(* what comes between them is TaskCache's, and the retries GraphCalls'.    *)
(***************************************************************************)
EXTENDS Integers, Sequences, FiniteSets

CONSTANTS
  Task, List,
  Home,          \* the list of each task
  Flagged,       \* the lists with the well-known name flaggedEmails
  Calls,         \* the calls a client may make
  Cap,           \* how many items a call may have
  MaxChanges     \* bound on what others do

ASSUME CapAssumption == Cap \in Nat \ {0}
ASSUME HomeAssumption == Home \in [Task -> List]

\* The arguments as the schema has them; an empty array is refused by itself.
ASSUME CallsAssumption ==
  \A c \in Calls :
    /\ c.ids # <<>> /\ Len(c.ids) \in Nat /\ DOMAIN c.ids = 1 .. Len(c.ids)
    /\ c.wanted \in {"open", "completed", "gone"}
    /\ IF c.tool = "create" THEN c.items \in [DOMAIN c.ids -> Nat] ELSE c.ids \in Seq(Task)

VARIABLES
  status,        \* of each task, at the server
  entries,       \* the cache: [tasks, complete, fresh] of each list, or NoListEntry
  lists,         \* the catalogue the call works with
  call, at,
  snapshots,     \* what the sync of the call has, list by list
  stale,         \* the lists it has still to fetch
  targets,       \* the Resolved of each item
  index, item,   \* the item written next, and its checklist item
  late,          \* writes.expired()
  report,        \* [index, as], in the order they were pushed
  warned,        \* <<index, item>> of the warnings
  changes,       \* how often others have changed a task
  sent, applied, \* history: items asked for, and carried out
  held           \* history: what each task has been since its list was fetched, or the call began

syncVars  == <<lists, snapshots, stale, targets>>
loopVars  == <<index, item, report, warned, sent, applied>>
writeVars == <<status, entries, syncVars, call, at, loopVars, late, changes, held>>

NoListEntry == [tasks |-> <<>>, complete |-> FALSE, fresh |-> FALSE]
NoCall      == [ids |-> <<>>]
Nowhere     == "unplaced"

Living(l)  == {t \in Task : Home[t] = l /\ status[t] # "gone"}
View(S)    == [t \in S |-> status[t]]
Seen(l, t) == IF entries[l].fresh /\ t \in DOMAIN entries[l].tasks THEN entries[l].tasks[t] ELSE "unseen"

Target(l, seen) == [list |-> l, seen |-> seen, error |-> "none"]
Refused(error)  == [list |-> Nowhere, seen |-> "unseen", error |-> error]
Unplaced        == Refused(Nowhere)

BecomesOf(t, s) ==
  /\ status' = [status EXCEPT ![t] = s]
  /\ held' = [held EXCEPT ![t] = @ \cup {s}]

--------------------------------------------------------------------------------
(***************************************************************************)
(* The rest of the world.                                                  *)
(***************************************************************************)
\* Another client: the cache learns nothing of it.
OutsideChange(t) ==
  /\ changes < MaxChanges /\ changes' = changes + 1
  /\ \E s \in {"open", "completed", "gone"} \ {status[t]} : BecomesOf(t, s)
  /\ UNCHANGED <<entries, syncVars, call, at, loopVars, late>>

\* Another call of this server, which drops the list.
OtherWrite(t) ==
  /\ changes < MaxChanges /\ changes' = changes + 1
  /\ \E s \in {"open", "completed", "gone"} \ {status[t]} : BecomesOf(t, s)
  /\ entries' = [entries EXCEPT ![Home[t]] = NoListEntry]
  /\ UNCHANGED <<syncVars, call, at, loopVars, late>>

\* Another call fills the cache.
OtherFill(l) ==
  /\ call = NoCall
  /\ entries' = [entries EXCEPT ![l] = [tasks |-> View(Living(l)), complete |-> TRUE, fresh |-> TRUE]]
  /\ held' = [t \in Task |-> IF Home[t] = l THEN {status[t]} ELSE held[t]]
  /\ UNCHANGED <<status, syncVars, call, at, loopVars, late, changes>>

ExpireList(l) ==
  /\ entries[l].fresh
  /\ entries' = [entries EXCEPT ![l].fresh = FALSE]
  /\ UNCHANGED <<status, syncVars, call, at, loopVars, late, changes, held>>

DeadlineElapses ==
  /\ at = "write" /\ ~late /\ late' = TRUE
  /\ UNCHANGED <<status, entries, syncVars, call, at, loopVars, changes, held>>

--------------------------------------------------------------------------------
(***************************************************************************)
(* Before the first request: the guards G2 and G4. Then the catalogue,     *)
(* which may fail, and may be cut short without the call being told.       *)
(***************************************************************************)
Guarded(c) ==
  \/ c.tool = "delete" /\ ~c.confirm
  \/ Len(c.ids) > Cap

Begin(c) ==
  /\ call = NoCall /\ call' = c
  /\ \/ at' = "refused" /\ lists' = {}
     \/ ~Guarded(c) /\ at' = "resolve" /\ lists' \in {List} \cup {List \ {l} : l \in List}
  /\ held' = [t \in Task |-> IF entries[Home[t]].fresh THEN held[t] ELSE {status[t]}]
  /\ UNCHANGED <<status, entries, snapshots, stale, targets, loopVars, late, changes>>

--------------------------------------------------------------------------------
(***************************************************************************)
(* resolve_targets, under one read guard: the list argument, else any      *)
(* cached entry, however old. What it has seen is only of a fresh entry.   *)
(***************************************************************************)
\* Wrong: what was seen may be of any age.
FromAnyEntry(t) ==
  LET found == {l \in lists : t \in DOMAIN entries[l].tasks}
  IN  IF found = {} THEN Unplaced
      ELSE LET l == CHOOSE l \in found : TRUE IN Target(l, entries[l].tasks[t])

FromCache(t) ==
  LET found == {l \in lists : t \in DOMAIN entries[l].tasks}
  IN  IF found = {} THEN Unplaced
      ELSE LET l == CHOOSE l \in found : TRUE IN Target(l, Seen(l, t))

FromArgument(t, l) == IF l \in lists THEN Target(l, Seen(l, t)) ELSE Refused("no_list")

ResolveFromCache ==
  /\ at = "resolve" /\ call.tool # "create"
  /\ targets' = [i \in DOMAIN call.ids |->
       IF call.list # "none" THEN FromArgument(call.ids[i], call.list) ELSE FromCache(call.ids[i])]
  /\ at' = IF \E i \in DOMAIN targets' : targets'[i] = Unplaced THEN "sync" ELSE "write"
  /\ UNCHANGED <<status, entries, lists, snapshots, stale, call, loopVars, late, changes, held>>

\* todo_create_tasks refuses the whole call for a list it cannot resolve, and
\* without a list argument takes the default list.
ResolveForCreate ==
  /\ at = "resolve" /\ call.tool = "create"
  /\ LET found == IF call.list = "none" THEN lists \ Flagged ELSE lists \cap {call.list}
     IN  \/ found = {} /\ at' = "refused" /\ UNCHANGED targets
         \/ /\ at' = "write"
            /\ \E l \in found : targets' = [i \in DOMAIN call.ids |-> Target(l, "unseen")]
  /\ UNCHANGED <<status, entries, lists, snapshots, stale, call, loopVars, late, changes, held>>

\* Wrong: a sync cut short counts as a whole one.
CoveredByAny(l) == TRUE

Covered(l) == snapshots[l].fresh /\ snapshots[l].complete

\* sync_lists, once for all that are unplaced: first what is fresh, then the
\* lists that are not fresh and complete, each whole or in part.
FreshEntries ==
  /\ at = "sync"
  /\ snapshots' = [l \in lists |-> entries[l]]
  /\ stale' = {l \in lists : ~(entries[l].fresh /\ entries[l].complete)}
  /\ at' = "fetch"
  /\ UNCHANGED <<status, entries, lists, targets, call, loopVars, late, changes, held>>

FetchList(l) ==
  /\ at = "fetch" /\ l \in stale /\ stale' = stale \ {l}
  /\ \E whole \in {Living(l)} \cup {Living(l) \ {t} : t \in Living(l)} :
       snapshots' = [snapshots EXCEPT ![l] =
         [tasks |-> View(whole), complete |-> whole = Living(l), fresh |-> TRUE]]
  /\ entries' = [entries EXCEPT ![l] = snapshots'[l]]
  /\ UNCHANGED <<status, lists, targets, call, at, loopVars, late, changes, held>>

FromSync(t) ==
  LET found == {l \in lists : snapshots[l].fresh /\ t \in DOMAIN snapshots[l].tasks}
  IN  IF found # {} THEN LET l == CHOOSE l \in found : TRUE IN Target(l, snapshots[l].tasks[t])
      ELSE IF \A l \in lists : Covered(l) THEN Refused("list_not_found")
      ELSE Refused("sync_incomplete")

SettleTargets(placed) ==
  /\ at = "fetch"
  /\ targets' = [i \in DOMAIN targets |->
                   IF targets[i] = Unplaced THEN placed[i] ELSE targets[i]]
  /\ at' = "write" /\ snapshots' = <<>> /\ stale' = {}
  /\ UNCHANGED <<status, entries, lists, call, loopVars, late, changes, held>>

\* The sync ends, at its end or before; or fails, with nothing fetched: then
\* each keeps its code.
SyncEnds  == SettleTargets([i \in DOMAIN targets |-> FromSync(call.ids[i])])
SyncFails ==
  /\ at = "fetch" /\ stale # {} /\ \A l \in lists : ~Covered(l)
  /\ SettleTargets([i \in DOMAIN targets |-> Refused("error")])

--------------------------------------------------------------------------------
(***************************************************************************)
(* The loop over the items, arm by arm, in the order of the code.          *)
(***************************************************************************)
Writing == at = "write" /\ index <= Len(call.ids) /\ item = 0

This == targets[index]

Push(as) == report' = Append(report, [index |-> index, as |-> as]) /\ index' = index + 1

\* An item that is reported without a request.
Skip(as) == Push(as) /\ UNCHANGED <<status, entries, syncVars, call, at, item, warned, late, changes,
                                    sent, applied, held>>

NotResolved == Writing /\ This.error # "none" /\ Skip(This.error)

\* Only todo_complete_tasks knows what it wants to find, and it says so even
\* after the deadline.
AlreadySo == call.tool = "complete" /\ This.seen = call.wanted

Unchanged == Writing /\ This.error = "none" /\ AlreadySo /\ Skip("unchanged")

ProtectedItem == call.tool = "delete" /\ This.list \in Flagged

RefuseFlagged == Writing /\ This.error = "none" /\ ProtectedItem /\ Skip("refused")

ToSend == Writing /\ This.error = "none" /\ ~AlreadySo /\ ~ProtectedItem

\* Wrong: the first item that is late ends the loop.
BreakWhenLate ==
  /\ ToSend /\ late
  /\ report' = Append(report, [index |-> index, as |-> "deadline"])
  /\ index' = Len(call.ids) + 1
  /\ UNCHANGED <<status, entries, syncVars, call, at, item, warned, late, changes, sent, applied, held>>

TooLate == ToSend /\ late /\ Skip("deadline")

\* invalidate_after: what succeeded, and what may have.
InvalidateAfter(l, outcome) ==
  entries' = IF outcome \in {"ok", "notThere", "unknown"} THEN [entries EXCEPT ![l] = NoListEntry] ELSE entries

\* A patch or a delete, and what comes of it. A task that is not there, or not
\* in that list, answers 404: already absent to a delete, a failure to others.
\* One that is may be written and answered; written, or not, and not answered;
\* or refused, even if the first attempt had been carried out.
SendTo(t, l, outcome, isApplied) ==
  LET there == status[t] # "gone" /\ Home[t] = l IN
  /\ isApplied => there
  /\ outcome = "ok" => isApplied
  /\ outcome = "notThere" => ~there \/ (isApplied /\ call.wanted = "gone")
  /\ IF isApplied THEN BecomesOf(t, call.wanted) ELSE UNCHANGED <<status, held>>
  /\ applied' = IF isApplied THEN applied \cup {index} ELSE applied
  /\ InvalidateAfter(l, IF outcome = "notThere" /\ call.tool # "delete" THEN "refused" ELSE outcome)
  /\ Push(CASE outcome = "ok" -> "done"
            [] outcome = "notThere" /\ call.tool = "delete" -> "absent"
            [] OTHER -> "failed")

Send ==
  /\ ToSend /\ ~late /\ call.tool # "create"
  /\ \E outcome \in {"ok", "notThere", "refused", "unknown"}, isApplied \in BOOLEAN :
       SendTo(call.ids[index], This.list, outcome, isApplied)
  /\ sent' = sent \cup {index}
  /\ UNCHANGED <<syncVars, call, at, item, warned, late, changes>>

--------------------------------------------------------------------------------
(***************************************************************************)
(* todo_create_tasks: the task, then its checklist item by item.           *)
(***************************************************************************)
CreateTask ==
  /\ ToSend /\ ~late /\ call.tool = "create"
  /\ sent' = sent \cup {<<index, 0>>}
  /\ \/ item' = 1 /\ applied' = applied \cup {<<index, 0>>} /\ UNCHANGED <<report, index, entries>>
     \/ /\ \E outcome \in {"refused", "unknown"} : InvalidateAfter(This.list, outcome)
        /\ applied' \in {applied, applied \cup {<<index, 0>>}}
        /\ Push("failed") /\ UNCHANGED item
  /\ UNCHANGED <<status, syncVars, call, at, warned, late, changes, held>>

CreateChecklistItem ==
  /\ item > 0 /\ item <= call.items[index]
  /\ item' = item + 1
  /\ IF late THEN warned' = warned \cup {<<index, item>>} /\ UNCHANGED <<sent, applied>>
     ELSE /\ sent' = sent \cup {<<index, item>>}
          /\ \/ applied' = applied \cup {<<index, item>>} /\ UNCHANGED warned
             \/ warned' = warned \cup {<<index, item>>} /\ applied' \in {applied, applied \cup {<<index, item>>}}
  /\ UNCHANGED <<status, entries, syncVars, call, at, index, report, late, changes, held>>

TaskCreated ==
  /\ item > 0 /\ item = call.items[index] + 1 /\ item' = 0
  /\ InvalidateAfter(This.list, "ok")
  /\ Push("done")
  /\ UNCHANGED <<status, syncVars, call, at, warned, late, changes, sent, applied, held>>

--------------------------------------------------------------------------------
\* The report is returned, or the refusal; the next call finds nothing of it.
Done == \/ at = "refused"
        \/ at = "write" /\ item = 0 /\ index > Len(call.ids)

ReturnReport ==
  /\ call # NoCall /\ Done
  /\ call' = NoCall /\ at' = "idle" /\ lists' = {} /\ targets' = <<>>
  /\ index' = 1 /\ item' = 0 /\ late' = FALSE /\ report' = <<>> /\ warned' = {}
  /\ sent' = {} /\ applied' = {}
  /\ UNCHANGED <<status, entries, snapshots, stale, changes, held>>

WriteInit ==
  /\ status \in [Task -> {"open", "completed", "gone"}]
  /\ entries = [l \in List |-> NoListEntry]
  /\ lists = {} /\ call = NoCall /\ at = "idle" /\ snapshots = <<>> /\ stale = {} /\ targets = <<>>
  /\ index = 1 /\ item = 0 /\ late = FALSE /\ report = <<>> /\ warned = {}
  /\ changes = 0 /\ sent = {} /\ applied = {}
  /\ held = [t \in Task |-> {status[t]}]

WriteNext ==
  \/ \E t \in Task : OutsideChange(t) \/ OtherWrite(t)
  \/ \E l \in List : OtherFill(l) \/ ExpireList(l) \/ FetchList(l)
  \/ DeadlineElapses
  \/ \E c \in Calls : Begin(c)
  \/ ResolveFromCache \/ ResolveForCreate \/ FreshEntries \/ SyncEnds \/ SyncFails
  \/ NotResolved \/ Unchanged \/ RefuseFlagged \/ TooLate \/ Send
  \/ CreateTask \/ CreateChecklistItem \/ TaskCreated
  \/ ReturnReport

WriteSpec == WriteInit /\ [][WriteNext]_writeVars

--------------------------------------------------------------------------------
Ended == call # NoCall /\ Done /\ at # "refused"

(***************************************************************************)
(* Outcomes are accounted for: at the end of a call, wherever the deadline *)
(* or an error came, each item is reported exactly once; it is reported as *)
(* untouched only if no request was made for it; what it is said to have   *)
(* done was done, and what may have been done is not said to be untouched; *)
(* every checklist item that a created task lacks is warned of (write.rs,  *)
(* the four loops, "the per-item message for an item the write phase never *)
(* reached").                                                              *)
(***************************************************************************)
Untouched == {"unchanged", "refused", "deadline", "list_not_found", "sync_incomplete", "no_list", "error"}

OutcomesAreAccounted ==
  Ended =>
    LET Asked(i) == IF call.tool = "create" THEN <<i, 0>> ELSE i IN
    /\ Len(report) = Len(call.ids)
    /\ \A i \in DOMAIN call.ids : report[i].index = i
    /\ \A i \in DOMAIN call.ids :
         /\ (report[i].as \in Untouched) = (Asked(i) \notin sent)
         /\ report[i].as = "done" => Asked(i) \in applied
         /\ report[i].as = "done" /\ call.tool = "create" =>
              \A k \in 1 .. call.items[i] : <<i, k>> \in applied \cup warned

(***************************************************************************)
(* What a call says of a task it did not touch was so: "already completed" *)
(* or "already open" at some moment since the fetch of a cache entry that  *)
(* was still fresh when the call looked, or since the call began. An older *)
(* entry only tells which list a task is in (write.rs Target.seen).        *)
(***************************************************************************)
UnchangedIsRecent ==
  Ended => \A i \in DOMAIN report : report[i].as = "unchanged" => call.wanted \in held[call.ids[i]]

(***************************************************************************)
(* "Not found" is not said of a task that has been there throughout: not   *)
(* while the sync was cut short, nor by what a part of a list lacks. This  *)
(* is claimed of calls whose catalogue is whole; NotFoundInEveryList is of *)
(* all of them (write.rs resolve_targets).                                 *)
(***************************************************************************)
NotFoundIsSo ==
  Ended /\ lists = List =>
    \A i \in DOMAIN report : report[i].as = "list_not_found" => "gone" \in held[call.ids[i]]

(***************************************************************************)
(* README: list_not_found means that "a *complete* sync of every list did  *)
(* not contain the id. It is never used for a lookup that ran out of       *)
(* budget." But ServerState::catalogue does not say when the catalogue ran *)
(* out of budget, and keeps what it has for the calls that follow.         *)
(***************************************************************************)
NotFoundInEveryList ==
  Ended => \A i \in DOMAIN report : report[i].as = "list_not_found" => "gone" \in held[call.ids[i]]
================================================================================
