------------------------------- MODULE ToolProofs -------------------------------
(***************************************************************************)
(* What the tools that write report of each item is what became of it, for *)
(* any calls, lists and tasks, and whatever others do meanwhile; and the   *)
(* checklist that the checklist tool reports is the one of the server.     *)
(***************************************************************************)
EXTENDS WriteTools, Checklist, TLAPS, SequenceTheorems, FiniteSetTheorems

Statuses == {"open", "completed", "gone"}
Places   == {"idle", "refused", "resolve", "sync", "fetch", "write"}
Errors   == {"none", "no_list", "list_not_found", "sync_incomplete", "error", Nowhere}
Results  == Untouched \cup {"done", "absent", "failed"}
Reports  == [index : Nat, as : Results]
Entries  == [tasks : UNION {[S -> Statuses] : S \in SUBSET Task}, complete : BOOLEAN, fresh : BOOLEAN]
Targets  == [list : List \cup {Nowhere}, seen : Statuses \cup {"unseen"}, error : Errors]

\* A fresh entry says of a task only what it has been since.
EntrySound(l, e) ==
  e.fresh => /\ \A t \in DOMAIN e.tasks : Home[t] = l /\ e.tasks[t] \in held[t]
             /\ e.complete => \A t \in Task : Home[t] = l /\ t \notin DOMAIN e.tasks => "gone" \in held[t]

WorldInv ==
  /\ status \in [Task -> Statuses] /\ held \in [Task -> SUBSET Statuses]
  /\ \A t \in Task : status[t] \in held[t]
  /\ entries \in [List -> Entries] /\ \A l \in List : EntrySound(l, entries[l])

\* So do the snapshots of a sync, and what is said of an item.
SyncInv ==
  at = "fetch" =>
    /\ snapshots \in [lists -> Entries] /\ \A l \in lists : EntrySound(l, snapshots[l])
    /\ stale \subseteq lists

SaysWhatWas(i, seen) == call.tool # "create" /\ seen \in held[call.ids[i]]

TargetSound(i) ==
  /\ targets[i].seen # "unseen" => SaysWhatWas(i, targets[i].seen)
  /\ targets[i].error = "list_not_found" /\ lists = List => SaysWhatWas(i, "gone")
  /\ targets[i].error = Nowhere => targets[i] = Unplaced

CallInv ==
  /\ at \in Places /\ (at = "idle" <=> call = NoCall) /\ (call # NoCall => call \in Calls)
  /\ lists \subseteq List
  /\ at \in {"sync", "fetch"} => call.tool # "create"
  /\ at \in {"sync", "fetch", "write"} =>
       targets \in [DOMAIN call.ids -> Targets] /\ \A i \in DOMAIN call.ids : TargetSound(i)
  /\ at = "write" => \A i \in DOMAIN call.ids : targets[i].error # Nowhere

\* The loop is at its first item until it begins, and then at the next one.
RequestOf(i) == IF call.tool = "create" THEN <<i, 0>> ELSE i

Reported(i) ==
  /\ report[i].index = i
  /\ report[i].as \in Untouched <=> RequestOf(i) \notin sent
  /\ report[i].as = "done" => RequestOf(i) \in applied
  /\ report[i].as = "done" /\ call.tool = "create" =>
       \A k \in 1 .. call.items[i] : <<i, k>> \in applied \cup warned
  /\ report[i].as = "unchanged" => SaysWhatWas(i, call.wanted)
  /\ report[i].as = "list_not_found" /\ lists = List => SaysWhatWas(i, "gone")

LoopInv ==
  /\ report \in Seq(Reports) /\ index \in Nat /\ item \in Nat /\ index = Len(report) + 1
  /\ at # "write" => index = 1 /\ item = 0 /\ sent = {}
  /\ at = "write" =>
       /\ Len(report) <= Len(call.ids)
       /\ \A i \in 1 .. Len(report) : Reported(i)
       /\ \A i \in DOMAIN call.ids : RequestOf(i) \in sent => i <= index /\ (i = index => item > 0)
       /\ item > 0 =>
            /\ call.tool = "create" /\ index <= Len(call.ids) /\ item <= call.items[index] + 1
            /\ RequestOf(index) \in sent /\ RequestOf(index) \in applied
            /\ \A k \in 1 .. item - 1 : <<index, k>> \in applied \cup warned

WriteInv == WorldInv /\ SyncInv /\ CallInv /\ LoopInv

\* The same of the next state's history.
EntrySoundNext(l, e) ==
  e.fresh => /\ \A t \in DOMAIN e.tasks : Home[t] = l /\ e.tasks[t] \in held'[t]
             /\ e.complete => \A t \in Task : Home[t] = l /\ t \notin DOMAIN e.tasks => "gone" \in held'[t]

HeldGrows == \A t \in Task : held[t] \subseteq held'[t]

--------------------------------------------------------------------------------
\* The arguments of the call that is running.
LEMMA CallIsTyped ==
  ASSUME CallInv, call # NoCall
  PROVE  /\ call \in Calls /\ call.ids # <<>> /\ Len(call.ids) \in Nat
         /\ DOMAIN call.ids = 1 .. Len(call.ids)
         /\ call.wanted \in Statuses
         /\ call.tool = "create" => call.items \in [DOMAIN call.ids -> Nat]
         /\ call.tool # "create" => \A i \in DOMAIN call.ids : call.ids[i] \in Task
<1>1. call \in Calls
  BY DEF CallInv
<1>2. call.tool # "create" => call.ids \in Seq(Task)
  BY <1>1, CallsAssumption
<1>3. call.tool # "create" => \A i \in 1 .. Len(call.ids) : call.ids[i] \in Task
  BY <1>2, ElementOfSeq
<1> QED
  BY <1>1, <1>3, CallsAssumption DEF Statuses

\* A list of no entry is sound, and typed.
LEMMA NoListEntryIsSound == NoListEntry \in Entries /\ NoListEntry.fresh = FALSE
<1>1. <<>> \in [{} -> Statuses]
  OBVIOUS
<1>2. <<>> \in UNION {[S -> Statuses] : S \in SUBSET Task}
  BY <1>1
<1> QED
  BY <1>2 DEF NoListEntry, Entries

\* What an entry says of a task.
LEMMA EntryIsTyped ==
  ASSUME NEW e \in Entries, NEW t \in DOMAIN e.tasks
  PROVE  t \in Task /\ e.tasks[t] \in Statuses
<1>1. PICK S \in SUBSET Task : e.tasks \in [S -> Statuses]
  BY DEF Entries
<1> QED
  BY <1>1

\* A longer history bears out what a shorter one does.
LEMMA EntriesStaySound ==
  ASSUME NEW l, NEW e \in Entries, EntrySound(l, e), HeldGrows
  PROVE  EntrySoundNext(l, e)
<1>1. ASSUME e.fresh, NEW t \in DOMAIN e.tasks PROVE Home[t] = l /\ e.tasks[t] \in held'[t]
  BY <1>1, EntryIsTyped DEF EntrySound, HeldGrows
<1>2. ASSUME e.fresh, e.complete, NEW t \in Task, Home[t] = l, t \notin DOMAIN e.tasks
      PROVE  "gone" \in held'[t]
  BY <1>2 DEF EntrySound, HeldGrows
<1> QED
  BY <1>1, <1>2 DEF EntrySoundNext

\* The lists that are left alone say nothing new.
LEMMA EntriesStay ==
  ASSUME WorldInv, HeldGrows, entries' \in [List -> Entries],
         \A l \in List : entries'[l] = entries[l] \/ EntrySoundNext(l, entries'[l])
  PROVE  \A l \in List : EntrySound(l, entries[l])'
<1> SUFFICES ASSUME NEW l \in List PROVE EntrySoundNext(l, entries'[l])
  BY DEF EntrySound, EntrySoundNext
<1>1. entries[l] \in Entries /\ EntrySound(l, entries[l])
  BY DEF WorldInv
<1>2. EntrySoundNext(l, entries[l])
  BY <1>1, EntriesStaySound
<1> QED
  BY <1>2

\* A fetch of a list says what is so at that moment.
LEMMA ViewIsSound ==
  ASSUME WorldInv, NEW l \in List, NEW S \in SUBSET Living(l), NEW complete \in BOOLEAN,
         complete => S = Living(l), \A t \in Task : Home[t] = l => status[t] \in held'[t]
  PROVE  /\ [tasks |-> View(S), complete |-> complete, fresh |-> TRUE] \in Entries
         /\ EntrySoundNext(l, [tasks |-> View(S), complete |-> complete, fresh |-> TRUE])
<1>1. S \in SUBSET Task /\ View(S) \in [S -> Statuses]
  BY DEF WorldInv, Living, View
<1>2. View(S) \in UNION {[T -> Statuses] : T \in SUBSET Task}
  BY <1>1
<1>3. \A t \in S : Home[t] = l /\ View(S)[t] = status[t] /\ status[t] \in held'[t]
  BY DEF Living, View
<1>4. complete => \A t \in Task : Home[t] = l /\ t \notin S => "gone" \in held'[t]
  BY DEF Living
<1>5. DOMAIN View(S) = S
  BY DEF View
<1> QED
  BY <1>2, <1>3, <1>4, <1>5 DEF Entries, EntrySoundNext

\* What was said of a task stays true of its history.
LEMMA SaysStays ==
  ASSUME CallInv, call # NoCall, NEW i \in DOMAIN call.ids, NEW s, SaysWhatWas(i, s), HeldGrows,
         call' = call
  PROVE  call'.tool # "create" /\ s \in held'[call'.ids[i]]
BY CallIsTyped DEF SaysWhatWas, HeldGrows

\* A step of somebody else changes nothing of the call.
LEMMA CallStays ==
  ASSUME CallInv, SyncInv, HeldGrows, UNCHANGED <<syncVars, call, at>>
  PROVE  CallInv' /\ SyncInv'
<1>1. SyncInv'
  <2> SUFFICES ASSUME at = "fetch" PROVE \A l \in lists : EntrySoundNext(l, snapshots[l])
    BY DEF SyncInv, syncVars, EntrySound, EntrySoundNext
  <2> QED
    BY EntriesStaySound DEF SyncInv
<1>2. ASSUME at \in {"sync", "fetch", "write"}, NEW i \in DOMAIN call.ids PROVE TargetSound(i)'
  <2>1. call # NoCall /\ TargetSound(i) /\ UNCHANGED <<call, targets, lists>>
    BY <1>2 DEF CallInv, syncVars
  <2> QED
    BY <2>1, SaysStays DEF TargetSound, SaysWhatWas
<1>3. CallInv'
  BY <1>2 DEF CallInv, syncVars
<1> QED
  BY <1>1, <1>3

\* Nor of its report.
LEMMA LoopStays ==
  ASSUME CallInv, LoopInv, HeldGrows, UNCHANGED <<call, at, lists, loopVars>>
  PROVE  LoopInv'
<1>1. ASSUME at = "write", NEW i \in 1 .. Len(report) PROVE Reported(i)'
  <2>1. call # NoCall /\ Reported(i) /\ i \in DOMAIN call.ids
    BY <1>1, CallIsTyped DEF CallInv, LoopInv
  <2> QED
    BY <2>1, SaysStays DEF Reported, SaysWhatWas, RequestOf, loopVars
<1> QED
  BY <1>1 DEF LoopInv, RequestOf, loopVars

\* Nothing is changed of the world.
LEMMA WorldStays ==
  ASSUME WorldInv, UNCHANGED <<status, entries, held>>
  PROVE  WorldInv' /\ HeldGrows
BY DEF WorldInv, EntrySound, HeldGrows

--------------------------------------------------------------------------------
\* Another client's change, or another call's.
LEMMA OthersChange ==
  ASSUME WriteInv, NEW t \in Task, OutsideChange(t) \/ OtherWrite(t)
  PROVE  WriteInv'
<1>1. PICK s \in Statuses : BecomesOf(t, s)
  BY DEF OutsideChange, OtherWrite, Statuses
<1>2. /\ status' \in [Task -> Statuses] /\ held' \in [Task -> SUBSET Statuses]
      /\ HeldGrows /\ \A u \in Task : status'[u] \in held'[u]
  BY <1>1 DEF WriteInv, WorldInv, BecomesOf, HeldGrows
<1>3. /\ entries' \in [List -> Entries]
      /\ \A l \in List : entries'[l] = entries[l] \/ entries'[l] = NoListEntry
  BY NoListEntryIsSound, HomeAssumption DEF OutsideChange, OtherWrite, WriteInv, WorldInv
<1>4. \A l \in List : entries'[l] = entries[l] \/ EntrySoundNext(l, entries'[l])
  BY <1>3, NoListEntryIsSound DEF EntrySoundNext
<1>5. WorldInv'
  BY <1>2, <1>3, <1>4, EntriesStay DEF WriteInv, WorldInv
<1>6. CallInv' /\ SyncInv' /\ LoopInv'
  BY <1>2, CallStays, LoopStays DEF WriteInv, OutsideChange, OtherWrite, syncVars
<1> QED
  BY <1>5, <1>6 DEF WriteInv

\* A fill of the cache, before the call begins: what was known before is dropped.
LEMMA FillsAreSound == ASSUME WriteInv, NEW l \in List, OtherFill(l) PROVE WriteInv'
<1> DEFINE fill == [tasks |-> View(Living(l)), complete |-> TRUE, fresh |-> TRUE]
<1>1. entries' = [entries EXCEPT ![l] = fill]
  BY DEF OtherFill
<1>2. held' = [t \in Task |-> IF Home[t] = l THEN {status[t]} ELSE held[t]] /\ status' = status
  BY DEF OtherFill
<1>3. \A t \in Task : Home[t] = l => status[t] \in held'[t]
  BY <1>2
<1>4. fill \in Entries /\ EntrySoundNext(l, fill)
  BY <1>3, ViewIsSound DEF WriteInv
<1> HIDE DEF fill
<1>5. held' \in [Task -> SUBSET Statuses] /\ \A t \in Task : status[t] \in held'[t]
  BY <1>2 DEF WriteInv, WorldInv
<1>6. entries' \in [List -> Entries]
  BY <1>1, <1>4 DEF WriteInv, WorldInv
<1>7. ASSUME NEW k \in List PROVE EntrySoundNext(k, entries'[k])
  <2>1. CASE k = l
    BY <1>1, <1>4, <2>1 DEF WriteInv, WorldInv
  <2>2. CASE k # l
    <3>1. entries'[k] = entries[k] /\ entries[k] \in Entries /\ EntrySound(k, entries[k])
      BY <1>1, <2>2 DEF WriteInv, WorldInv
    <3>2. \A t \in Task : Home[t] = k => held'[t] = held[t]
      BY <1>2, <2>2
    <3>3. \A t \in DOMAIN entries[k].tasks : t \in Task
      BY <3>1, EntryIsTyped
    <3> QED
      BY <3>1, <3>2, <3>3 DEF EntrySound, EntrySoundNext
  <2> QED
    BY <2>1, <2>2
<1>8. WorldInv'
  BY <1>2, <1>5, <1>6, <1>7 DEF WriteInv, WorldInv, EntrySound, EntrySoundNext
<1>9. at = "idle" /\ UNCHANGED <<syncVars, call, at, loopVars>>
  BY DEF OtherFill, WriteInv, CallInv
<1>10. CallInv' /\ SyncInv' /\ LoopInv'
  BY <1>9 DEF WriteInv, CallInv, SyncInv, LoopInv, syncVars, loopVars
<1> QED
  BY <1>8, <1>10 DEF WriteInv

\* An entry that is not fresh any more says nothing.
LEMMA ExpiryIsSound == ASSUME WriteInv, NEW l \in List, ExpireList(l) PROVE WriteInv'
<1> DEFINE old == [entries[l] EXCEPT !.fresh = FALSE]
<1>1. entries' = [entries EXCEPT ![l] = old] /\ UNCHANGED <<status, held>>
  BY DEF ExpireList
<1>2. entries[l] \in Entries
  BY DEF WriteInv, WorldInv
<1>3. old \in Entries /\ old.fresh = FALSE
  BY <1>2 DEF Entries
<1> HIDE DEF old
<1>4. entries' \in [List -> Entries] /\ \A k \in List : entries'[k] = entries[k] \/ entries'[k] = old
  BY <1>1, <1>3 DEF WriteInv, WorldInv
<1>5. HeldGrows
  BY <1>1 DEF HeldGrows
<1>6. WorldInv'
  BY <1>1, <1>3, <1>4, <1>5, EntriesStay DEF WriteInv, WorldInv, EntrySoundNext
<1>7. CallInv' /\ SyncInv' /\ LoopInv'
  BY <1>5, CallStays, LoopStays DEF WriteInv, ExpireList, syncVars
<1> QED
  BY <1>6, <1>7 DEF WriteInv

\* The deadline is nobody's claim.
LEMMA DeadlineIsSound == ASSUME WriteInv, DeadlineElapses PROVE WriteInv'
<1>1. WorldInv' /\ HeldGrows
  BY WorldStays DEF WriteInv, DeadlineElapses
<1> QED
  BY <1>1, CallStays, LoopStays DEF WriteInv, DeadlineElapses, syncVars

\* A call begins with what the fresh entries say, and the moment.
LEMMA BeginIsSound == ASSUME WriteInv, NEW c \in Calls, Begin(c) PROVE WriteInv'
<1>1. /\ call = NoCall /\ call' = c /\ at = "idle" /\ at' \in {"refused", "resolve"}
      /\ lists' \subseteq List /\ UNCHANGED <<status, entries, loopVars>>
  BY DEF Begin, WriteInv, CallInv
<1>2. held' = [t \in Task |-> IF entries[Home[t]].fresh THEN held[t] ELSE {status[t]}]
  BY DEF Begin
<1>3. held' \in [Task -> SUBSET Statuses] /\ \A t \in Task : status[t] \in held'[t]
  BY <1>2 DEF WriteInv, WorldInv
<1>4. ASSUME NEW l \in List PROVE EntrySoundNext(l, entries[l])
  <2>1. entries[l] \in Entries /\ EntrySound(l, entries[l])
    BY DEF WriteInv, WorldInv
  <2>2. entries[l].fresh => \A t \in Task : Home[t] = l => held'[t] = held[t]
    BY <1>2
  <2>3. \A t \in DOMAIN entries[l].tasks : t \in Task
    BY <2>1, EntryIsTyped
  <2> QED
    BY <2>1, <2>2, <2>3 DEF EntrySound, EntrySoundNext
<1>5. WorldInv'
  BY <1>1, <1>3, <1>4 DEF WriteInv, WorldInv, EntrySound, EntrySoundNext
<1>6. c # NoCall
  BY CallsAssumption DEF NoCall
<1>7. CallInv' /\ SyncInv'
  BY <1>1, <1>6 DEF CallInv, SyncInv, Places
<1>8. LoopInv'
  BY <1>1 DEF WriteInv, LoopInv, loopVars
<1> QED
  BY <1>5, <1>7, <1>8 DEF WriteInv

--------------------------------------------------------------------------------
\* What the cache says of a task of a list that the call may use.
LEMMA SeenWas ==
  ASSUME WorldInv, NEW l \in List, NEW t, Seen(l, t) # "unseen"
  PROVE  t \in Task /\ Seen(l, t) \in Statuses /\ Seen(l, t) \in held[t]
<1>1. entries[l] \in Entries /\ EntrySound(l, entries[l])
  BY DEF WorldInv
<1> QED
  BY <1>1, EntryIsTyped DEF Seen, EntrySound

\* A refusal and a target, and which is which.
LEMMA TargetsAreTyped ==
  /\ \A l \in List, seen \in Statuses \cup {"unseen"} :
       Target(l, seen) \in Targets /\ Target(l, seen).seen = seen /\ Target(l, seen).error = "none"
  /\ \A error \in Errors :
       /\ Refused(error) \in Targets /\ Refused(error).seen = "unseen"
       /\ Refused(error).error = error
  /\ Unplaced = Refused(Nowhere) /\ Nowhere \in Errors
BY DEF Target, Refused, Targets, Errors, Unplaced, Nowhere

\* resolve_targets, of one item.
LEMMA ItemFromCache ==
  ASSUME WriteInv, NEW t, NEW target, at = "resolve",
         target = FromCache(t) \/ \E l : target = FromArgument(t, l)
  PROVE  /\ target \in Targets
         /\ target.seen # "unseen" => t \in Task /\ target.seen \in held[t]
         /\ target.error \in {"none", "no_list", Nowhere}
         /\ target.error = Nowhere => target = Unplaced
<1>1. lists \subseteq List
  BY DEF WriteInv, CallInv
<1>2. ASSUME NEW l \in lists, target = Target(l, Seen(l, t))
      PROVE  /\ target \in Targets /\ target.error = "none"
             /\ target.seen # "unseen" => t \in Task /\ target.seen \in held[t]
  BY <1>1, <1>2, SeenWas, TargetsAreTyped DEF WriteInv
<1>3. CASE target = FromCache(t)
  <2> DEFINE found == {l \in lists : t \in DOMAIN entries[l].tasks}
  <2>1. CASE found = {}
    BY <1>3, <2>1, TargetsAreTyped DEF FromCache
  <2>2. CASE found # {}
    <3>1. PICK l \in lists : target = Target(l, Seen(l, t))
      BY <1>3, <2>2 DEF FromCache
    <3> QED
      BY <1>2, <3>1 DEF Nowhere
  <2> QED
    BY <2>1, <2>2
<1>4. ASSUME NEW l, target = FromArgument(t, l) PROVE
         /\ target \in Targets
         /\ target.seen # "unseen" => t \in Task /\ target.seen \in held[t]
         /\ target.error \in {"none", "no_list"}
  <2>1. CASE l \in lists
    BY <1>2, <1>4, <2>1 DEF FromArgument
  <2>2. CASE l \notin lists
    BY <1>4, <2>2, TargetsAreTyped DEF FromArgument, Errors
  <2> QED
    BY <2>1, <2>2
<1> QED
  BY <1>3, <1>4 DEF Nowhere

\* The loop begins at its first item, with nothing sent.
LEMMA LoopBegins ==
  ASSUME CallInv, LoopInv, call # NoCall, at # "write", UNCHANGED <<call, loopVars>>
  PROVE  LoopInv'
<1>1. index = 1 /\ item = 0 /\ sent = {} /\ Len(report) = 0 /\ Len(call.ids) \in Nat
  BY CallIsTyped DEF LoopInv
<1> QED
  BY <1>1 DEF LoopInv, loopVars

\* The cache gives the call its targets.
LEMMA CacheResolves == ASSUME WriteInv, ResolveFromCache PROVE WriteInv'
<1>1. /\ at = "resolve" /\ call # NoCall /\ call.tool # "create" /\ at' \in {"sync", "write"}
      /\ UNCHANGED <<status, entries, lists, call, loopVars, held>>
      /\ at' = "write" => \A i \in DOMAIN targets' : targets'[i] # Unplaced
  BY DEF ResolveFromCache, WriteInv, CallInv
<1>2. targets' = [i \in DOMAIN call.ids |->
         IF call.list # "none" THEN FromArgument(call.ids[i], call.list) ELSE FromCache(call.ids[i])]
  BY DEF ResolveFromCache
<1>3. ASSUME NEW i \in DOMAIN call.ids
      PROVE  /\ targets'[i] \in Targets
             /\ targets'[i].seen # "unseen" => targets'[i].seen \in held[call.ids[i]]
             /\ targets'[i].error # "list_not_found"
             /\ targets'[i].error = Nowhere => targets'[i] = Unplaced
  <2>1. \/ targets'[i] = FromCache(call.ids[i])
        \/ \E l : targets'[i] = FromArgument(call.ids[i], l)
    BY <1>2
  <2> DEFINE target == targets'[i]
  <2>2. target \in Targets /\ target.error \in {"none", "no_list", Nowhere}
        /\ (target.seen # "unseen" => target.seen \in held[call.ids[i]])
        /\ (target.error = Nowhere => target = Unplaced)
    <3> HIDE DEF target
    <3>1. ASSUME NEW x, x = FromCache(call.ids[i]) \/ \E l : x = FromArgument(call.ids[i], l)
          PROVE  /\ x \in Targets /\ x.error \in {"none", "no_list", Nowhere}
                 /\ (x.seen # "unseen" => x.seen \in held[call.ids[i]])
                 /\ (x.error = Nowhere => x = Unplaced)
      BY <1>1, <3>1, ItemFromCache
    <3> QED
      BY <2>1, <3>1 DEF target
  <2> QED
    BY <2>2 DEF Nowhere
<1>4. WorldInv' /\ SyncInv'
  BY <1>1, WorldStays DEF WriteInv, SyncInv
<1>5. targets' \in [DOMAIN call.ids -> Targets]
  BY <1>2, <1>3
<1>6. \A i \in DOMAIN call.ids : TargetSound(i)'
  BY <1>1, <1>3 DEF TargetSound, SaysWhatWas
<1>7. at' = "write" => \A i \in DOMAIN call.ids : targets'[i].error # Nowhere
  BY <1>1, <1>2, <1>3
<1>8. CallInv'
  BY <1>1, <1>5, <1>6, <1>7 DEF WriteInv, CallInv, Places
<1>9. LoopInv'
  BY <1>1, LoopBegins DEF WriteInv
<1> QED
  BY <1>4, <1>8, <1>9 DEF WriteInv

\* A call that creates has one list, or is refused.
LEMMA CreateResolves == ASSUME WriteInv, ResolveForCreate PROVE WriteInv'
<1>1. /\ at = "resolve" /\ call # NoCall /\ call.tool = "create" /\ at' \in {"refused", "write"}
      /\ UNCHANGED <<status, entries, lists, call, loopVars, held>>
  BY DEF ResolveForCreate, WriteInv, CallInv
<1>2. ASSUME at' = "write"
      PROVE  \E l \in List : targets' = [i \in DOMAIN call.ids |-> Target(l, "unseen")]
  BY <1>2 DEF ResolveForCreate, WriteInv, CallInv
<1>3. ASSUME at' = "write"
      PROVE  /\ targets' \in [DOMAIN call.ids -> Targets]
             /\ \A i \in DOMAIN call.ids : targets'[i].seen = "unseen" /\ targets'[i].error = "none"
  BY <1>2, <1>3, TargetsAreTyped
<1>4. WorldInv' /\ SyncInv'
  BY <1>1, WorldStays DEF WriteInv, SyncInv
<1>5. CallInv'
  BY <1>1, <1>3 DEF WriteInv, CallInv, Places, TargetSound, Nowhere
<1>6. LoopInv'
  BY <1>1, LoopBegins DEF WriteInv
<1> QED
  BY <1>4, <1>5, <1>6 DEF WriteInv

--------------------------------------------------------------------------------
\* sync_lists begins with what is in the cache.
LEMMA FreshEntriesAreSound == ASSUME WriteInv, FreshEntries PROVE WriteInv'
<1>1. /\ at = "sync" /\ at' = "fetch" /\ snapshots' = [l \in lists |-> entries[l]] /\ stale' \subseteq lists
      /\ UNCHANGED <<status, entries, lists, targets, call, loopVars, held>>
  BY DEF FreshEntries
<1>2. lists \subseteq List
  BY DEF WriteInv, CallInv
<1>3. snapshots' \in [lists -> Entries] /\ \A l \in lists : EntrySound(l, snapshots[l])'
  BY <1>1, <1>2 DEF WriteInv, WorldInv, EntrySound
<1>4. WorldInv' /\ SyncInv'
  BY <1>1, <1>3, WorldStays DEF WriteInv, SyncInv
<1>5. CallInv'
  BY <1>1 DEF WriteInv, CallInv, Places, TargetSound, SaysWhatWas
<1>6. LoopInv'
  BY <1>1 DEF WriteInv, LoopInv, loopVars
<1> QED
  BY <1>4, <1>5, <1>6 DEF WriteInv

\* A list is fetched, whole or in part.
LEMMA FetchIsSound == ASSUME WriteInv, NEW l \in List, FetchList(l) PROVE WriteInv'
<1>1. /\ at = "fetch" /\ l \in stale /\ stale' = stale \ {l}
      /\ UNCHANGED <<status, lists, targets, call, at, loopVars, held>>
  BY DEF FetchList
<1>2. l \in lists /\ snapshots \in [lists -> Entries] /\ stale \subseteq lists
  BY <1>1 DEF WriteInv, SyncInv
<1>3. PICK whole \in SUBSET Living(l) :
        snapshots' = [snapshots EXCEPT ![l] =
                        [tasks |-> View(whole), complete |-> whole = Living(l), fresh |-> TRUE]]
  BY DEF FetchList
<1> DEFINE part == [tasks |-> View(whole), complete |-> whole = Living(l), fresh |-> TRUE]
<1>4. \A t \in Task : status[t] \in held'[t]
  BY <1>1 DEF WriteInv, WorldInv
<1>5. part \in Entries /\ EntrySoundNext(l, part)
  BY <1>4, ViewIsSound DEF WriteInv
<1>6. snapshots' = [snapshots EXCEPT ![l] = part] /\ entries' = [entries EXCEPT ![l] = snapshots'[l]]
  BY <1>3 DEF FetchList
<1> HIDE DEF part
<1>7. snapshots'[l] = part /\ entries' = [entries EXCEPT ![l] = part]
  BY <1>2, <1>6
<1>8. HeldGrows
  BY <1>1 DEF HeldGrows
<1>9. entries' \in [List -> Entries] /\ \A k \in List : entries'[k] = entries[k] \/ (k = l /\ entries'[k] = part)
  BY <1>5, <1>7 DEF WriteInv, WorldInv
<1>10. WorldInv'
  BY <1>1, <1>4, <1>5, <1>8, <1>9, EntriesStay DEF WriteInv, WorldInv
<1>11. snapshots' \in [lists -> Entries]
  BY <1>2, <1>5, <1>6
<1>12. ASSUME NEW k \in lists PROVE EntrySoundNext(k, snapshots'[k])
  <2>1. CASE k = l
    BY <1>5, <1>7, <2>1
  <2>2. CASE k # l
    <3>1. snapshots'[k] = snapshots[k] /\ snapshots[k] \in Entries /\ EntrySound(k, snapshots[k])
      BY <1>1, <1>2, <1>6, <2>2 DEF WriteInv, SyncInv
    <3>2. EntrySoundNext(k, snapshots[k])
      BY <1>8, <3>1, EntriesStaySound
    <3> QED
      BY <3>1, <3>2
  <2> QED
    BY <2>1, <2>2
<1>13. SyncInv'
  BY <1>1, <1>2, <1>11, <1>12 DEF SyncInv, EntrySound, EntrySoundNext
<1>14. CallInv'
  BY <1>1 DEF WriteInv, CallInv, TargetSound, SaysWhatWas
<1>15. LoopInv'
  BY <1>1, <1>8, LoopStays DEF WriteInv
<1> QED
  BY <1>10, <1>13, <1>14, <1>15 DEF WriteInv

\* What a sync says of a task it was to find: only a whole one says it is gone.
LEMMA ItemFromSync ==
  ASSUME WriteInv, at = "fetch", NEW t \in Task
  PROVE  /\ FromSync(t) \in Targets /\ FromSync(t).error # Nowhere
         /\ FromSync(t).seen # "unseen" => FromSync(t).seen \in held[t]
         /\ FromSync(t).error = "list_not_found" /\ lists = List => "gone" \in held[t]
<1> DEFINE found == {l \in lists : snapshots[l].fresh /\ t \in DOMAIN snapshots[l].tasks}
<1>1. /\ lists \subseteq List /\ \A l \in lists : snapshots[l] \in Entries /\ EntrySound(l, snapshots[l])
  BY DEF WriteInv, CallInv, SyncInv
<1>2. CASE found # {}
  <2>1. PICK l \in found : FromSync(t) = Target(l, snapshots[l].tasks[t])
    BY <1>2 DEF FromSync
  <2>2. snapshots[l].tasks[t] \in Statuses /\ snapshots[l].tasks[t] \in held[t] /\ l \in List
    BY <1>1, EntryIsTyped DEF EntrySound
  <2> QED
    BY <2>1, <2>2, TargetsAreTyped DEF Nowhere
<1>3. CASE found = {} /\ \A l \in lists : Covered(l)
  <2>1. FromSync(t) = Refused("list_not_found")
    BY <1>3 DEF FromSync
  <2>2. lists = List => "gone" \in held[t]
    BY <1>1, <1>3, HomeAssumption DEF Covered, EntrySound
  <2> QED
    BY <2>1, <2>2, TargetsAreTyped DEF Errors, Nowhere
<1>4. CASE found = {} /\ ~(\A l \in lists : Covered(l))
  <2>1. FromSync(t) = Refused("sync_incomplete")
    BY <1>4 DEF FromSync
  <2> QED
    BY <2>1, TargetsAreTyped DEF Errors, Nowhere
<1> QED
  BY <1>2, <1>3, <1>4

\* The sync is over, one way or the other.
LEMMA SettledTargetsAreSound ==
  ASSUME WriteInv, NEW placed, SettleTargets(placed), call.tool # "create",
         \A i \in DOMAIN call.ids :
           /\ placed[i] \in Targets /\ placed[i].error # Nowhere
           /\ placed[i].seen # "unseen" => placed[i].seen \in held[call.ids[i]]
           /\ placed[i].error = "list_not_found" /\ lists = List => "gone" \in held[call.ids[i]]
  PROVE  WriteInv'
<1>1. /\ at = "fetch" /\ at' = "write" /\ call # NoCall
      /\ targets' = [i \in DOMAIN targets |-> IF targets[i] = Unplaced THEN placed[i] ELSE targets[i]]
      /\ UNCHANGED <<status, entries, lists, call, loopVars, held>>
  BY DEF SettleTargets, WriteInv, CallInv
<1>2. targets \in [DOMAIN call.ids -> Targets] /\ \A i \in DOMAIN call.ids : TargetSound(i)
  BY <1>1 DEF WriteInv, CallInv
<1>3. targets' \in [DOMAIN call.ids -> Targets]
  BY <1>1, <1>2
<1>4. ASSUME NEW i \in DOMAIN call.ids PROVE TargetSound(i)'
  BY <1>1, <1>2 DEF TargetSound, SaysWhatWas
<1>5. ASSUME NEW i \in DOMAIN call.ids PROVE targets'[i].error # Nowhere
  BY <1>1, <1>2 DEF TargetSound
<1>6. WorldInv' /\ SyncInv'
  BY <1>1, WorldStays DEF WriteInv, SyncInv
<1>7. CallInv'
  BY <1>1, <1>3, <1>4, <1>5 DEF WriteInv, CallInv, Places
<1>8. LoopInv'
  BY <1>1, LoopBegins DEF WriteInv
<1> QED
  BY <1>6, <1>7, <1>8 DEF WriteInv

\* The sync ends: each item is where it was found, or is not.
LEMMA SyncEndIsSound == ASSUME WriteInv, SyncEnds PROVE WriteInv'
<1> DEFINE placed == [i \in DOMAIN targets |-> FromSync(call.ids[i])]
<1>1. at = "fetch" /\ call.tool # "create" /\ call # NoCall /\ SettleTargets(placed)
  BY DEF SyncEnds, SettleTargets, WriteInv, CallInv
<1>2. DOMAIN targets = DOMAIN call.ids /\ \A i \in DOMAIN call.ids : call.ids[i] \in Task
  BY <1>1, CallIsTyped DEF WriteInv, CallInv
<1>3. \A i \in DOMAIN call.ids : placed[i] = FromSync(call.ids[i])
  BY <1>2
<1> HIDE DEF placed
<1>4. \A i \in DOMAIN call.ids :
        /\ placed[i] \in Targets /\ placed[i].error # Nowhere
        /\ placed[i].seen # "unseen" => placed[i].seen \in held[call.ids[i]]
        /\ placed[i].error = "list_not_found" /\ lists = List => "gone" \in held[call.ids[i]]
  BY <1>1, <1>2, <1>3, ItemFromSync
<1> QED
  BY <1>1, <1>4, SettledTargetsAreSound

\* The sync fails: nothing is said of any item.
LEMMA SyncFailureIsSound == ASSUME WriteInv, SyncFails PROVE WriteInv'
<1> DEFINE placed == [i \in DOMAIN targets |-> Refused("error")]
<1>1. at = "fetch" /\ call.tool # "create" /\ SettleTargets(placed)
  BY DEF SyncFails, SettleTargets, WriteInv, CallInv
<1>2. DOMAIN targets = DOMAIN call.ids
  BY <1>1 DEF WriteInv, CallInv
<1>3. \A i \in DOMAIN call.ids : placed[i] = Refused("error")
  BY <1>2
<1> HIDE DEF placed
<1>4. \A i \in DOMAIN call.ids :
        /\ placed[i] \in Targets /\ placed[i].error = "error" /\ placed[i].seen = "unseen"
  BY <1>3, TargetsAreTyped DEF Errors
<1> QED
  BY <1>1, <1>4, SettledTargetsAreSound DEF Nowhere

--------------------------------------------------------------------------------
\* An item is reported, and nothing else of the call changes but what was sent for it.
LEMMA PushIsSound ==
  ASSUME CallInv, LoopInv, HeldGrows, at = "write", UNCHANGED <<call, at, lists>>,
         NEW as \in Results, Push(as), index \in DOMAIN call.ids, item' = 0,
         sent \subseteq sent', applied \subseteq applied', warned \subseteq warned',
         sent' \subseteq sent \cup {RequestOf(index)},
         as \in Untouched <=> RequestOf(index) \notin sent',
         as = "done" => RequestOf(index) \in applied',
         as = "done" /\ call.tool = "create" =>
           \A k \in 1 .. call.items[index] : <<index, k>> \in applied' \cup warned',
         as = "unchanged" => SaysWhatWas(index, call.wanted),
         as = "list_not_found" /\ lists = List => SaysWhatWas(index, "gone")
  PROVE  LoopInv'
<1> DEFINE r == [index |-> index, as |-> as]
<1>1. /\ call # NoCall /\ report \in Seq(Reports) /\ index = Len(report) + 1 /\ index \in Nat
      /\ Len(report) \in Nat /\ Len(call.ids) \in Nat /\ DOMAIN call.ids = 1 .. Len(call.ids)
  BY CallIsTyped, LenProperties DEF CallInv, LoopInv
<1>2. r \in Reports /\ r.index = index /\ r.as = as
  BY <1>1 DEF Reports
<1>3. report' = Append(report, r) /\ index' = index + 1
  BY DEF Push
<1> HIDE DEF r
<1>4. /\ report' \in Seq(Reports) /\ Len(report') = Len(report) + 1 /\ report'[index] = r
      /\ \A i \in 1 .. Len(report) : report'[i] = report[i]
  BY <1>1, <1>2, <1>3, AppendProperties
<1>5. ASSUME NEW i \in 1 .. Len(report) PROVE Reported(i)'
  <2>1. Reported(i) /\ i \in DOMAIN call.ids /\ i # index /\ report'[i] = report[i]
    BY <1>1, <1>4 DEF LoopInv
  <2>2. RequestOf(i) # RequestOf(index) /\ RequestOf(i)' = RequestOf(i)
    BY <2>1 DEF RequestOf
  <2>3. RequestOf(i) \in sent' <=> RequestOf(i) \in sent
    BY <2>2
  <2> QED
    BY <1>1, <2>1, <2>2, <2>3, SaysStays DEF Reported, SaysWhatWas
<1>6. ASSUME NEW i \in DOMAIN call.ids, i = index PROVE Reported(i)'
  <2>1. report'[i] = r /\ RequestOf(i)' = RequestOf(i) /\ RequestOf(i) = RequestOf(index)
    BY <1>4, <1>6 DEF RequestOf
  <2> QED
    BY <1>1, <1>2, <1>6, <2>1, SaysStays DEF Reported, SaysWhatWas
<1>7. \A i \in DOMAIN call.ids : RequestOf(i) \in sent' => i <= index
  BY <1>1 DEF LoopInv, RequestOf
<1>8. \A i \in 1 .. Len(report') : Reported(i)'
  BY <1>1, <1>4, <1>5, <1>6
<1>9. \A i \in DOMAIN call.ids : RequestOf(i)' = RequestOf(i)
  BY DEF RequestOf
<1> QED
  BY <1>1, <1>3, <1>4, <1>7, <1>8, <1>9 DEF LoopInv

\* An item that no request is made for.
LEMMA SkipIsSound ==
  ASSUME WriteInv, Writing, NEW as \in Untouched, Skip(as),
         as = "unchanged" => SaysWhatWas(index, call.wanted),
         as = "list_not_found" /\ lists = List => SaysWhatWas(index, "gone")
  PROVE  WriteInv'
<1>1. /\ at = "write" /\ item = 0 /\ call # NoCall
      /\ UNCHANGED <<status, entries, syncVars, call, at, item, warned, late, changes, sent, applied, held>>
      /\ Push(as)
  BY DEF Writing, Skip, WriteInv, CallInv
<1>2. WorldInv' /\ HeldGrows
  BY <1>1, WorldStays DEF WriteInv
<1>3. CallInv' /\ SyncInv'
  BY <1>1, <1>2, CallStays DEF WriteInv
<1>4. index \in DOMAIN call.ids
  BY <1>1, CallIsTyped, LenProperties DEF Writing, WriteInv, LoopInv
<1>5. RequestOf(index) \notin sent
  BY <1>1, <1>4 DEF WriteInv, LoopInv
<1>6. as \in Results /\ as # "done"
  BY DEF Results, Untouched
<1>7. LoopInv'
  BY <1>1, <1>2, <1>4, <1>5, <1>6, PushIsSound DEF WriteInv, syncVars
<1> QED
  BY <1>2, <1>3, <1>7 DEF WriteInv

\* What the report says of a target that was not found, and of one that needs no change.
LEMMA TargetsAreReported ==
  ASSUME WriteInv, Writing
  PROVE  /\ index \in DOMAIN call.ids /\ This \in Targets
         /\ This.error # "none" => This.error \in Untouched
         /\ This.seen # "unseen" => SaysWhatWas(index, This.seen)
         /\ This.error = "list_not_found" /\ lists = List => SaysWhatWas(index, "gone")
<1>1. /\ call # NoCall /\ index \in DOMAIN call.ids
  BY CallIsTyped, LenProperties DEF Writing, WriteInv, LoopInv, CallInv
<1>2. targets[index] \in Targets /\ targets[index].error # Nowhere /\ TargetSound(index)
  BY <1>1 DEF Writing, WriteInv, CallInv
<1> QED
  BY <1>1, <1>2 DEF This, Targets, Errors, Untouched, TargetSound

\* The arms of the loop that make no request.
LEMMA SkipsAreSound ==
  ASSUME WriteInv, NotResolved \/ Unchanged \/ RefuseFlagged \/ TooLate
  PROVE  WriteInv'
<1>1. Writing
  BY DEF NotResolved, Unchanged, RefuseFlagged, TooLate, ToSend
<1>2. CASE NotResolved
  <2> DEFINE error == This.error
  <2>1. error \in Untouched /\ Skip(error) /\ error # "unchanged"
    BY <1>1, <1>2, TargetsAreReported DEF NotResolved, Targets, Errors, Nowhere
  <2>2. error = "list_not_found" /\ lists = List => SaysWhatWas(index, "gone")
    BY <1>1, TargetsAreReported
  <2> HIDE DEF error
  <2> QED
    BY <1>1, <2>1, <2>2, SkipIsSound
<1>3. CASE Unchanged
  <2>1. This.seen = call.wanted /\ call.wanted \in Statuses
    BY <1>3, CallIsTyped DEF Unchanged, AlreadySo, Writing, WriteInv, CallInv
  <2>2. SaysWhatWas(index, call.wanted)
    BY <1>1, <2>1, TargetsAreReported DEF Statuses
  <2> QED
    BY <1>1, <1>3, <2>2, SkipIsSound DEF Unchanged, Untouched
<1>4. CASE RefuseFlagged \/ TooLate
  BY <1>1, <1>4, SkipIsSound DEF RefuseFlagged, TooLate, Untouched
<1> QED
  BY <1>2, <1>3, <1>4 DEF NotResolved

\* invalidate_after
LEMMA InvalidatedIsSound ==
  ASSUME WorldInv, HeldGrows, NEW l, NEW outcome, InvalidateAfter(l, outcome)
  PROVE  entries' \in [List -> Entries] /\ \A k \in List : EntrySound(k, entries[k])'
<1>1. entries' \in [List -> Entries] /\ \A k \in List : entries'[k] = entries[k] \/ entries'[k] = NoListEntry
  BY NoListEntryIsSound DEF InvalidateAfter, WorldInv
<1>2. \A k \in List : entries'[k] = entries[k] \/ EntrySoundNext(k, entries'[k])
  BY <1>1, NoListEntryIsSound DEF EntrySoundNext
<1> QED
  BY <1>1, <1>2, EntriesStay

\* A request, answered or not.
LEMMA SendIsSound == ASSUME WriteInv, Send PROVE WriteInv'
<1>1. /\ Writing /\ call.tool # "create" /\ sent' = sent \cup {index} /\ call # NoCall
      /\ UNCHANGED <<syncVars, call, at, item, warned, late, changes>>
  BY DEF Send, ToSend, WriteInv, CallInv, Writing
<1>2. PICK outcome \in {"ok", "notThere", "refused", "unknown"}, isApplied \in BOOLEAN :
        SendTo(call.ids[index], This.list, outcome, isApplied)
  BY DEF Send
<1>3. index \in DOMAIN call.ids /\ call.ids[index] \in Task /\ call.wanted \in Statuses
  BY <1>1, TargetsAreReported, CallIsTyped DEF WriteInv
<1>4. IF isApplied THEN BecomesOf(call.ids[index], call.wanted) ELSE UNCHANGED <<status, held>>
  BY <1>2 DEF SendTo
<1>5. /\ status' \in [Task -> Statuses] /\ held' \in [Task -> SUBSET Statuses]
      /\ HeldGrows /\ \A u \in Task : status'[u] \in held'[u]
  BY <1>3, <1>4 DEF WriteInv, WorldInv, BecomesOf, HeldGrows
<1>6. WorldInv'
  <2>1. \E o : InvalidateAfter(This.list, o)
    BY <1>2 DEF SendTo
  <2> QED
    BY <1>5, <2>1, InvalidatedIsSound DEF WriteInv, WorldInv
<1>7. CallInv' /\ SyncInv'
  BY <1>1, <1>5, CallStays DEF WriteInv
<1>8. PICK as \in {"done", "absent", "failed"} : Push(as) /\ (as = "done" => outcome = "ok")
  BY <1>2 DEF SendTo
<1>9. /\ applied' = (IF isApplied THEN applied \cup {index} ELSE applied)
      /\ outcome = "ok" => isApplied
  BY <1>2 DEF SendTo
<1>10. as \in Results /\ as \notin Untouched /\ as # "unchanged" /\ as # "list_not_found"
  BY <1>8 DEF Results, Untouched
<1>11. at = "write" /\ item' = 0 /\ RequestOf(index) = index
  BY <1>1 DEF Writing, RequestOf
<1>12. /\ sent \subseteq sent' /\ applied \subseteq applied' /\ warned \subseteq warned'
       /\ sent' \subseteq sent \cup {RequestOf(index)} /\ RequestOf(index) \in sent'
       /\ as = "done" => RequestOf(index) \in applied'
  BY <1>1, <1>8, <1>9, <1>11
<1>13. UNCHANGED <<call, at, lists>> /\ CallInv /\ LoopInv
  BY <1>1 DEF WriteInv, syncVars
<1>14. /\ as \in Untouched <=> RequestOf(index) \notin sent'
       /\ as = "done" /\ call.tool = "create" =>
            \A k \in 1 .. call.items[index] : <<index, k>> \in applied' \cup warned'
       /\ as = "unchanged" => SaysWhatWas(index, call.wanted)
       /\ as = "list_not_found" /\ lists = List => SaysWhatWas(index, "gone")
  BY <1>1, <1>10, <1>12
<1>15. LoopInv'
  BY <1>3, <1>5, <1>8, <1>10, <1>11, <1>12, <1>13, <1>14, PushIsSound
<1> QED
  BY <1>6, <1>7, <1>15 DEF WriteInv

--------------------------------------------------------------------------------
\* The frame of todo_create_tasks: it changes no task that there is.
LEMMA CreatesLeaveTheRest ==
  ASSUME WriteInv, CreateTask \/ CreateChecklistItem \/ TaskCreated
  PROVE  /\ WorldInv' /\ CallInv' /\ SyncInv' /\ HeldGrows /\ UNCHANGED <<call, at, lists>>
<1>1. UNCHANGED <<status, syncVars, call, at, held>>
  BY DEF CreateTask, CreateChecklistItem, TaskCreated
<1>2. HeldGrows
  BY <1>1 DEF HeldGrows
<1>3. entries' = entries \/ \E l, outcome : InvalidateAfter(l, outcome)
  BY DEF CreateTask, CreateChecklistItem, TaskCreated
<1>4. entries' \in [List -> Entries] /\ \A k \in List : EntrySound(k, entries[k])'
  BY <1>1, <1>2, <1>3, InvalidatedIsSound DEF WriteInv, WorldInv, EntrySound
<1>5. WorldInv'
  BY <1>1, <1>4 DEF WriteInv, WorldInv
<1>6. CallInv' /\ SyncInv'
  BY <1>1, <1>2, CallStays DEF WriteInv
<1> QED
  BY <1>1, <1>2, <1>5, <1>6 DEF syncVars

\* Where the loop of todo_create_tasks is.
LEMMA CreatingIsTyped ==
  ASSUME WriteInv, item > 0 \/ (Writing /\ call.tool = "create")
  PROVE  /\ call # NoCall /\ at = "write" /\ call.tool = "create" /\ index \in DOMAIN call.ids
         /\ call.items[index] \in Nat /\ index \in Nat /\ item \in Nat
         /\ \A i : RequestOf(i) = <<i, 0>>
<1>1. at = "write" /\ call.tool = "create" /\ call # NoCall /\ index <= Len(call.ids)
  BY DEF WriteInv, LoopInv, CallInv, Writing
<1>2. index \in DOMAIN call.ids
  BY <1>1, CallIsTyped, LenProperties DEF WriteInv, LoopInv
<1> QED
  BY <1>1, <1>2, CallIsTyped DEF WriteInv, LoopInv, RequestOf

\* Another checklist item, or the first: the task itself is there.
LEMMA CreatingGoesOn ==
  ASSUME WriteInv, UNCHANGED <<call, at, lists, index, report>>, HeldGrows,
         call # NoCall, at = "write", call.tool = "create", index \in DOMAIN call.ids,
         item' \in Nat \ {0}, item' <= call.items[index] + 1,
         sent \subseteq sent', applied \subseteq applied', warned \subseteq warned',
         \A i \in Nat : <<i, 0>> \in sent' => i = index \/ <<i, 0>> \in sent,
         <<index, 0>> \in sent' /\ <<index, 0>> \in applied',
         \A k \in 1 .. item' - 1 : <<index, k>> \in applied' \cup warned'
  PROVE  LoopInv'
<1>1. /\ report \in Seq(Reports) /\ index \in Nat /\ index = Len(report) + 1 /\ Len(report) \in Nat
      /\ DOMAIN call.ids = 1 .. Len(call.ids) /\ Len(call.ids) \in Nat
  BY CallIsTyped, LenProperties DEF WriteInv, LoopInv
<1>2. \A i : RequestOf(i) = <<i, 0>> /\ RequestOf(i)' = <<i, 0>>
  BY DEF RequestOf
<1>3. ASSUME NEW i \in 1 .. Len(report) PROVE Reported(i)'
  <2>1. Reported(i) /\ i \in DOMAIN call.ids /\ i # index /\ i \in Nat
    BY <1>1 DEF WriteInv, LoopInv
  <2>2. <<i, 0>> \in sent' <=> <<i, 0>> \in sent
    BY <2>1
  <2> QED
    BY <1>2, <2>1, <2>2, SaysStays DEF Reported, SaysWhatWas, WriteInv
<1>4. \A i \in DOMAIN call.ids : <<i, 0>> \in sent' => i <= index
  <2>1. ASSUME NEW i \in DOMAIN call.ids, <<i, 0>> \in sent PROVE i <= index
    BY <1>1, <1>2, <2>1 DEF WriteInv, LoopInv
  <2>2. ASSUME NEW i \in DOMAIN call.ids, <<i, 0>> \in sent' PROVE i = index \/ <<i, 0>> \in sent
    BY <1>1, <2>2
  <2> QED
    BY <1>1, <2>1, <2>2
<1>5. /\ index' = index /\ report' = report /\ call' = call /\ at' = "write" /\ item' > 0 /\ item' \in Nat
      /\ index <= Len(call.ids) /\ Len(report) <= Len(call.ids)
  BY <1>1
<1>6. \A i \in DOMAIN call.ids : RequestOf(i)' \in sent' => i <= index /\ (i = index => item' > 0)
  BY <1>2, <1>4, <1>5
<1>7. \A i \in 1 .. Len(report) : Reported(i)'
  BY <1>3
<1>8. /\ call.tool = "create" /\ item' <= call.items[index] + 1
      /\ RequestOf(index)' \in sent' /\ RequestOf(index)' \in applied'
      /\ \A k \in 1 .. item' - 1 : <<index, k>> \in applied' \cup warned'
  BY <1>2, <1>5
<1> HIDE DEF RequestOf
<1> QED
  BY <1>1, <1>5, <1>6, <1>7, <1>8 DEF LoopInv

\* A task is created, or the request for it fails.
LEMMA CreateIsSound == ASSUME WriteInv, CreateTask PROVE WriteInv'
<1>1. Writing /\ call.tool = "create" /\ sent' = sent \cup {<<index, 0>>} /\ UNCHANGED warned /\ item = 0
  BY DEF CreateTask, ToSend, Writing
<1>2. /\ call # NoCall /\ at = "write" /\ index \in DOMAIN call.ids /\ index \in Nat
      /\ call.items[index] \in Nat /\ RequestOf(index) = <<index, 0>>
  BY <1>1, CreatingIsTyped
<1>3. /\ WorldInv' /\ CallInv' /\ SyncInv' /\ HeldGrows /\ UNCHANGED <<call, at, lists>>
  BY CreatesLeaveTheRest
<1>4. ASSUME item' = 1, applied' = applied \cup {<<index, 0>>}, UNCHANGED <<report, index, entries>>
      PROVE  LoopInv'
  <2>1. \A i \in Nat : <<i, 0>> \in sent' => i = index \/ <<i, 0>> \in sent
    BY <1>1
  <2>2. \A k \in 1 .. item' - 1 : <<index, k>> \in applied' \cup warned'
    BY <1>4
  <2>3. item' \in Nat \ {0} /\ item' <= call.items[index] + 1
    BY <1>2, <1>4
  <2>4. /\ sent \subseteq sent' /\ applied \subseteq applied' /\ warned \subseteq warned'
        /\ <<index, 0>> \in sent' /\ <<index, 0>> \in applied'
    BY <1>1, <1>4
  <2> QED
    BY <1>1, <1>2, <1>3, <1>4, <2>1, <2>2, <2>3, <2>4, CreatingGoesOn
<1>5. ASSUME applied' \in {applied, applied \cup {<<index, 0>>}}, Push("failed"), UNCHANGED item
      PROVE  LoopInv'
  <2>1. "failed" \in Results /\ "failed" \notin Untouched
    BY DEF Results, Untouched
  <2>2. /\ sent \subseteq sent' /\ applied \subseteq applied' /\ warned \subseteq warned' /\ item' = 0
        /\ sent' \subseteq sent \cup {RequestOf(index)} /\ RequestOf(index) \in sent'
    BY <1>1, <1>2, <1>5
  <2> QED
    BY <1>2, <1>3, <1>5, <2>1, <2>2, PushIsSound DEF WriteInv
<1>6. LoopInv'
  BY <1>4, <1>5 DEF CreateTask
<1> QED
  BY <1>3, <1>6 DEF WriteInv

\* An item of its checklist is created, or warned of.
LEMMA CreateItemIsSound == ASSUME WriteInv, CreateChecklistItem PROVE WriteInv'
<1>1. /\ item > 0 /\ item <= call.items[index] /\ item' = item + 1 /\ UNCHANGED <<index, report>>
      /\ sent' \in {sent, sent \cup {<<index, item>>}}
      /\ applied \subseteq applied' /\ warned \subseteq warned' /\ <<index, item>> \in applied' \cup warned'
  BY DEF CreateChecklistItem
<1>2. /\ call # NoCall /\ at = "write" /\ call.tool = "create" /\ index \in DOMAIN call.ids
      /\ call.items[index] \in Nat /\ item \in Nat
  BY <1>1, CreatingIsTyped
<1>3. /\ WorldInv' /\ CallInv' /\ SyncInv' /\ HeldGrows /\ UNCHANGED <<call, at, lists>>
  BY CreatesLeaveTheRest
<1>4. /\ <<index, 0>> \in sent /\ <<index, 0>> \in applied
      /\ \A k \in 1 .. item - 1 : <<index, k>> \in applied \cup warned
  BY <1>1, <1>2 DEF WriteInv, LoopInv, RequestOf
<1>5. \A k \in 1 .. item' - 1 : <<index, k>> \in applied' \cup warned'
  <2> SUFFICES ASSUME NEW k \in 1 .. item' - 1 PROVE <<index, k>> \in applied' \cup warned'
    OBVIOUS
  <2>1. k = item \/ k \in 1 .. item - 1
    BY <1>1, <1>2
  <2> QED
    BY <1>1, <1>4, <2>1
<1>6. \A i \in Nat : <<i, 0>> \in sent' => i = index \/ <<i, 0>> \in sent
  BY <1>1, <1>2
<1>7. item' \in Nat \ {0} /\ item' <= call.items[index] + 1 /\ sent \subseteq sent'
  BY <1>1, <1>2
<1>8. LoopInv'
  BY <1>1, <1>2, <1>3, <1>4, <1>5, <1>6, <1>7, CreatingGoesOn
<1> QED
  BY <1>3, <1>8 DEF WriteInv

\* The task and its checklist are done.
LEMMA CreatedIsSound == ASSUME WriteInv, TaskCreated PROVE WriteInv'
<1>1. /\ item > 0 /\ item = call.items[index] + 1 /\ item' = 0 /\ Push("done")
      /\ UNCHANGED <<warned, sent, applied>>
  BY DEF TaskCreated
<1>2. /\ call # NoCall /\ at = "write" /\ call.tool = "create" /\ index \in DOMAIN call.ids
      /\ call.items[index] \in Nat /\ RequestOf(index) = <<index, 0>>
  BY <1>1, CreatingIsTyped
<1>3. /\ WorldInv' /\ CallInv' /\ SyncInv' /\ HeldGrows /\ UNCHANGED <<call, at, lists>>
  BY CreatesLeaveTheRest
<1>4. /\ RequestOf(index) \in sent /\ RequestOf(index) \in applied
      /\ \A k \in 1 .. item - 1 : <<index, k>> \in applied \cup warned
  BY <1>1, <1>2 DEF WriteInv, LoopInv
<1>5. \A k \in 1 .. call.items[index] : <<index, k>> \in applied' \cup warned'
  BY <1>1, <1>2, <1>4
<1>6. "done" \in Results /\ "done" \notin Untouched
  BY DEF Results, Untouched
<1>7. LoopInv'
  BY <1>1, <1>2, <1>3, <1>4, <1>5, <1>6, PushIsSound DEF WriteInv
<1> QED
  BY <1>3, <1>7 DEF WriteInv

\* The report is returned, and nothing is left of the call.
LEMMA ReturnIsSound == ASSUME WriteInv, ReturnReport PROVE WriteInv'
<1>1. WorldInv'
  BY WorldStays DEF ReturnReport, WriteInv
<1>2. CallInv' /\ SyncInv'
  BY DEF ReturnReport, CallInv, SyncInv, Places
<1>3. report' \in Seq(Reports) /\ Len(report') = 0
  BY EmptySeq DEF ReturnReport
<1>4. LoopInv'
  BY <1>3 DEF ReturnReport, LoopInv
<1> QED
  BY <1>1, <1>2, <1>4 DEF WriteInv

--------------------------------------------------------------------------------
\* The server may start on any tasks, with an empty cache.
LEMMA WritesBeginSoundly == WriteInit => WriteInv
<1> SUFFICES ASSUME WriteInit PROVE WriteInv
  OBVIOUS
<1>1. WorldInv
  BY NoListEntryIsSound DEF WriteInit, WorldInv, Statuses, EntrySound
<1>2. CallInv /\ SyncInv
  BY DEF WriteInit, CallInv, SyncInv, Places
<1>3. report \in Seq(Reports) /\ Len(report) = 0
  BY EmptySeq DEF WriteInit
<1>4. LoopInv
  BY <1>3 DEF WriteInit, LoopInv
<1> QED
  BY <1>1, <1>2, <1>4 DEF WriteInv

\* Whatever anybody does keeps the invariant.
LEMMA WritesStaySound == WriteInv /\ [WriteNext]_writeVars => WriteInv'
<1>1. ASSUME WriteInv, UNCHANGED writeVars PROVE WriteInv'
  BY <1>1, WorldStays, CallStays, LoopStays DEF WriteInv, writeVars, syncVars
<1> QED
  BY <1>1, OthersChange, FillsAreSound, ExpiryIsSound, FetchIsSound, DeadlineIsSound, BeginIsSound,
     CacheResolves, CreateResolves, FreshEntriesAreSound, SyncEndIsSound, SyncFailureIsSound,
     SkipsAreSound, SendIsSound, CreateIsSound, CreateItemIsSound, CreatedIsSound, ReturnIsSound
     DEF WriteNext

\* The inductive invariant is one.
THEOREM WritesAreSound == WriteSpec => []WriteInv
BY WritesBeginSoundly, WritesStaySound, PTL DEF WriteSpec

\* At its end a call has reported on every item.
LEMMA EndedIsReported ==
  ASSUME WriteInv, Ended
  PROVE  /\ Len(report) = Len(call.ids) /\ DOMAIN report = DOMAIN call.ids
         /\ \A i \in DOMAIN call.ids : Reported(i)
<1>1. call # NoCall /\ at = "write" /\ item = 0 /\ index > Len(call.ids)
  BY DEF Ended, Done
<1>2. Len(call.ids) \in Nat /\ DOMAIN call.ids = 1 .. Len(call.ids)
  BY <1>1, CallIsTyped DEF WriteInv
<1>3. Len(report) \in Nat /\ DOMAIN report = 1 .. Len(report)
  BY LenProperties DEF WriteInv, LoopInv
<1> QED
  BY <1>1, <1>2, <1>3 DEF WriteInv, LoopInv

(***************************************************************************)
(* The loops of the tools that write: at the end of a call each item is    *)
(* reported once; as untouched just when no request was made for it; what  *)
(* is said to be done was done, with a warning for every checklist item    *)
(* that is missing.                                                        *)
(***************************************************************************)
THEOREM WritesAreAccounted == WriteSpec => []OutcomesAreAccounted
<1>1. ASSUME WriteInv PROVE OutcomesAreAccounted
  <2> SUFFICES ASSUME Ended PROVE OutcomesAreAccounted
    BY DEF OutcomesAreAccounted
  <2>1. Len(report) = Len(call.ids) /\ \A i \in DOMAIN call.ids : Reported(i)
    BY <1>1, EndedIsReported
  <2>2. ASSUME NEW i \in DOMAIN call.ids
        PROVE  (report[i].as \in Untouched) = (RequestOf(i) \notin sent)
    BY <2>1 DEF Reported
  <2> QED
    BY <2>1, <2>2 DEF OutcomesAreAccounted, Reported, RequestOf
<1> QED
  BY <1>1, WritesAreSound, PTL

(***************************************************************************)
(* todo_complete_tasks: what is reported as unchanged was so since the     *)
(* fetch of the entry it was seen in, or since the call began.             *)
(***************************************************************************)
THEOREM UnchangedIsSeldomOld == WriteSpec => []UnchangedIsRecent
<1>1. ASSUME WriteInv PROVE UnchangedIsRecent
  BY <1>1, EndedIsReported DEF UnchangedIsRecent, Reported, SaysWhatWas
<1> QED
  BY <1>1, WritesAreSound, PTL

(***************************************************************************)
(* resolve_targets: "not found" is said only of a task that was gone at    *)
(* some time, when the catalogue was whole.                                *)
(***************************************************************************)
THEOREM NotFoundIsNeverPartial == WriteSpec => []NotFoundIsSo
<1>1. ASSUME WriteInv PROVE NotFoundIsSo
  BY <1>1, EndedIsReported DEF NotFoundIsSo, Reported, SaysWhatWas
<1> QED
  BY <1>1, WritesAreSound, PTL

--------------------------------------------------------------------------------
(***************************************************************************)
(* todo_manage_checklist, for any operations, names and checklists.        *)
(***************************************************************************)
Ops      == [op : {"remove", "rename", "uncheck", "check", "add"}, key : Keys, to : Names \cup Keys \cup {"none"}]
Outcomes == {"done", "refused", "deadline", "failed"}

NoneFailed == \A n \in 1 .. Len(outcomes) : outcomes[n] # "failed"

\* Each item has an id of its own, and none has the id of an item still to add.
ServerInv ==
  /\ \A i \in server : IsItem(i)
  /\ \A i, j \in server : i.id = j.id => i = j
  /\ \A i \in server, n \in 1 .. Len(NewIds) : n > Len(outcomes) => i.id # NewIds[n]

\* As long as nothing failed and nobody else came in, the copy is the checklist.
CopyInv ==
  /\ phase \in {"idle", "running", "refused", "returned"} /\ disturbed \in Nat
  /\ todo \in Seq(Ops) /\ outcomes \in Seq(Outcomes)
  /\ Len(outcomes) + Len(todo) <= Len(NewIds)
  /\ phase \in {"idle", "refused"} => outcomes = <<>> /\ ~written
  /\ phase = "idle" => disturbed = 0
  /\ phase # "running" => todo = <<>>
  /\ phase \in {"running", "returned"} /\ disturbed = 0 /\ NoneFailed => items = server
  /\ written => touched
  /\ phase = "returned" /\ touched => ~cached

ChecklistInv == ServerInv /\ CopyInv

--------------------------------------------------------------------------------
\* The operations of a call, in their order.
LEMMA OperationsAreTyped == ASSUME NEW m \in Requests PROVE Operations(m) \in Seq(Ops)
<1> DEFINE Each(op, keys) == [i \in DOMAIN keys |-> Op(op, keys[i], "none")]
           renames == [i \in DOMAIN m.rename |-> Op("rename", m.rename[i].from, m.rename[i].to)]
<1>1. ASSUME NEW op \in {"remove", "uncheck", "check", "add"}, NEW keys \in Seq(Keys)
      PROVE  Each(op, keys) \in Seq(Ops)
  <2>1. DOMAIN keys = 1 .. Len(keys) /\ Len(keys) \in Nat /\ \A i \in 1 .. Len(keys) : keys[i] \in Keys
    BY LenProperties, ElementOfSeq
  <2>2. Each(op, keys) \in [1 .. Len(keys) -> Ops]
    BY <2>1 DEF Op, Ops
  <2> QED
    BY <2>1, <2>2, SeqDef
<1>2. renames \in Seq(Ops)
  <2>1. m.rename \in Seq([from : Keys, to : Names])
    BY RequestsAssumption
  <2>2. /\ DOMAIN m.rename = 1 .. Len(m.rename) /\ Len(m.rename) \in Nat
        /\ \A i \in 1 .. Len(m.rename) : m.rename[i] \in [from : Keys, to : Names]
    BY <2>1, LenProperties, ElementOfSeq
  <2>3. renames \in [1 .. Len(m.rename) -> Ops]
    BY <2>2 DEF Op, Ops
  <2> QED
    BY <2>2, <2>3, SeqDef
<1>3. /\ Each("remove", m.remove) \in Seq(Ops) /\ Each("uncheck", m.uncheck) \in Seq(Ops)
      /\ Each("check", m.check) \in Seq(Ops) /\ Each("add", m.add) \in Seq(Ops)
  BY <1>1, RequestsAssumption
<1>4. Operations(m) = Each("remove", m.remove) \o renames \o Each("uncheck", m.uncheck)
                      \o Each("check", m.check) \o Each("add", m.add)
  BY DEF Operations
<1> HIDE DEF Each, renames
<1>5. Each("remove", m.remove) \o renames \in Seq(Ops)
  BY <1>2, <1>3, ConcatProperties
<1>6. Each("remove", m.remove) \o renames \o Each("uncheck", m.uncheck) \in Seq(Ops)
  BY <1>3, <1>5, ConcatProperties
<1>7. Each("remove", m.remove) \o renames \o Each("uncheck", m.uncheck) \o Each("check", m.check) \in Seq(Ops)
  BY <1>3, <1>6, ConcatProperties
<1> QED
  BY <1>3, <1>4, <1>7, ConcatProperties

\* An operation is reported, and the next one is up.
LEMMA ReportGoesOn ==
  ASSUME ChecklistInv, todo # <<>>, NEW outcome \in Outcomes, ReportAs(outcome)
  PROVE  /\ todo' \in Seq(Ops) /\ outcomes' \in Seq(Outcomes) /\ Current \in Ops
         /\ Len(outcomes) \in Nat /\ Len(outcomes') = Len(outcomes) + 1
         /\ Len(outcomes') + Len(todo') <= Len(NewIds) /\ Len(outcomes') <= Len(NewIds)
         /\ NoneFailed' => NoneFailed /\ outcome # "failed"
<1>1. /\ todo \in Seq(Ops) /\ outcomes \in Seq(Outcomes) /\ Len(todo) \in Nat /\ Len(outcomes) \in Nat
      /\ Len(outcomes) + Len(todo) <= Len(NewIds) /\ Len(NewIds) \in Nat
  BY LenProperties, NewIdsAssumption DEF ChecklistInv, CopyInv
<1>2. todo' \in Seq(Ops) /\ Len(todo') = Len(todo) - 1 /\ Current \in Ops /\ Len(todo) > 0
  BY <1>1, HeadTailProperties, EmptySeq DEF ReportAs, Current
<1>3. /\ outcomes' \in Seq(Outcomes) /\ Len(outcomes') = Len(outcomes) + 1
      /\ outcomes'[Len(outcomes) + 1] = outcome
      /\ \A n \in 1 .. Len(outcomes) : outcomes'[n] = outcomes[n]
  BY <1>1, AppendProperties DEF ReportAs
<1>4. Len(todo') \in Nat
  BY <1>2, LenProperties
<1> QED
  BY <1>1, <1>2, <1>3, <1>4 DEF NoneFailed

\* The next operation, and the item it is about.
LEMMA SubjectIsTyped ==
  ASSUME ChecklistInv, NEW i \in Subjects
  PROVE  /\ todo # <<>> /\ Current \in Ops
         /\ IF Current.op = "add" THEN i = NewItem ELSE i \in items
<1>1. todo # <<>>
  BY DEF Subjects
<1>2. todo \in Seq(Ops)
  BY DEF ChecklistInv, CopyInv
<1>3. Current \in Ops
  BY <1>1, <1>2, HeadTailProperties DEF Current
<1>4. Found(Current.key) \subseteq items
  BY DEF Found
<1> QED
  BY <1>1, <1>3, <1>4 DEF Subjects

\* What an operation makes of an item is at most one item, of the same id.
LEMMA ChangedKeepsId ==
  ASSUME Current \in Ops, NEW s, IsItem(s)
  PROVE  /\ \A c \in Changed(s) : IsItem(c) /\ c.id = s.id
         /\ \A c, d \in Changed(s) : c = d
<1>1. /\ IsItem([s EXCEPT !.name = Current.to]) /\ [s EXCEPT !.name = Current.to].id = s.id
      /\ \A b \in BOOLEAN : IsItem([s EXCEPT !.checked = b]) /\ [s EXCEPT !.checked = b].id = s.id
  BY DEF IsItem
<1>2. Current.op \in {"remove", "rename", "uncheck", "check", "add"}
  BY DEF Ops
<1> HIDE DEF IsItem
<1> QED
  BY <1>1, <1>2 DEF Changed

\* The item as the server has it: none, or one.
LEMMA AtServerIsOne ==
  ASSUME ChecklistInv, NEW i \in Subjects, Len(outcomes) + 1 <= Len(NewIds)
  PROVE  /\ \A s \in AtServer(i) : IsItem(s) /\ s.id = i.id
         /\ \A s, t \in AtServer(i) : s = t
         /\ \A s \in server \ AtServer(i) : s.id # i.id
         /\ \A s \in AtServer(i) : s \in server \/ (Current.op = "add" /\ s.id = NewIds[Len(outcomes) + 1])
<1>1. CASE Current.op = "add"
  <2>1. i = NewItem
    BY <1>1, SubjectIsTyped
  <2>2. IsItem(i) /\ i.id = NewIds[Len(outcomes) + 1]
    BY <2>1 DEF NewItem, IsItem
  <2>3. Len(outcomes) + 1 \in 1 .. Len(NewIds) /\ Len(outcomes) + 1 > Len(outcomes)
    BY LenProperties, NewIdsAssumption DEF ChecklistInv, CopyInv
  <2>4. \A s \in server : s.id # i.id
    BY <2>2, <2>3 DEF ChecklistInv, ServerInv
  <2> QED
    BY <1>1, <2>2, <2>4 DEF AtServer
<1>2. CASE Current.op # "add"
  BY <1>2 DEF AtServer, ChecklistInv, ServerInv
<1> QED
  BY <1>1, <1>2

\* Carried out, an operation leaves each item an id of its own.
LEMMA ApplyKeepsIds ==
  ASSUME ChecklistInv, Current \in Ops, NEW i \in Subjects, Apply(i), Len(outcomes) \in Nat,
         Len(outcomes) + 1 <= Len(NewIds), Len(outcomes') = Len(outcomes) + 1
  PROVE  ServerInv'
<1> DEFINE new == UNION {Changed(s) : s \in AtServer(i)}
<1>1. server' = (server \ AtServer(i)) \cup new
  BY DEF Apply
<1>2. \A c \in new : IsItem(c) /\ c.id = i.id /\ \A d \in new : c = d
  <2> SUFFICES ASSUME NEW s \in AtServer(i), NEW c \in Changed(s), NEW t \in AtServer(i), NEW d \in Changed(t)
               PROVE  IsItem(c) /\ c.id = i.id /\ c = d
    OBVIOUS
  <2>1. IsItem(s) /\ s.id = i.id /\ s = t
    BY AtServerIsOne
  <2> QED
    BY <2>1, ChangedKeepsId
<1>3. \A s \in server \ AtServer(i) : s.id # i.id /\ IsItem(s)
  BY AtServerIsOne DEF ChecklistInv, ServerInv
<1>4. ASSUME NEW c \in new, NEW n \in 1 .. Len(NewIds), n > Len(outcomes) + 1 PROVE c.id # NewIds[n]
  <2>1. PICK s \in AtServer(i) : c \in Changed(s)
    OBVIOUS
  <2>2. c.id = s.id /\ (s \in server \/ s.id = NewIds[Len(outcomes) + 1])
    BY <1>2, <2>1, AtServerIsOne
  <2>3. Len(outcomes) + 1 \in 1 .. Len(NewIds) /\ n > Len(outcomes) /\ n # Len(outcomes) + 1
    BY <1>4, NewIdsAssumption
  <2>4. s \in server => s.id # NewIds[n]
    BY <2>3 DEF ChecklistInv, ServerInv
  <2> QED
    BY <2>2, <2>3, <2>4, NewIdsAssumption
<1>5. ASSUME NEW s \in server, NEW n \in 1 .. Len(NewIds), n > Len(outcomes) + 1 PROVE s.id # NewIds[n]
  BY <1>5, NewIdsAssumption DEF ChecklistInv, ServerInv
<1> HIDE DEF new
<1>6. \A s \in server' : IsItem(s)
  BY <1>1, <1>2, <1>3
<1>7. \A s, t \in server' : s.id = t.id => s = t
  BY <1>1, <1>2, <1>3 DEF ChecklistInv, ServerInv
<1>8. \A s \in server', n \in 1 .. Len(NewIds) : n > Len(outcomes') => s.id # NewIds[n]
  BY <1>1, <1>4, <1>5
<1> QED
  BY <1>6, <1>7, <1>8 DEF ServerInv

\* One more report does not endanger the ids.
LEMMA IdsStay ==
  ASSUME ChecklistInv, UNCHANGED server, Len(outcomes) \in Nat, Len(outcomes') = Len(outcomes) + 1
  PROVE  ServerInv'
BY NewIdsAssumption DEF ChecklistInv, ServerInv, IsItem

--------------------------------------------------------------------------------
LEMMA ManageKeepsChecklist == ASSUME ChecklistInv, NEW m \in Requests, Manage(m) PROVE ChecklistInv'
<1>1. /\ phase = "idle" /\ outcomes = <<>> /\ disturbed = 0 /\ ~written
      /\ UNCHANGED <<server, outcomes, touched, cached, written, disturbed>>
  BY DEF Manage, ChecklistInv, CopyInv
<1>2. ServerInv'
  BY <1>1 DEF ChecklistInv, ServerInv, IsItem
<1>3. CASE phase' = "refused" /\ UNCHANGED <<todo, items>>
  BY <1>1, <1>2, <1>3 DEF ChecklistInv, CopyInv
<1>4. CASE phase' = "running" /\ todo' = Operations(m) /\ items' = server
  <2>1. todo' \in Seq(Ops) /\ Len(todo') <= Len(NewIds) /\ Len(todo') \in Nat
    BY <1>4, OperationsAreTyped, NewIdsAssumption, LenProperties
  <2> QED
    BY <1>1, <1>2, <1>4, <2>1, EmptySeq DEF ChecklistInv, CopyInv
<1> QED
  BY <1>3, <1>4 DEF Manage

LEMMA DisturbKeepsChecklist == ASSUME ChecklistInv, Disturb PROVE ChecklistInv'
<1>1. /\ phase = "running" /\ disturbed' = disturbed + 1
      /\ UNCHANGED <<phase, todo, outcomes, items, touched, cached, written>>
  BY DEF Disturb, progressVars
<1>2. PICK i \in server :
        \/ server' = server \ {i}
        \/ server' = (server \ {i}) \cup {[i EXCEPT !.checked = ~i.checked]}
        \/ \E n \in Names : server' = (server \ {i}) \cup {[i EXCEPT !.name = n]}
  BY DEF Disturb
<1> DEFINE new == server' \ (server \ {i})
<1>3. /\ server' = (server \ {i}) \cup new
      /\ \A c \in new : IsItem(c) /\ c.id = i.id /\ \A d \in new : c = d
  <2>1. IsItem(i)
    BY DEF ChecklistInv, ServerInv
  <2>2. \A b : IsItem([i EXCEPT !.checked = b]) /\ [i EXCEPT !.checked = b].id = i.id
    BY <2>1 DEF IsItem
  <2>3. \A n : IsItem([i EXCEPT !.name = n]) /\ [i EXCEPT !.name = n].id = i.id
    BY <2>1 DEF IsItem
  <2> QED
    BY <1>2, <2>2, <2>3
<1> HIDE DEF new
<1>4. ServerInv'
  <2>1. \A s \in server \ {i} : s.id # i.id
    BY DEF ChecklistInv, ServerInv
  <2>2. \A s \in server' : IsItem(s)
    BY <1>3 DEF ChecklistInv, ServerInv
  <2>3. \A s, t \in server' : s.id = t.id => s = t
    BY <1>3, <2>1 DEF ChecklistInv, ServerInv
  <2>4. \A s \in server', n \in 1 .. Len(NewIds) : n > Len(outcomes) => s.id # NewIds[n]
    BY <1>3 DEF ChecklistInv, ServerInv
  <2> QED
    BY <1>1, <2>2, <2>3, <2>4 DEF ServerInv
<1>5. disturbed' \in Nat /\ disturbed' # 0
  BY <1>1 DEF ChecklistInv, CopyInv
<1> QED
  BY <1>1, <1>4, <1>5 DEF ChecklistInv, CopyInv

\* An operation for which nothing is sent.
LEMMA QuietKeepsChecklist ==
  ASSUME ChecklistInv, phase = "running", todo # <<>>, Quietly,
         NEW outcome \in Outcomes \ {"failed"}, ReportAs(outcome)
  PROVE  ChecklistInv'
<1>1. UNCHANGED <<phase, server, items, touched, cached, written, disturbed>>
  BY DEF Quietly
<1>2. /\ todo' \in Seq(Ops) /\ outcomes' \in Seq(Outcomes)
      /\ Len(outcomes) \in Nat /\ Len(outcomes') = Len(outcomes) + 1
      /\ Len(outcomes') + Len(todo') <= Len(NewIds) /\ (NoneFailed' => NoneFailed)
  BY ReportGoesOn
<1>3. ServerInv'
  BY <1>1, <1>2, IdsStay
<1> QED
  BY <1>1, <1>2, <1>3 DEF ChecklistInv, CopyInv

\* An operation that is carried out does to the copy what it does to the server.
LEMMA AnsweredKeepsChecklist == ASSUME ChecklistInv, SendAnswered, phase = "running" PROVE ChecklistInv'
<1>1. /\ touched' = TRUE /\ written' = TRUE /\ ReportAs("done") /\ UNCHANGED <<phase, cached, disturbed>>
  BY DEF SendAnswered
<1>2. PICK i \in Subjects : Apply(i) /\ TakeOver(i)
  BY DEF SendAnswered
<1>3. todo # <<>> /\ Current \in Ops
  BY SubjectIsTyped
<1>4. /\ todo' \in Seq(Ops) /\ outcomes' \in Seq(Outcomes)
      /\ Len(outcomes) \in Nat /\ Len(outcomes') = Len(outcomes) + 1 /\ Len(outcomes') <= Len(NewIds)
      /\ Len(outcomes') + Len(todo') <= Len(NewIds) /\ (NoneFailed' => NoneFailed)
  BY <1>1, <1>3, ReportGoesOn DEF Outcomes
<1>5. ServerInv'
  BY <1>2, <1>3, <1>4, ApplyKeepsIds
<1>6. ASSUME items = server PROVE items' = server'
  <2>1. server \ AtServer(i) = server \ {i}
    <3>1. CASE Current.op = "add"
      BY <3>1 DEF AtServer
    <3>2. CASE Current.op # "add"
      <4>1. i \in server
        BY <1>6, <3>2, SubjectIsTyped
      <4> QED
        BY <3>2, <4>1 DEF AtServer, ChecklistInv, ServerInv
    <3> QED
      BY <3>1, <3>2
  <2> QED
    BY <1>2, <1>6, <2>1 DEF Apply, TakeOver
<1> QED
  BY <1>1, <1>4, <1>5, <1>6 DEF ChecklistInv, CopyInv

LEMMA FailedKeepsChecklist == ASSUME ChecklistInv, SendFailed, phase = "running" PROVE ChecklistInv'
<1>1. touched' = TRUE /\ ReportAs("failed") /\ UNCHANGED <<phase, items, cached, disturbed>>
  BY DEF SendFailed
<1>2. PICK i \in Subjects : UNCHANGED <<server, written>> \/ Apply(i)
  BY DEF SendFailed
<1>3. todo # <<>> /\ Current \in Ops
  BY SubjectIsTyped
<1>4. /\ todo' \in Seq(Ops) /\ outcomes' \in Seq(Outcomes)
      /\ Len(outcomes) \in Nat /\ Len(outcomes') = Len(outcomes) + 1 /\ Len(outcomes') <= Len(NewIds)
      /\ Len(outcomes') + Len(todo') <= Len(NewIds) /\ ~NoneFailed'
  BY <1>1, <1>3, ReportGoesOn DEF Outcomes
<1>5. ServerInv'
  BY <1>2, <1>3, <1>4, ApplyKeepsIds, IdsStay
<1> QED
  BY <1>1, <1>4, <1>5 DEF ChecklistInv, CopyInv

LEMMA ChecklistStep == ChecklistInv /\ [ChecklistNext]_checklistVars => ChecklistInv'
<1> SUFFICES ASSUME ChecklistInv, [ChecklistNext]_checklistVars PROVE ChecklistInv'
  OBVIOUS
<1>1. todo # <<>> => phase = "running"
  BY DEF ChecklistInv, CopyInv
<1>2. \A i \in Subjects : todo # <<>>
  BY SubjectIsTyped
<1>3. CASE RefuseOperation \/ NothingToSend \/ TooLateToSend
  <2>1. PICK outcome \in Outcomes \ {"failed"} : ReportAs(outcome)
    BY <1>3 DEF RefuseOperation, NothingToSend, TooLateToSend, Outcomes
  <2>2. todo # <<>> /\ Quietly
    BY <1>2, <1>3 DEF RefuseOperation, NothingToSend, TooLateToSend
  <2> QED
    BY <1>1, <2>1, <2>2, QuietKeepsChecklist
<1>4. CASE SendAnswered \/ SendFailed
  <2>1. phase = "running"
    BY <1>1, <1>2, <1>4 DEF SendAnswered, SendFailed
  <2> QED
    BY <1>4, <2>1, AnsweredKeepsChecklist, FailedKeepsChecklist
<1>5. CASE ReturnChecklist
  <2>1. /\ phase = "running" /\ phase' = "returned" /\ cached' = (cached /\ ~touched) /\ todo = <<>>
        /\ UNCHANGED <<server, todo, outcomes, items, touched, written, disturbed>>
    BY <1>5 DEF ReturnChecklist, progressVars
  <2>2. ServerInv' /\ (NoneFailed' <=> NoneFailed)
    BY <2>1 DEF ChecklistInv, ServerInv, IsItem, NoneFailed
  <2>3. ~(touched' /\ cached')
    BY <2>1
  <2> QED
    BY <2>1, <2>2, <2>3 DEF ChecklistInv, CopyInv
<1>6. CASE ChecklistDeadline \/ UNCHANGED checklistVars
  <2>1. UNCHANGED <<phase, server, todo, outcomes, items, touched, cached, written, disturbed>>
    BY <1>6 DEF ChecklistDeadline, checklistVars, progressVars
  <2>2. ServerInv' /\ (NoneFailed' <=> NoneFailed)
    BY <2>1 DEF ChecklistInv, ServerInv, IsItem, NoneFailed
  <2> QED
    BY <2>1, <2>2 DEF ChecklistInv, CopyInv
<1>7. CASE Forget
  <2>1. /\ phase' = "idle" /\ server' \in Checklists /\ todo' = <<>> /\ outcomes' = <<>>
        /\ touched' = FALSE /\ written' = FALSE /\ disturbed' = 0
    BY <1>7 DEF Forget
  <2>2. ServerInv'
    BY <2>1, ChecklistsAssumption, NewIdsAssumption DEF ServerInv, IsItem
  <2> QED
    BY <2>1, <2>2, EmptySeq, NewIdsAssumption DEF ChecklistInv, CopyInv
<1> QED
  BY <1>3, <1>4, <1>5, <1>6, <1>7, ManageKeepsChecklist, DisturbKeepsChecklist DEF ChecklistNext

(***************************************************************************)
(* checklist_after is the server's checklist, for any calls and any        *)
(* changes of others (write.rs todo_manage_checklist).                     *)
(***************************************************************************)
THEOREM ChecklistAfterIsRight == ChecklistSpec => []ChecklistAfterIsTheServers
<1>1. ChecklistInit => ChecklistInv
  <2> SUFFICES ASSUME ChecklistInit PROVE ChecklistInv
    OBVIOUS
  <2>1. /\ phase = "idle" /\ server \in Checklists /\ todo = <<>> /\ outcomes = <<>>
        /\ touched = FALSE /\ written = FALSE /\ disturbed = 0
    BY DEF ChecklistInit
  <2>2. ServerInv
    BY <2>1, ChecklistsAssumption, NewIdsAssumption DEF ServerInv
  <2> QED
    BY <2>1, <2>2, EmptySeq, NewIdsAssumption DEF ChecklistInv, CopyInv
<1>2. ChecklistInv => ChecklistAfterIsTheServers
  <2> SUFFICES ASSUME ChecklistInv, phase = "returned" 
               PROVE  /\ disturbed = 0 /\ "failed" \notin {outcomes[n] : n \in DOMAIN outcomes} => items = server
                      /\ written => ~cached
    BY DEF ChecklistAfterIsTheServers
  <2>1. DOMAIN outcomes = 1 .. Len(outcomes)
    BY LenProperties DEF ChecklistInv, CopyInv
  <2>2. "failed" \notin {outcomes[n] : n \in DOMAIN outcomes} => NoneFailed
    BY <2>1 DEF NoneFailed
  <2> QED
    BY <2>2 DEF ChecklistInv, CopyInv
<1> QED
  BY <1>1, <1>2, ChecklistStep, PTL DEF ChecklistSpec
================================================================================
