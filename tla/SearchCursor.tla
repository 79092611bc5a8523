------------------------------ MODULE SearchCursor ------------------------------
(***************************************************************************)
(* todo_search_tasks and its cursor (tools/read.rs, tools/cursor.rs) over  *)
(* one entry of the cache (cache.rs): a client walks the pages of a search *)
(* while tasks come and go. The pages hold what matched, in its order: a   *)
(* task is a number and the sort is by number.                             *)
(*                                                                         *)
(* A search is two steps: gather, which reads the tasks, and the rest,     *)
(* which reads the mailbox label and the generation afterwards and then    *)
(* checks the cursor. Other calls run between the two.                     *)
(*                                                                         *)
(* The clock counts units of 300 s: a cursor lives for CursorTtl of them.  *)
(***************************************************************************)
EXTENDS Integers, Sequences, FiniteSets

CONSTANTS
  Tasks,         \* a set of numbers
  Limits,        \* the page sizes a client asks for
  CursorTtl,     \* CURSOR_TTL_SECONDS
  MaxClock, MaxMoves, MaxWrites    \* bounds

ASSUME TasksAssumption == IsFiniteSet(Tasks) /\ Tasks \subseteq Int
ASSUME LimitsAssumption == Limits \subseteq Nat

VARIABLES
  matching,      \* the tasks that match, at the server
  entry,         \* [tasks, complete] as cached, or NoEntry
  generation, mailbox,
  now,
  moves, writes, \* how many there have been
  search,        \* the search in flight, [cursor, limit, got], or NoSearch
  answer,        \* the last answer, [kind, page, cursor]
  walked,        \* history: the tasks of the walk's pages so far
  began,         \* history: what matched when the walk began
  excused        \* history: whether something no cursor can tell of came between

cursorVars == <<matching, entry, generation, mailbox, now, moves, writes, search, answer,
                walked, began, excused>>

cacheVars == <<entry, generation, mailbox>>

NoEntry  == [none |-> TRUE]
NoCursor == [o |-> 0, a |-> "none", t |-> 0, g |-> 0]
NoSearch == [limit |-> 0]
NoAnswer == [kind |-> "none", page |-> <<>>, cursor |-> NoCursor]

SmallerOf(m, n) == IF m < n THEN m ELSE n

\* The i-th of them is the one that i - 1 come before.
Sorted(tasks) ==
  [i \in 1 .. Cardinality(tasks) |->
     CHOOSE task \in tasks : Cardinality({other \in tasks : other < task}) = i - 1]

--------------------------------------------------------------------------------
(***************************************************************************)
(* The world: other clients, this server's own writes, time, a restart.    *)
(***************************************************************************)
\* A task comes, goes, or stops matching: by another client, or at midnight
\* under a due filter that is relative to today.
Move ==
  /\ moves < MaxMoves /\ moves' = moves + 1
  /\ \E task \in Tasks : matching' = (matching \ {task}) \cup ({task} \ matching)
  /\ excused' = TRUE
  /\ UNCHANGED <<cacheVars, now, writes, search, answer, walked, began>>

\* invalidate_list, after a mutation of this server that has been carried out.
InvalidateList ==
  /\ writes < MaxWrites /\ writes' = writes + 1
  /\ \E task \in Tasks : matching' = (matching \ {task}) \cup ({task} \ matching)
  /\ entry' = NoEntry /\ generation' = generation + 1
  /\ excused' = (excused \/ search # NoSearch)
  /\ UNCHANGED <<mailbox, now, moves, search, answer, walked, began>>

\* The entry's time is up: nothing else is told of it.
Expire ==
  /\ entry # NoEntry /\ entry' = NoEntry
  /\ UNCHANGED <<matching, generation, mailbox, now, moves, writes, search, answer, walked, began, excused>>

Tick ==
  /\ now < MaxClock /\ now' = now + 1
  /\ UNCHANGED <<cacheVars, matching, moves, writes, search, answer, walked, began, excused>>

\* Cache::new: a new process, and no search is in flight in it.
Restart ==
  /\ search = NoSearch
  /\ mailbox # "pending"
  /\ entry' = NoEntry /\ generation' = 1 /\ mailbox' = "pending"
  /\ excused' = TRUE
  /\ UNCHANGED <<matching, now, moves, writes, search, answer, walked, began>>

--------------------------------------------------------------------------------
(***************************************************************************)
(* gather: from the cache, or from Graph, which may be cut short and then  *)
(* has a part of the tasks. put_catalogue settles the label first, which   *)
(* resets the cache of a new process once more.                            *)
(***************************************************************************)
Gather(cursor, limit) ==
  /\ search = NoSearch
  /\ IF mailbox = "pending" THEN mailbox' = "mbx" /\ generation' = generation + 1
     ELSE UNCHANGED <<mailbox, generation>>
  /\ \E got \in IF entry # NoEntry THEN {entry}
                ELSE {[tasks |-> matching, complete |-> TRUE]} \cup
                     {[tasks |-> matching \ {task}, complete |-> FALSE] : task \in matching} :
       /\ entry' = got
       /\ search' = [cursor |-> cursor, limit |-> limit, got |-> got]
       /\ excused' = ((cursor # NoCursor /\ excused) \/ got # [tasks |-> matching, complete |-> TRUE])
  /\ UNCHANGED <<matching, now, moves, writes, answer>>

\* A search without a cursor begins a walk.
NewSearch(limit) ==
  /\ Gather(NoCursor, limit)
  /\ walked' = <<>> /\ began' = search'.got.tasks

\* The cursor of the last page, with a limit that may be another.
ContinueSearch(limit) ==
  /\ answer.cursor # NoCursor
  /\ Gather(answer.cursor, limit)
  /\ UNCHANGED <<walked, began>>

\* cursor::validate. Its check of the arguments cannot fail: they come from
\* the cursor itself.
Validate(c) ==
  IF c.a # mailbox              THEN "account"
  ELSE IF now - c.t > CursorTtl THEN "expired"
  ELSE IF c.g # generation      THEN "stale"
  ELSE "valid"

\* make_cursor: nothing when the page reaches the end.
MakeCursor(offset, n, total) ==
  IF offset + n >= total THEN NoCursor
  ELSE [o |-> offset + n, a |-> mailbox, t |-> now, g |-> generation]

\* Wrong: a page that is cut for its size keeps the cursor of the whole one.
CursorOfWholePage(offset, page, total, keep) == MakeCursor(offset, page, total)

\* The page, and the ladder of render::finish: halved, down to one task, as
\* often as it takes; the cursor is made again each time.
CursorOfPage(offset, page, total, keep) == MakeCursor(offset, keep, total)

Halvings(n) == {n} \cup {keep \in 1 .. n : \E k \in 1 .. n : keep = n \div 2^k}

Refuse(kind) ==
  /\ answer' = [kind |-> kind, page |-> <<>>, cursor |-> NoCursor]
  /\ UNCHANGED walked

RefuseCursor ==
  /\ search # NoSearch /\ search.cursor # NoCursor
  /\ Validate(search.cursor) # "valid"
  /\ Refuse(Validate(search.cursor))
  /\ search' = NoSearch
  /\ UNCHANGED <<cacheVars, matching, now, moves, writes, began, excused>>

ReturnPage ==
  /\ search # NoSearch
  /\ search.cursor = NoCursor \/ Validate(search.cursor) = "valid"
  /\ LET scored == Sorted(search.got.tasks)
         offset == search.cursor.o
         whole  == SubSeq(scored, offset + 1, SmallerOf(offset + search.limit, Len(scored)))
     IN  \/ \E keep \in Halvings(Len(whole)) :
              /\ answer' = [kind |-> "page", page |-> SubSeq(whole, 1, keep),
                            cursor |-> CursorOfPage(offset, Len(whole), Len(scored), keep)]
              /\ walked' = walked \o answer'.page
         \/ offset < Len(scored) /\ Refuse("tooLarge")
  /\ search' = NoSearch
  /\ UNCHANGED <<cacheVars, matching, now, moves, writes, began, excused>>

--------------------------------------------------------------------------------
CursorInit ==
  /\ matching \in SUBSET Tasks
  /\ entry = NoEntry /\ generation = 1 /\ mailbox = "pending"
  /\ now = 0 /\ moves = 0 /\ writes = 0
  /\ search = NoSearch /\ answer = NoAnswer
  /\ walked = <<>> /\ began = {} /\ excused = FALSE

CursorNext ==
  \/ Move \/ InvalidateList \/ Expire \/ Tick \/ Restart
  \/ \E limit \in Limits : NewSearch(limit) \/ ContinueSearch(limit)
  \/ RefuseCursor \/ ReturnPage

CursorSpec == CursorInit /\ [][CursorNext]_cursorVars

--------------------------------------------------------------------------------
(***************************************************************************)
(* Pages meet: a walk that reaches its end has shown every task that       *)
(* matched when it began, once each and in order, whatever its limits, and *)
(* however often a page was cut for its size or the cache was refilled     *)
(* between two pages. This server's own writes are no excuse, unless one   *)
(* came while a page was being made, which then carries the generation of  *)
(* after the write with the tasks of before it; other clients, a gather    *)
(* cut short, an entry that was old already and a restart are (cursor.rs   *)
(* REFUSE_STALE, read.rs make_cursor).                                     *)
(***************************************************************************)
PagesMeet ==
  answer.kind = "page" /\ answer.cursor = NoCursor /\ search = NoSearch /\ ~excused =>
    walked = Sorted(began)
================================================================================
