-------------------------------- MODULE MCTools --------------------------------
(***************************************************************************)
(* Six components for TLC, side by side in one run: each is checked from   *)
(* all of its initial states while the others stay in one of theirs. They  *)
(* are the search and its cursor, the tools that write tasks, the one that *)
(* writes a checklist, the dates, the names of lists, and the bodies.      *)
(***************************************************************************)
EXTENDS SearchCursor, WriteTools, Checklist, DueDates, ListNames, Bodies

--------------------------------------------------------------------------------
MCHome == [t \in Task |-> IF t = "t1" THEN "l1" ELSE "flagged"]

ToDo(tool, ids, list, wanted) ==
  [tool |-> tool, ids |-> ids, list |-> list, confirm |-> TRUE, wanted |-> wanted, items |-> <<>>]

\* Of two lists at once, with the right list and a wrong one, one task named
\* in the list of the other, unconfirmed, and a create with one checklist.
MCCalls ==
  {ToDo("complete", <<"t1", "t2">>, "none", "completed"),
   ToDo("complete", <<"t1">>, "l1", "open"),
   ToDo("update", <<"t1">>, "other", "open"),
   ToDo("delete", <<"t2", "t1">>, "none", "gone"),
   ToDo("delete", <<"t2">>, "l1", "gone"),
   [ToDo("delete", <<"t1">>, "none", "gone") EXCEPT !.confirm = FALSE],
   [ToDo("create", <<"new", "new">>, "l1", "open") EXCEPT !.items = <<1, 0>>]}

--------------------------------------------------------------------------------
NoOps == [remove |-> <<>>, rename |-> <<>>, uncheck |-> <<>>, check |-> <<>>, add |-> <<>>,
          confirm |-> TRUE]
Key   == {"milk", "eggs", "i1"}

\* Operations on an item by name and by id, on one that an operation before
\* renamed, removed or added, and twice on one.
MCRequests ==
  {[NoOps EXCEPT !.remove = <<"milk">>, !.confirm = FALSE]}
  \cup {[NoOps EXCEPT !.remove = <<k>>, !.check = <<c, "i2">>, !.add = <<"milk", "blank">>] :
          k \in Key, c \in Key}
  \cup {[NoOps EXCEPT !.rename = <<[from |-> k, to |-> t]>>, !.uncheck = <<u>>, !.remove = r] :
          k \in Key, t \in {"milk", "eggs"}, u \in Key, r \in {<<>>, <<"eggs", "milk">>}}

Milk == [id |-> "i1", name |-> "milk", checked |-> TRUE]
MCNewIds == <<"n1", "n2", "n3", "n4", "n5", "n6">>
MCChecklists == {{}, {Milk}, {Milk, [id |-> "i2", name |-> "eggs", checked |-> FALSE]}}

--------------------------------------------------------------------------------
Zone(before, after, at_) == [before |-> before, after |-> after, at |-> at_]

\* UTC; a spring midnight that is left out (Santiago), an autumn one that
\* comes twice (Havana); three quarters of an hour (Kathmandu); a day that is
\* left out (Samoa); and clocks that change an hour before midnight.
MCZones == {Zone(0, 0, 0), Zone(-16, -12, 208), Zone(-16, -20, 212), Zone(23, 23, 0),
            Zone(-40, 56, 232), Zone(4, 8, 186), Zone(8, 4, 190)}

--------------------------------------------------------------------------------
MCFolded == [l \in Letters |-> IF l = "A" THEN "a" ELSE l]

\* Names that begin, end or are another one, and one written twice.
MCNames == {<<"a", "b">>, <<"A">>, <<"A", "b", "a">>, <<"b", "a", " ", "a">>, <<"b">>,
            <<"b", "A", "b">>, <<"a", "b", " ", "b">>, <<"a", "b", "b">>}

\* The first list has an id that might be a name.
MCCatalogues ==
  {<<[id |-> <<"b", "b">>, name |-> a], [id |-> <<"i2">>, name |-> b], [id |-> <<"i3">>, name |-> c]>> :
     a \in MCNames, b \in MCNames, c \in MCNames}

--------------------------------------------------------------------------------
CursorStart    == CursorInit /\ matching = Tasks
WriteStart     == WriteInit /\ status = [t \in Task |-> "open"]
ChecklistStart == ChecklistInit /\ server = {}

CursorIdle    == CursorStart    /\ UNCHANGED cursorVars
WriteIdle     == WriteStart     /\ UNCHANGED writeVars
ChecklistIdle == ChecklistStart /\ UNCHANGED checklistVars
DateIdle      == DateInit       /\ UNCHANGED dateCase
NameIdle      == NameInit       /\ UNCHANGED nameVars
BodyIdle      == BodyInit       /\ UNCHANGED bodyVars

ToolsInit ==
  /\ \/ CursorInit  /\ WriteStart /\ ChecklistStart
     \/ CursorStart /\ WriteInit  /\ ChecklistStart
     \/ CursorStart /\ WriteStart /\ ChecklistInit
  /\ DateInit /\ NameInit /\ BodyInit

ToolsNext ==
  \/ WriteIdle /\ ChecklistIdle /\ DateIdle /\ NameIdle /\ BodyIdle /\ CursorNext
  \/ CursorIdle /\ ChecklistIdle /\ DateIdle /\ NameIdle /\ BodyIdle /\ WriteNext
  \/ CursorIdle /\ WriteIdle /\ DateIdle /\ NameIdle /\ BodyIdle /\ ChecklistNext
  \/ CursorIdle /\ WriteIdle /\ ChecklistIdle /\ NameIdle /\ BodyIdle /\ DateNext
  \/ CursorIdle /\ WriteIdle /\ ChecklistIdle /\ DateIdle /\ BodyIdle /\ NameNext
  \/ CursorIdle /\ WriteIdle /\ ChecklistIdle /\ DateIdle /\ NameIdle /\ BodyNext

ToolsVars == <<cursorVars, writeVars, checklistVars, dateCase, nameVars, bodyVars>>

ToolsSpec == ToolsInit /\ [][ToolsNext]_ToolsVars
================================================================================
