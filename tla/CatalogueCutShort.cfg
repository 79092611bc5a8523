SPECIFICATION ToolsSpec
CONSTANTS
  \* SearchCursor
  Tasks = {1}
  Limits = {1}
  CursorTtl = 1
  MaxClock = 1
  MaxMoves = 0
  MaxWrites = 0
  \* WriteTools
  Task = {"t1", "t2"}
  List = {"l1", "flagged"}
  Home <- MCHome
  Flagged = {"flagged"}
  Calls <- MCCalls
  Cap = 2
  MaxChanges = 0
  \* Checklist
  Requests <- MCRequests
  Checklists <- MCChecklists
  Names = {"milk", "eggs"}
  Keys = {"milk", "eggs", "i1", "i2", "blank"}
  NewIds <- MCNewIds
  MaxDisturbed = 0
  \* DueDates
  Zones <- MCZones
  Dates = {1}
  Moments = {190}
  Horizons = {1}
  CompletedDays = {0}
  \* ListNames
  Letters = {"a", "A", "b", " "}
  Blank = " "
  FoldedAs <- MCFolded
  Catalogues <- MCCatalogues
  MaxLetters = 1
  \* Bodies
  NoteTokens = {"a"}
  PageTokens = {"a"}
  MaxTokens = 1
INVARIANT NotFoundInEveryList
CHECK_DEADLOCK FALSE
