SPECIFICATION ToolsSpec
CONSTANTS
  \* SearchCursor
  Tasks = {1, 2, 3}
  Limits = {1, 3}
  CursorTtl = 1
  MaxClock = 2
  MaxMoves = 1
  MaxWrites = 2
  \* WriteTools
  Task = {"t1", "t2"}
  List = {"l1", "flagged"}
  Home <- MCHome
  Flagged = {"flagged"}
  Calls <- MCCalls
  Cap = 2
  MaxChanges = 1
  \* Checklist
  Requests <- MCRequests
  Checklists <- MCChecklists
  Names = {"milk", "eggs"}
  Keys = {"milk", "eggs", "i1", "i2", "blank"}
  NewIds <- MCNewIds
  MaxDisturbed = 1
  \* DueDates
  Zones <- MCZones
  Dates = {1, 2, 3}
  Moments = {190, 200, 260}
  Horizons = {1, 7}
  CompletedDays = {0, 1}
  \* ListNames
  Letters = {"a", "A", "b", " "}
  Blank = " "
  FoldedAs <- MCFolded
  Catalogues <- MCCatalogues
  MaxLetters = 3
  \* Bodies
  NoteTokens = {"a", " ", "newline", "&", "lt", "amp", "<", ">", "quote"}
  PageTokens = {"a", " ", "&", "amp", "lt", "<", ">", "<br>", "<td>", "<style>", "</style>", "<script>"}
  MaxTokens = 4
INVARIANTS PagesMeet OutcomesAreAccounted NotFoundIsSo ChecklistAfterIsTheServers
INVARIANTS DatesAreThoseMeant AgendaAgreesWithSearch MoreLettersNarrow NotesComeBack
INVARIANTS WritingBackChangesNothing UnchangedIsRecent
CHECK_DEADLOCK FALSE
