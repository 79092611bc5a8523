SPECIFICATION BodySpec
CONSTANTS
  NoteTokens = {"a"}
  PageTokens = {"a", " ", "<br>", "<style>", "</style>"}
  MaxTokens = 3
INVARIANT OnlySpansAreDropped
CHECK_DEADLOCK FALSE
