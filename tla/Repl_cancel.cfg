SPECIFICATION Spec
CONSTANTS
  Commands <- Names
  Quit <- quit
  Tui <- tui_
  NeedsArgs <- WithArg
  Typed <- Tokens
  MaxLines = 2
  Earlier = 1
  MaxCounted = 2
INVARIANT CancelSparesNext
CHECK_DEADLOCK FALSE
