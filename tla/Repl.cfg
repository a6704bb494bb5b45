SPECIFICATION FairSpec
CONSTANTS
  Commands <- Names
  Quit <- quit
  Tui <- tui_
  NeedsArgs <- WithArg
  Typed <- Tokens
  MaxLines = 3
  Earlier = 1
  MaxCounted = 3
INVARIANTS StatusTellsFailure ShownIsOfThisSession
PROPERTIES PromptEnds
CHECK_DEADLOCK FALSE
