SPECIFICATION KeySpec
CONSTANTS
  Platforms = {"posix", "windows"}
  Sends = {"char", "wide", "nul", "esc", "altB", "up", "home", "upApp", "del", "pgup", "pgdn", "ctrlD", "altC", "shiftC", "f9", "f10", "paste", "colour", "status", "cut"}
  StrMax = 3
  MaxSends = 3
  MaxGaps = 2
INVARIANTS MeansWhatWasSent
PROPERTIES CallReturns
CHECK_DEADLOCK FALSE
