SPECIFICATION Spec
CONSTANTS
  Commands <- MCCommands
  Listing <- MCListing
  Dict <- MCDict
  PageSize = 2
  HistMax = 2
  LoadMax = 4
  BufMax = 5
  Caps <- MCCaps
  MaxBytes = 6
  MaxKeys = 6
INVARIANTS WholeCharacters CandidatesFit
PROPERTIES PinyinIsKept TabKeepsTheRest HistorySurvives
CHECK_DEADLOCK FALSE
