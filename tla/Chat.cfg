SPECIFICATION FairSpec
CONSTANTS
  Capacity = 4
  ToolRounds = 2
  MaxCalls = 2
  MaxTurns = 3
  MaxMessages = 14
INVARIANTS TypeOK RequestIsWellFormed ToolRoundsBounded NothingTwice FailedLeavesNoTrace
PROPERTIES RebuiltIsWhole ChatEnds
