SPECIFICATION FairCallSpec
CONSTANTS
  main = main
  Callers = {main}
  Timeout = 2
  Renewals = 1
  MaxSize = 3
  MaxBody = 4
INVARIANTS NotCutShort SilenceIsBounded
PROPERTY CallEnds
