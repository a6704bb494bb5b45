SPECIFICATION FairSpec
CONSTANTS
  MaxTurns = 2
  BoardPolls = 2
  StaleMax = 2
  WaitPolls = 2
  PrintMode = FALSE
INVARIANTS TypeOK CancelOnlyWhenAsked VerdictIsReal AbsorbIsReal WorkerInsideWait
PROPERTIES LifeSpec TurnEnds StopReachesSched
CHECK_DEADLOCK FALSE
