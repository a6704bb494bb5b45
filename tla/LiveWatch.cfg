SPECIFICATION FairSpec
CONSTANTS
  mem = mem
  think = think
  llm = llm
  Table <- MCTable
  ProbeCost = 2
  RoundBudget = 3
  MaxEpoch = 2
INVARIANTS RebuildIsJustified InputGivenBack
