SPECIFICATION FairSpec
CONSTANTS
  mem = mem
  llm = llm
  Daemons = {mem, llm}
  Table <- MCTable
  Installed = {mem, llm}
  MaxRestarts = 2
  Backoff = 2
  Poll = 1
  ProbeMax = 1
INVARIANTS RestartsBounded
PROPERTIES BackoffFromScan ScanEnds
