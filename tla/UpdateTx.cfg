SPECIFICATION FairSpec
CONSTANTS
  p1 = p1
  p2 = p2
  a = a
  b = b
  Procs = {p1, p2}
  Artifacts = {a, b}
  First = a
  MaxCopies = 1
  MaxOps = 2
  MaxFaults = 1
INVARIANTS CurrentIsComplete
PROPERTIES IntentResolved PromiseSpec
