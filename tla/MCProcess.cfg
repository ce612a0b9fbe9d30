SPECIFICATION Spec
CONSTANTS
  Procs = {p1, p2, p3}
  Null = null
  NumEvents = 1
  MaxThreads = 2
  MaxCalls = 1
  ExitActive = FALSE
SYMMETRY Symmetry
INVARIANTS
  ListTellsWhoRuns
  CurrentRuns
  WalksMissNobody
  NoPollLost
