SPECIFICATION Spec
CONSTANTS
  Names = {a}
  Suggestions = {r1, r2, n1}
  Applicable = {r1, r2}
  Lists <- OneFix
  Modes = {TRUE}
  InitialName = None
  MaxRequests = 3
  MaxBirths = 2
  MaxEpoch = 4
  MaxInFlight = 2
  Keys = {"detail", "history", "help", "escape"}
  a = a
  r1 = r1
  r2 = r2
  n1 = n1
  None = None
INVARIANTS
  HistoryIsAnswered
CHECK_DEADLOCK FALSE
