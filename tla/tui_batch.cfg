SPECIFICATION FairSpec
CONSTANTS
  Names = {a}
  Suggestions = {r1, r2, n1}
  Applicable = {r1, r2}
  Lists <- OneFix
  Modes = {TRUE, FALSE}
  InitialName = None
  MaxRequests = 2
  MaxBirths = 2
  MaxEpoch = 2
  MaxInFlight = 2
  Keys = {"arrange", "select", "batch", "audit", "detail", "fix", "sim", "replay", "history", "metrics", "overview", "hints", "escape", "help"}
  a = a
  r1 = r1
  r2 = r2
  n1 = n1
  None = None
INVARIANTS
  PreviewIsCurrent
  WaitingIsAnswered
PROPERTIES
  ConfirmedOnly
  WaitsEnd
CHECK_DEADLOCK FALSE
