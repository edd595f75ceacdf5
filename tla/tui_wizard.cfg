SPECIFICATION Spec
CONSTANTS
  Names = {a, b}
  Suggestions = {r1, r2, n1}
  Applicable = {r1, r2}
  Lists <- AnyFixes
  Modes = {TRUE}
  InitialName = a
  MaxRequests = 2
  MaxBirths = 2
  MaxEpoch = 4
  MaxInFlight = 2
  Keys = {"move", "detail", "fix", "escape", "help"}
  a = a
  b = b
  r1 = r1
  r2 = r2
  n1 = n1
  None = None
INVARIANTS
  TypeOK
  WizardFollowsData
  OutcomeIsOwn
CHECK_DEADLOCK FALSE
