SPECIFICATION Spec
CONSTANTS
  Workers = {p1, p2}
  Procs = {p1, p2}
  ProcOf <- OneEach
  Times = {1, 2}
  Spans = {1}
  InitialFiles <- Found
  MaxSnapshots = 4
  CompactAt = 2
  IOErrors = FALSE
  TornWrites = TRUE
  Corrupt = Corrupt
  None = None
INVARIANTS
  CacheExact
