SPECIFICATION Spec
CONSTANTS
  Workers = {p1, p2}
  Procs = {p1, p2}
  ProcOf <- OneEach
  Times = {1, 2}
  Spans = {0, 1}
  InitialFiles <- Damaged
  MaxSnapshots = 4
  CompactAt = 2
  IOErrors = TRUE
  TornWrites = FALSE
  Corrupt = Corrupt
  None = None
INVARIANTS
  TypeOK
  MutualExclusion
  CacheExact
  AckedStaysReadable
  AnswersInOrder
PROPERTIES
  GarbageBounded
  ImplementsSnapshotLog
SYMMETRY Interchangeable
