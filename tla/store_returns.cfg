SPECIFICATION FairSpec
CONSTANTS
  Workers = {w1, w2, w3}
  Procs = {p1, p2}
  ProcOf <- TwoAndOne
  Times = {1}
  Spans = {0}
  InitialFiles <- Found
  MaxSnapshots = 2
  CompactAt = 2
  IOErrors = TRUE
  TornWrites = TRUE
  Corrupt = Corrupt
  None = None
PROPERTIES
  CallsReturn
