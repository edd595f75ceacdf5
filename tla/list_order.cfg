SPECIFICATION Spec
CONSTANTS
  NameCount = 2
  Limits = {1, 2}
  FlagSets <- MCFlagSets
  Unwell = {1}
  Bare = {2}
  AtMaximum = {1, 2}
  MaxFaults = 1
  ServerPages <- MCPages
  Queries <- MCQueries
  MaxListFaults = 3
  Recorders = {r1, r2}
  Hpas = {web, api}
  web = web
  api = api
  Batches <- MCBatches
  ChangeLimit = 1
  r1 = r1
  r2 = r2
  MaxTicks <- MCTicks
  WindowSize = 2
  Observed = {0, 1}
  Awaited = {1}
  MaxPolls = 4
INVARIANT StreamedAsAccumulated
CHECK_DEADLOCK FALSE
