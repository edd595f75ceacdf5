SPECIFICATION Spec
CONSTANTS
  Sessions = {s1, s2}
  Hpas = {web}
  Fields <- MCFields
  Values <- MCValues
  ValidSpecs <- MCValidSpecs
  CriticalSpecs <- MCCriticalSpecs
  PatchLists <- GuardedLists
  Options <- GuardedOptions
  MaxRevision = 2
  Faults = FALSE
  BadPatch = BadPatch
  None = None
INVARIANTS
  TypeOK
  WritesOnlyWhatWasAnalysed
  PolicyHoldsForPersisted
  ConsentBeforeWrite
  OneWinnerPerVersion
PROPERTIES
  ImplementsAtomicApply
SYMMETRY Interchangeable
CHECK_DEADLOCK FALSE
