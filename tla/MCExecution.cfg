SPECIFICATION Spec
CONSTANTS
  None = None
  s1 = s1
  s2 = s2
  b1 = b1
  i1 = i1
  i2 = i2
  a1 = a1
  v1 = v1
  f1 = f1
  f2 = f2
  n1 = n1
  m1 = m1
  Steps = {s1, s2}
  Boxes = {b1}
  Inputs = {i1, i2, a1}
  Values = {v1}
  Files = {f1, f2}
  Notes = {n1}
  Names = {m1}
  Contents <- MCContents
  Templates <- MCTemplates
  Hash <- MCHash
  Batches <- MCBatches
  MaxCopies = 2
  InTable = {i1}
INVARIANTS
  TypeOK
  SkippedStepIsEmpty
  ReversalRestores
  ReportIsComplete
  ProgressIsTrue
  OfferedActionsWork
PROPERTIES
  FinishedRecordIsFrozen
  InboxNeverLosesFile
