SPECIFICATION FileSpec
CONSTANTS
  Torn = Torn
  CutChar = CutChar
  Kinds = {"events", "pending", "rejected", "conflicts"}
  MaxRecords = 5
  MaxBatch = 2
  MaxStops = 3
INVARIANTS
  FileTypeOK
  StoppedWriteIsHarmless
  NoSilentLoss
CHECK_DEADLOCK FALSE
