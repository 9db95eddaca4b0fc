SPECIFICATION FileSpec
CONSTANTS
  Torn = Torn
  CutChar = CutChar
  Kinds = {"events"}
  MaxRecords = 3
  MaxBatch = 2
  MaxStops = 1
INVARIANT TruncatedLastLineIsIgnored
CHECK_DEADLOCK FALSE
